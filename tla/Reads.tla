------------------------------- MODULE Reads -------------------------------
(***************************************************************************)
(* The calls that read data of a process or an entity: the getters of      *)
(* packages/voting, the archive that they fall back to when no gateway has *)
(* the data any more (packages/client/src/gateway-archive.ts), and the     *)
(* files that both need (FileApi.fetchBytes).  Several calls share a pool, *)
(* whose gateways keep the archive's IPNS id once a call has asked ENS for *)
(* it, while processes move to the archive and the pool shifts.            *)
(***************************************************************************)
EXTENDS Naturals, Sequences, FiniteSets, Functions

CONSTANTS
    Readers,        \* calls that may be in progress
    Gateways,       \* gateways that a discovery may find
    Files,          \* what the metadata URI of the process may list
    MaxRefreshes    \* bound: refreshes of the pool

ASSUME ReadsAssumption ==
    /\ Gateways # {} /\ IsFiniteSet(Gateways)
    /\ Files \subseteq [hashed : BOOLEAN, ipfs : BOOLEAN, https : Nat]
    /\ MaxRefreshes \in Nat

VARIABLES
    where,      \* who has the process: "gateways", "both" or "archive"
    record,     \* the text record of the archive is set in ENS
    inState,    \* the state of the process names its metadata
    metadata,   \* the URI of the metadata: hash, IPFS item, https items
    pool,       \* the gateways of the pool, the active one first
    ids,        \* ids[g]: archiveIpnsId is set on gateway g
    refreshes,  \* number of refreshes so far
    read        \* read[r]: the call r

vars == <<where, record, inState, metadata, pool, ids, refreshes, read>>
world == <<where, record, inState, metadata, refreshes>>

\* One call: what it asks first, whether it may consult the archive, and what
\* file it fetches in the end.
GetProcessState == [first |-> "asking", archive |-> TRUE, file |-> FALSE]
GetProcessSummary == [first |-> "asking", archive |-> TRUE, file |-> FALSE]
GetResultsWeight == [first |-> "asking", archive |-> TRUE, file |-> FALSE]
GetEnvelopeHeight == [first |-> "asking", archive |-> TRUE, file |-> FALSE]
FetchRawResults == [first |-> "asking", archive |-> TRUE, file |-> FALSE]
GetEnvelope == [first |-> "asking", archive |-> FALSE, file |-> FALSE]
GetEnvelopeList == [first |-> "asking", archive |-> FALSE, file |-> FALSE]
GetProcess == [first |-> "asking", archive |-> TRUE, file |-> TRUE]
GetProcessMetadata == [first |-> "asking", archive |-> TRUE, file |-> TRUE]
GetEntityMetadata == [first |-> "text", archive |-> FALSE, file |-> TRUE]
FetchCircuitFile == [first |-> "circuit", archive |-> FALSE, file |-> TRUE]
GetProcessList(fromArchive) ==
    [first |-> IF fromArchive THEN "archive" ELSE "asking",
     archive |-> fromArchive, file |-> FALSE]

Getters ==
    { GetProcessState, GetProcessSummary, GetResultsWeight, GetEnvelopeHeight,
      FetchRawResults, GetEnvelope, GetEnvelopeList, GetProcess,
      GetProcessMetadata, GetEntityMetadata, FetchCircuitFile }
        \cup { GetProcessList(b) : b \in BOOLEAN }

\* The archive's files are reached by IPNS and carry no hash; those of a
\* circuit carry one.
ArchiveFile == [hashed |-> FALSE, ipfs |-> TRUE, https |-> 0]
CircuitFile == [hashed |-> TRUE, ipfs |-> FALSE, https |-> 1]

Idle ==
    [ getter |-> GetProcessState, skip |-> FALSE, listed |-> FALSE,
      step |-> "idle", uri |-> ArchiveFile, at |-> 0, gone |-> {},
      last |-> TRUE, hard |-> FALSE, content |-> "none" ]

Busy == {"asking", "network", "record", "text", "contract", "fetching"}

\* Source 0 is the gateway, 1 the public IPFS gateways, 2.. the https items.
Sources(uri) == (IF uri.ipfs THEN {1} ELSE {}) \cup { 1 + i : i \in 1..uri.https }

Uris == [hashed : BOOLEAN, ipfs : BOOLEAN, https : Nat]
Calls ==
    [ getter : Getters, skip : BOOLEAN, listed : BOOLEAN,
      step : Busy \cup {"idle", "returned", "rejected"},
      uri : Uris, at : Nat, gone : SUBSET Nat,
      last : BOOLEAN, hard : BOOLEAN, content : {"none", "good", "forged"} ]

Pools == UNION { Injection(1..n, Gateways) : n \in 1..Cardinality(Gateways) }

TypeOK ==
    /\ where \in {"gateways", "both", "archive"}
    /\ {record, inState} \subseteq BOOLEAN
    /\ metadata \in Files
    /\ pool \in Pools
    /\ ids \in [Gateways -> BOOLEAN]
    /\ refreshes \in 0..MaxRefreshes
    /\ read \in [Readers -> Calls]
    /\ \A r \in Readers : read[r].at <= 2 + read[r].uri.https

Init ==
    /\ where = "gateways"
    /\ record \in BOOLEAN
    /\ inState \in BOOLEAN
    /\ metadata \in Files
    /\ pool \in Pools
    /\ ids = [g \in Gateways |-> FALSE]
    /\ refreshes = 0
    /\ read = [r \in Readers |-> Idle]

-----------------------------------------------------------------------------
(***************************************************************************)
(* The world: the process is archived, then dropped by the gateways; the   *)
(* text record is set; the pool shifts, or is replaced by new gateways.    *)
(***************************************************************************)

Archive ==
    /\ where' = CASE where = "gateways" -> "both" [] OTHER -> "archive"
    /\ where # "archive"
    /\ UNCHANGED <<record, inState, metadata, pool, ids, refreshes, read>>

SetRecord ==
    /\ ~record
    /\ record' = TRUE
    /\ UNCHANGED <<where, inState, metadata, pool, ids, refreshes, read>>

Shift ==
    /\ Len(pool) > 1
    /\ pool' = Append(Tail(pool), Head(pool))
    /\ UNCHANGED <<world, ids, read>>

Refresh ==
    /\ refreshes < MaxRefreshes
    /\ refreshes' = refreshes + 1
    /\ pool' \in Pools
    /\ ids' = [g \in Gateways |-> FALSE]
    /\ UNCHANGED <<where, record, inState, metadata, read>>

-----------------------------------------------------------------------------
(***************************************************************************)
(* Steps of a call.  Each takes the record of the call to the next one.    *)
(***************************************************************************)

Becomes(r, next) ==
    /\ read' = [read EXCEPT ![r] = next]
    /\ UNCHANGED <<world, pool, ids>>

Rejected(c) == [c EXCEPT !.step = "rejected"]
Failed(c) == [Idle EXCEPT !.step = "rejected", !.hard = TRUE]
Returned(c) == [Idle EXCEPT !.step = "returned", !.uri = c.uri]

\* FileApi.fetchString(uri, gateway): first the gateway, if there is one.
Fetching(c, uri, last) ==
    [c EXCEPT !.step = "fetching", !.uri = uri, !.last = last,
              !.at = IF c.getter.first = "circuit" THEN 1 ELSE 0, !.gone = {}]

\* resolveArchiveUri: the id of the active gateway, or the record of ENS.
Archived(c) ==
    IF ids[Head(pool)] THEN Fetching(c, ArchiveFile, ~c.getter.file)
                       ELSE [c EXCEPT !.step = "network"]

\* The data of the process is here: its metadata is next, where it says.
WithData(c) ==
    IF ~c.getter.file THEN Returned(c)
    ELSE IF inState THEN Fetching(c, metadata, TRUE)
    ELSE [c EXCEPT !.step = "contract"]

Call(r, getter, skip) ==
    /\ read[r].step = "idle"
    /\ skip => getter.archive /\ getter.first = "asking"
    /\ LET c == [Idle EXCEPT !.getter = getter, !.skip = skip, !.listed = record]
       IN  Becomes(r, CASE getter.first = "archive" -> Archived(c)
                        [] getter.first = "circuit" -> Fetching(c, CircuitFile, TRUE)
                        [] OTHER -> [c EXCEPT !.step = getter.first])

\* Mutant of NoData: a message is looked for that the gateways do not send.
NoDataRethrown(c) == IF c.getter.archive THEN Rejected(c) ELSE Failed(c)

\* "No data found for this key": the archive, unless the caller skips it.
NoData(c) ==
    IF ~c.getter.archive THEN Failed(c)
    ELSE IF c.skip THEN Rejected(c)
    ELSE Archived(c)

Answer(r) ==
    /\ read[r].step = "asking"
    /\ Becomes(r, IF where = "archive" THEN NoData(read[r]) ELSE WithData(read[r]))

\* The request for the network of the archive is answered.
Network(r) ==
    /\ read[r].step = "network"
    /\ Becomes(r, [read[r] EXCEPT !.step = "record"])

\* Mutant of WithId: only the active gateway keeps the id.
WithIdActive == [ids EXCEPT ![Head(pool)] = TRUE]

\* set archiveIpnsId of the pool: on every gateway.
WithId == [g \in Gateways |-> ids[g] \/ g \in Range(pool)]

\* The text record is read; without one the archive cannot be found.
TextRecord(r) ==
    /\ read[r].step = "record"
    /\ read' = [read EXCEPT ![r] =
          IF record THEN Fetching(@, ArchiveFile, ~@.getter.file) ELSE Rejected(@)]
    /\ ids' = IF record THEN WithId ELSE ids
    /\ UNCHANGED <<world, pool>>

\* The metadata URI comes from the contract, or from the entity's record.
OwnUri(r) ==
    /\ read[r].step \in {"contract", "text"}
    /\ Becomes(r, Fetching(read[r], metadata, TRUE))

\* Any other answer, an error or a timeout rejects the call.
Fails(r) ==
    /\ read[r].step \in Busy \ {"fetching"}
    /\ Becomes(r, Failed(read[r]))

-----------------------------------------------------------------------------
(***************************************************************************)
(* FileApi.fetchBytes: the gateway, public IPFS gateways, https items.     *)
(***************************************************************************)

\* Mutant of Accepted: the hash is compared for the gateway's copy only.
AcceptedUnverified(c, content) == content = "good" \/ ~c.uri.hashed \/ c.at > 0

\* The content is taken: a hash, if there is one, must fit.
Accepted(c, content) == content = "good" \/ ~c.uri.hashed

\* The file is here: parsed, and the data of the archive is used like that of
\* a gateway.  A forged file that was taken may still be parsed.
WithFile(c, content) ==
    IF ~c.last THEN WithData(c) ELSE [Returned(c) EXCEPT !.content = content]

\* Mutant of NextSource: the source that failed is asked again.
NextSourceAgain(c) == [c EXCEPT !.gone = @ \cup {c.at}]

NextSource(c) == [c EXCEPT !.at = @ + 1, !.gone = @ \cup {c.at}]

\* The gateway has the file, or another one, or none, or an error: only the
\* messages of the pool and of the timeout lead to the next source.
FromGateway(r) ==
    LET c == read[r]
    IN  /\ c.step = "fetching" /\ c.at = 0
        /\ \/ \E content \in {"good", "forged"} :
                 Becomes(r, IF Accepted(c, content) THEN WithFile(c, content)
                                                    ELSE Failed(c))
           \/ Becomes(r, NextSource(c))
           \/ Becomes(r, Failed(c))

\* A public server answers, which it need not: a failure leads to the next.
FromPublic(r) ==
    LET c == read[r]
    IN  \/ \E content \in {"good", "forged"} :
              Becomes(r, IF Accepted(c, content) THEN WithFile(c, content)
                                                 ELSE NextSource(c))
        \/ Becomes(r, NextSource(c))

AtIpfs(c) == c.step = "fetching" /\ c.at = 1 /\ c.uri.ipfs
FromIpfs(r) == AtIpfs(read[r]) /\ FromPublic(r)

AtHttps(c) == c.step = "fetching" /\ c.at \in 2..(1 + c.uri.https)
FromHttps(r) == AtHttps(read[r]) /\ FromPublic(r)

\* The URI has no IPFS item.
SkipsIpfs(r) ==
    /\ read[r].step = "fetching" /\ read[r].at = 1 /\ ~read[r].uri.ipfs
    /\ Becomes(r, [read[r] EXCEPT !.at = 2])

\* Mutant of TimesOut: the IPFS gateways are awaited without a limit.
TimesOutHttps(r) == AtHttps(read[r]) /\ Becomes(r, NextSource(read[r]))

\* promiseWithTimeout of the public servers.
TimesOut(r) ==
    /\ AtIpfs(read[r]) \/ AtHttps(read[r])
    /\ Becomes(r, NextSource(read[r]))

Exhausted(c) == c.at > 1 + c.uri.https

\* "Unable to connect to the network"
GiveUp(r) ==
    /\ read[r].step = "fetching"
    /\ Exhausted(read[r])
    /\ Becomes(r, Rejected(read[r]))

-----------------------------------------------------------------------------
Reply(r) ==
    \/ Answer(r) \/ Network(r) \/ TextRecord(r) \/ OwnUri(r)
    \/ FromGateway(r) \/ SkipsIpfs(r) \/ TimesOut(r) \/ GiveUp(r)

Done ==
    /\ \A r \in Readers : read[r].step \in {"returned", "rejected"}
    /\ UNCHANGED vars

Next ==
    \/ Archive \/ SetRecord \/ Shift \/ Refresh \/ Done
    \/ \E r \in Readers :
          \/ \E getter \in Getters, skip \in BOOLEAN : Call(r, getter, skip)
          \/ Reply(r)
          \/ Fails(r) \/ FromIpfs(r) \/ FromHttps(r)

Spec == Init /\ [][Next]_vars

\* Gateways answer or time out (RequestDelivery), and timers fire; a public
\* server may never answer.
FairSpec == Spec /\ \A r \in Readers : WF_vars(Reply(r))

-----------------------------------------------------------------------------
(***************************************************************************)
(* Properties                                                              *)
(***************************************************************************)

\* A process that moves to the archive while it is read stays readable: a call
\* is rejected only if a gateway, or a chain, failed it, if it was told to skip
\* the archive, if ENS had no record of the archive when it began, or if every
\* source that the file has, the gateway first, failed to give it.
RejectedWithReason ==
    \A r \in Readers : read[r].step = "rejected" =>
        \/ read[r].hard
        \/ read[r].skip
        \/ ~read[r].listed
        \/ /\ Sources(read[r].uri) \subseteq read[r].gone
           /\ read[r].getter.first = "circuit" \/ 0 \in read[r].gone

\* What was fetched under a hash is what the hash stands for, wherever it came
\* from (verify in each of the three attempts of fetchBytes).
HashedIsVerified ==
    \A r \in Readers : read[r].step = "returned" /\ read[r].uri.hashed
                          => read[r].content # "forged"

\* Once a call has learned the archive's id, no later call asks ENS for it
\* before the pool is refreshed, whatever gateway is active by then.
AsksEnsOnce ==
    [][\A r \in Readers :
          /\ read[r].step # "network"
          /\ read'[r].step = "network"
          => \A g \in Range(pool) : ~ids[g]]_vars

\* The requests and sources that a call has before it, at most: its own file,
\* once it has the data, and that of the archive before it.
OfFile(c) == IF c.getter.file THEN 4 + metadata.https ELSE 0
ToGo(c) ==
    CASE c.step = "asking"   -> 6 + OfFile(c)
      [] c.step = "network"  -> 5 + OfFile(c)
      [] c.step = "record"   -> 4 + OfFile(c)
      [] c.step = "fetching" -> (3 + c.uri.https - c.at) + (IF c.last THEN 0 ELSE OfFile(c))
      [] c.step \in {"contract", "text"} -> 4 + metadata.https
      [] OTHER -> 0

\* No call goes round in circles between the gateways, ENS, the archive and the
\* sources of a file: whatever the answers are, each brings it closer to its end.
ReadsAdvance ==
    [][\A r \in Readers :
          read[r].step \in Busy /\ read'[r] # read[r] => ToGo(read'[r]) < ToGo(read[r])]_vars

\* Every call settles, though public servers may never answer.
ReadsSettle ==
    \A r \in Readers : read[r].step \in Busy ~> read[r].step \in {"returned", "rejected"}
=============================================================================
