------------------------------- MODULE Census -------------------------------
(***************************************************************************)
(* How an organizer registers the census of a process: addCensus, addClaim *)
(* or addClaimBulk, publishCensus and getSize of                           *)
(* packages/census/src/offchain-calls.ts, in the order in which            *)
(* generatePublicCensusFromAccounts of the examples calls them, through a  *)
(* pool that repeats some of their requests on another gateway.  Each      *)
(* gateway keeps censuses of its own.                                      *)
(***************************************************************************)
EXTENDS Naturals, FiniteSets

CONSTANTS
    Gateways,   \* the gateways of the pool
    Chunks,     \* positive number of chunks of the claim list (CENSUS_MAX_BULK_SIZE)
    StopOnError,\* config.stopOnError: counts are compared
    MaxReruns   \* bound: times that the organizer starts again

VARIABLES
    stores,     \* stores[g]: what gateway g has of the census: 0 if it
                \* exists, and the numbers of the chunks whose claims it has
    active,     \* the active gateway of the pool
    step,       \* what the organizer awaits
    tried,      \* gateways that have failed the request in progress
    late,       \* gateways that may yet execute an addCensus that timed out
    chunk,      \* the next chunk
    root,       \* claims under the root that addClaimBulk returned
    uri,        \* claims of the tree that publishCensus returned
    reruns      \* times that the organizer has started again

censusVars == <<stores, active, step, tried, late, chunk, root, uri, reruns>>

Pieces == 0..Chunks
Claims == 1..Chunks
Has(g) == 0 \in stores[g]

CensusTypeOK ==
    /\ stores \in [Gateways -> SUBSET Pieces]
    /\ active \in Gateways
    /\ step \in {"asks", "adds", "asksNew", "claims", "root", "publishes",
                 "counts", "ready", "failed"}
    /\ tried \subseteq Gateways
    /\ late \subseteq Gateways
    /\ chunk \in 1..(Chunks + 1)
    /\ root \subseteq Claims
    /\ uri \subseteq Claims
    /\ reruns \in 0..MaxReruns

CensusInit ==
    /\ stores = [g \in Gateways |-> {}]
    /\ active \in Gateways
    /\ step = "asks"
    /\ tried = {}
    /\ late = {}
    /\ chunk = 1
    /\ root = {}
    /\ uri = {}
    /\ reruns = 0

-----------------------------------------------------------------------------
(***************************************************************************)
(* The pool, seen from one request: an error that asks for another gateway *)
(* repeats it there until each has failed; any other error ends it.        *)
(***************************************************************************)

To(next) == step' = next /\ tried' = {}
Stored(g, pieces) == stores' = [stores EXCEPT ![g] = @ \cup pieces]

Repeated ==
    \/ \E g \in Gateways \ (tried \cup {active}) :
          /\ active' = g
          /\ tried' = tried \cup {active}
          /\ UNCHANGED step
    \/ /\ Gateways = tried \cup {active}
       /\ To("failed")
       /\ UNCHANGED active

\* Another user of the pool makes it shift.
ShiftByOther ==
    /\ active' \in Gateways \ {active}
    /\ UNCHANGED <<stores, step, tried, late, chunk, root, uri, reruns>>

\* A gateway executes a request that its client no longer awaits.
ExecutesLate(g) ==
    /\ g \in late
    /\ late' = late \ {g}
    /\ Stored(g, {0})
    /\ UNCHANGED <<active, step, tried, chunk, root, uri, reruns>>

-----------------------------------------------------------------------------
\* addCensus: is there one already?  Errors, also of the connection, count as
\* no, and getRoot is not repeated.
AskRoot ==
    /\ step = "asks"
    /\ \/ Has(active) /\ To("claims")
       \/ To("adds")
    /\ UNCHANGED <<stores, active, late, chunk, root, uri, reruns>>

\* The request that creates the census: done, or lost before or after it was
\* executed and repeated elsewhere, or refused.
AddCensus ==
    /\ step = "adds"
    /\ \/ Stored(active, {0}) /\ To("asksNew") /\ UNCHANGED <<active, late>>
       \/ Repeated /\ late' = late \cup {active} /\ UNCHANGED stores
       \/ To("failed") /\ UNCHANGED <<stores, active, late>>
    /\ UNCHANGED <<chunk, root, uri, reruns>>

\* getRoot of the new census.
AskNewRoot ==
    /\ step = "asksNew"
    /\ \/ Has(active) /\ To("claims")
       \/ To("failed")
    /\ UNCHANGED <<stores, active, late, chunk, root, uri, reruns>>

\* addClaim, for the claims of a first chunk: it may be repeated.
AddClaim ==
    /\ step = "claims" /\ chunk = 1
    /\ \/ /\ Has(active)
          /\ Stored(active, {1})
          /\ chunk' = 2
          /\ To(IF Chunks = 1 THEN "root" ELSE "claims")
          /\ UNCHANGED active
       \/ /\ Repeated
          /\ UNCHANGED chunk
          /\ \/ Has(active) /\ Stored(active, {1})
             \/ UNCHANGED stores
       \/ To("failed") /\ UNCHANGED <<stores, active, chunk>>
    /\ UNCHANGED <<late, root, uri, reruns>>

\* addClaimBulk: chunk after chunk to whichever gateway is active, never
\* repeated.  Claims that the gateway refuses make the organizer give up, here
\* at once, in the code after the other chunks and the root.
AddClaimChunk ==
    /\ step = "claims" /\ tried = {}
    /\ \/ /\ Has(active)
          /\ Stored(active, {chunk})
          /\ chunk' = chunk + 1
          /\ To(IF chunk = Chunks THEN "root" ELSE "claims")
       \/ /\ To("failed")
          /\ UNCHANGED chunk
          /\ \/ Has(active) /\ Stored(active, {chunk})
             \/ UNCHANGED stores
    /\ UNCHANGED <<active, late, root, uri, reruns>>

\* Mutant of ReadRoot: its errors are ignored, as in addCensus.
ReadRootIgnored ==
    /\ step = "root"
    /\ \/ Has(active) /\ root' = stores[active] \ {0}
       \/ UNCHANGED root
    /\ To("publishes")
    /\ UNCHANGED <<stores, active, late, chunk, uri, reruns>>

\* The root that addClaimBulk returns.
ReadRoot ==
    /\ step = "root"
    /\ \/ /\ Has(active)
          /\ root' = stores[active] \ {0}
          /\ To("publishes")
       \/ To("failed") /\ UNCHANGED root
    /\ UNCHANGED <<stores, active, late, chunk, uri, reruns>>

\* publishCensus.  Its request is called `publish` and SEQUENTIAL_METHODS has
\* `publishCensus`: it is repeated elsewhere like any other.
PublishCensus ==
    /\ step = "publishes"
    /\ \/ /\ Has(active)
          /\ uri' = stores[active] \ {0}
          /\ To("counts")
          /\ UNCHANGED active
       \/ Repeated /\ UNCHANGED uri
       \/ To("failed") /\ UNCHANGED <<active, uri>>
    /\ UNCHANGED <<stores, late, chunk, root, reruns>>

\* Mutant of GetSize: the size is not compared.
GetSizeUnchecked ==
    /\ step = "counts"
    /\ Has(active)
    /\ To("ready")
    /\ UNCHANGED <<stores, active, late, chunk, root, uri, reruns>>

\* getSize by census id, compared with the number of claims.
GetSize ==
    /\ step = "counts"
    /\ \/ /\ Has(active)
          /\ To(IF StopOnError => Claims \subseteq stores[active]
                THEN "ready" ELSE "failed")
          /\ UNCHANGED active
       \/ Repeated
       \/ To("failed") /\ UNCHANGED active
    /\ UNCHANGED <<stores, late, chunk, root, uri, reruns>>

\* An organizer that gives the census a name of its own may start again (the
\* examples name it after the time); the gateways keep what they have.
Rerun ==
    /\ step = "failed"
    /\ reruns < MaxReruns
    /\ reruns' = reruns + 1
    /\ To("asks")
    /\ chunk' = 1
    /\ root' = {}
    /\ uri' = {}
    /\ UNCHANGED <<stores, active, late>>

CensusNext ==
    \/ ShiftByOther
    \/ \E g \in Gateways : ExecutesLate(g)
    \/ AskRoot \/ AddCensus \/ AskNewRoot \/ AddClaim \/ AddClaimChunk
    \/ ReadRoot \/ PublishCensus \/ GetSize \/ Rerun

CensusSpec == CensusInit /\ [][CensusNext]_censusVars

-----------------------------------------------------------------------------
(***************************************************************************)
(* Properties                                                              *)
(***************************************************************************)

OneCopy == Cardinality({ g \in Gateways : Has(g) }) <= 1

\* While one gateway alone has the census, other users of the pool, repeated
\* requests and earlier attempts cannot make the organizer end with a root or
\* a published tree that lacks a claim: whatever reaches another gateway fails
\* or comes back.
OneCopyIsComplete ==
    step = "ready" /\ OneCopy => root = Claims /\ uri = Claims

\* Some gateway has every claim when the organizer is done, though its root
\* and its tree may come from another copy (the size is compared in the end).
ReadyIsStored ==
    StopOnError /\ step = "ready" =>
        \E g \in Gateways : Claims \subseteq stores[g]
=============================================================================
