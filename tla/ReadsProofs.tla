---------------------------- MODULE ReadsProofs ----------------------------
(***************************************************************************)
(* Theorems about Reads, for any number of calls, gateways and files.      *)
(*                                                                         *)
(* A call goes from step to step by itself: what the world does behind it  *)
(* matters only through the text record of the archive, which stays once   *)
(* it is set, and through the ids that the gateways of the pool keep,      *)
(* which are all set or all unset.  So the invariant speaks of each call   *)
(* alone (CallInv), and of the pool (IdsUniform).                          *)
(***************************************************************************)
EXTENDS Reads, TLAPS

\* Why a call was rejected, from its own record.
HasReason(c) ==
    \/ c.hard
    \/ c.skip
    \/ ~c.listed
    \/ /\ Sources(c.uri) \subseteq c.gone
       /\ c.getter.first = "circuit" \/ 0 \in c.gone

\* The sources before the one that is asked have all failed.
GoneBefore(c) ==
    /\ \A s \in Sources(c.uri) : s < c.at => s \in c.gone
    /\ c.at > 0 => c.getter.first = "circuit" \/ 0 \in c.gone

CallInv(c) ==
    /\ c \in Calls
    /\ c.at <= 2 + c.uri.https
    /\ c.step = "fetching" => GoneBefore(c)
    /\ c.step = "rejected" => HasReason(c)
    /\ c.step = "returned" /\ c.uri.hashed => c.content # "forged"

\* A record that was there when a call began is still there.
ListedInv == \A r \in Readers : read[r].listed => record

\* The gateways of the pool know the id of the archive, or none does.
IdsUniform ==
    \/ \A g \in Range(pool) : ids[g]
    \/ \A g \in Range(pool) : ~ids[g]

ReadsInv ==
    /\ TypeOK
    /\ \A r \in Readers : CallInv(read[r])
    /\ ListedInv
    /\ IdsUniform

-----------------------------------------------------------------------------
(***************************************************************************)
(* What each step makes of the record of a call.                           *)
(***************************************************************************)

LEMMA UrisAreTyped ==
    /\ ArchiveFile \in Uris
    /\ CircuitFile \in Uris
    /\ Files \subseteq Uris
BY ReadsAssumption DEF ReadsAssumption, ArchiveFile, CircuitFile, Uris

LEMMA IdleInv == CallInv(Idle)
<1>1. GetProcessState \in Getters
  BY DEF Getters
<1> QED BY <1>1, UrisAreTyped DEF CallInv, Calls, Idle, ArchiveFile

LEMMA EndedInv ==
    ASSUME NEW c \in Calls
    PROVE  /\ CallInv(Failed(c)) /\ ~Failed(c).listed
           /\ CallInv(Returned(c)) /\ ~Returned(c).listed
<1>1. /\ Idle \in Calls /\ ~Idle.listed /\ Idle.at = 0
      /\ Idle.content = "none" /\ Idle.uri.https \in Nat
  BY IdleInv, UrisAreTyped DEF CallInv, Idle, Uris
<1>2. c.uri \in Uris /\ c.uri.https \in Nat
  BY DEF Calls, Uris
<1>3. CallInv(Failed(c)) /\ ~Failed(c).listed
  <2>1. /\ Failed(c) \in Calls /\ Failed(c).step = "rejected" /\ Failed(c).hard
        /\ Failed(c).uri = Idle.uri /\ Failed(c).at = 0 /\ ~Failed(c).listed
    BY <1>1 DEF Calls, Failed
  <2> QED BY <1>1, <2>1 DEF CallInv, HasReason
<1>4. CallInv(Returned(c)) /\ ~Returned(c).listed
  <2>1. /\ Returned(c) \in Calls /\ Returned(c).step = "returned"
        /\ Returned(c).uri = c.uri /\ Returned(c).at = 0
        /\ Returned(c).content = "none" /\ ~Returned(c).listed
    BY <1>1, <1>2 DEF Calls, Returned
  <2> QED BY <1>2, <2>1 DEF CallInv
<1> QED BY <1>3, <1>4

\* The first source is asked first; a circuit has no gateway among its own.
LEMMA FetchingInv ==
    ASSUME NEW c \in Calls, NEW uri \in Uris, NEW last \in BOOLEAN
    PROVE  /\ CallInv(Fetching(c, uri, last))
           /\ Fetching(c, uri, last).listed = c.listed
<1> DEFINE d == Fetching(c, uri, last)
<1>1. d \in Calls /\ d.uri = uri /\ d.step = "fetching" /\ d.gone = {}
      /\ d.getter = c.getter /\ d.listed = c.listed
      /\ d.at = (IF c.getter.first = "circuit" THEN 1 ELSE 0)
  BY DEF Fetching, Calls, Busy
<1>2. uri.https \in Nat
  BY DEF Uris
<1>3. GoneBefore(d)
  BY <1>1, <1>2 DEF GoneBefore, Sources
<1> QED BY <1>1, <1>2, <1>3 DEF CallInv

LEMMA StepInv ==
    ASSUME NEW c, CallInv(c),
           NEW step \in {"asking", "network", "record", "text", "contract"}
    PROVE  /\ CallInv([c EXCEPT !.step = step])
           /\ [c EXCEPT !.step = step].listed = c.listed
BY DEF CallInv, Calls, Busy

LEMMA ArchivedInv ==
    ASSUME NEW c, CallInv(c)
    PROVE  CallInv(Archived(c)) /\ Archived(c).listed = c.listed
<1>1. c \in Calls /\ (~c.getter.file) \in BOOLEAN
  BY DEF CallInv
<1>2. CASE ids[Head(pool)]
  BY <1>1, <1>2, UrisAreTyped, FetchingInv DEF Archived
<1>3. CASE ~ids[Head(pool)]
  BY <1>3, StepInv DEF Archived
<1> QED BY <1>2, <1>3

LEMMA WithDataInv ==
    ASSUME NEW c, CallInv(c), metadata \in Files
    PROVE  CallInv(WithData(c)) /\ (WithData(c).listed => c.listed)
<1>1. c \in Calls /\ metadata \in Uris
  BY UrisAreTyped DEF CallInv
<1>2. CASE ~c.getter.file
  BY <1>1, <1>2, EndedInv DEF WithData
<1>3. CASE c.getter.file /\ inState
  BY <1>1, <1>3, FetchingInv DEF WithData
<1>4. CASE c.getter.file /\ ~inState
  BY <1>4, StepInv DEF WithData
<1> QED BY <1>2, <1>3, <1>4

LEMMA NoDataInv ==
    ASSUME NEW c, CallInv(c)
    PROVE  CallInv(NoData(c)) /\ (NoData(c).listed => c.listed)
<1>1. c \in Calls
  BY DEF CallInv
<1>2. CASE ~c.getter.archive
  BY <1>1, <1>2, EndedInv DEF NoData
<1>3. CASE c.getter.archive /\ c.skip
  <2>1. CallInv(Rejected(c)) /\ Rejected(c).listed = c.listed
    BY <1>3 DEF CallInv, Calls, Rejected, HasReason
  <2> QED BY <1>3, <2>1 DEF NoData
<1>4. CASE c.getter.archive /\ ~c.skip
  BY <1>4, ArchivedInv DEF NoData
<1> QED BY <1>2, <1>3, <1>4

\* A file is taken only if its hash fits, so what is returned is what it says.
LEMMA WithFileInv ==
    ASSUME NEW c, CallInv(c), metadata \in Files,
           NEW content \in {"good", "forged"}, Accepted(c, content)
    PROVE  CallInv(WithFile(c, content)) /\ (WithFile(c, content).listed => c.listed)
<1>1. CASE ~c.last
  BY <1>1, WithDataInv DEF WithFile
<1>2. CASE c.last
  <2>1. c \in Calls
    BY DEF CallInv
  <2>2. CallInv(Returned(c)) /\ ~Returned(c).listed /\ Returned(c).uri = c.uri
        /\ Returned(c).step = "returned"
    BY <2>1, EndedInv DEF Returned, Idle
  <2>3. ~c.uri.hashed \/ content # "forged"
    BY DEF Accepted
  <2> QED BY <1>2, <2>2, <2>3 DEF WithFile, CallInv, Calls
<1> QED BY <1>1, <1>2

LEMMA NextSourceInv ==
    ASSUME NEW c, CallInv(c), c.step = "fetching", c.at <= 1 + c.uri.https
    PROVE  CallInv(NextSource(c)) /\ NextSource(c).listed = c.listed
<1> DEFINE d == NextSource(c)
<1>1. c \in Calls /\ c.uri \in Uris /\ c.uri.https \in Nat /\ c.at \in Nat
  BY DEF CallInv, Calls, Uris
<1>2. /\ d \in Calls /\ d.uri = c.uri /\ d.step = c.step /\ d.at = c.at + 1
      /\ d.gone = c.gone \cup {c.at} /\ d.getter = c.getter
      /\ d.listed = c.listed
  <2>1. c.at + 1 \in Nat /\ c.gone \cup {c.at} \in SUBSET Nat
    BY <1>1 DEF Calls
  <2> QED BY <1>1, <2>1 DEF NextSource, Calls
<1>3. GoneBefore(c)
  BY DEF CallInv
<1>4. GoneBefore(d)
  <2>1. ASSUME NEW s \in Sources(c.uri), s < c.at + 1 PROVE s \in d.gone
    BY <1>1, <1>2, <1>3, <2>1 DEF GoneBefore, Sources
  <2> QED BY <1>1, <1>2, <1>3, <2>1 DEF GoneBefore
<1> QED BY <1>1, <1>2, <1>4 DEF CallInv

\* Every source was asked when the last one has failed.
LEMMA GiveUpInv ==
    ASSUME NEW c, CallInv(c), c.step = "fetching", Exhausted(c)
    PROVE  CallInv(Rejected(c)) /\ Rejected(c).listed = c.listed
<1>1. c \in Calls /\ c.uri \in Uris /\ c.uri.https \in Nat /\ c.at \in Nat
  BY DEF CallInv, Calls, Uris
<1>2. GoneBefore(c) /\ c.at > 1 + c.uri.https
  BY DEF CallInv, Exhausted
<1>3. Sources(c.uri) \subseteq c.gone
  BY <1>1, <1>2 DEF GoneBefore, Sources
<1>4. HasReason(c)
  BY <1>1, <1>2, <1>3 DEF GoneBefore, HasReason
<1> QED BY <1>1, <1>4 DEF CallInv, Calls, Rejected, HasReason

-----------------------------------------------------------------------------
(***************************************************************************)
(* The pool.                                                               *)
(***************************************************************************)

\* A shift keeps the gateways of the pool, each of them once.
LEMMA ShiftKeepsPool ==
    ASSUME pool \in Pools, Len(pool) > 1
    PROVE  LET shifted == Append(Tail(pool), Head(pool))
           IN  shifted \in Pools /\ Range(shifted) = Range(pool)
<1> DEFINE shifted == Append(Tail(pool), Head(pool))
<1>1. PICK n \in 1..Cardinality(Gateways) : pool \in Injection(1..n, Gateways)
  BY DEF Pools
<1>2. /\ pool \in [1..n -> Gateways]
      /\ \A i, j \in 1..n : pool[i] = pool[j] => i = j
  BY <1>1 DEF Injection, IsInjective
<1>3. n \in Nat /\ pool \in Seq(Gateways) /\ Len(pool) = n
  BY <1>2
<1>4. /\ shifted \in [1..n -> Gateways]
      /\ \A i \in 1..n : shifted[i] = pool[IF i = n THEN 1 ELSE i + 1]
  <2>1. /\ Tail(pool) \in Seq(Gateways) /\ Len(Tail(pool)) = n - 1
        /\ \A i \in 1..(n - 1) : Tail(pool)[i] = pool[i + 1]
        /\ Head(pool) = pool[1] /\ pool[1] \in Gateways
    BY <1>2, <1>3
  <2>2. shifted \in Seq(Gateways) /\ Len(shifted) = n
    BY <1>3, <2>1
  <2>3. shifted[n] = pool[1] /\ \A i \in 1..(n - 1) : shifted[i] = pool[i + 1]
    BY <1>3, <2>1
  <2>4. shifted \in [1..n -> Gateways]
    <3> HIDE DEF shifted
    <3> QED BY <2>2
  <2> QED BY <1>3, <2>3, <2>4
<1>5. ASSUME NEW i \in 1..n, NEW j \in 1..n, shifted[i] = shifted[j]
      PROVE  i = j
  <2> DEFINE After(k) == IF k = n THEN 1 ELSE k + 1
  <2>1. After(i) \in 1..n /\ After(j) \in 1..n /\ pool[After(i)] = pool[After(j)]
    BY <1>3, <1>4, <1>5
  <2>2. After(i) = After(j)
    BY <1>2, <2>1
  <2> QED BY <1>3, <2>2
<1>6. shifted \in Injection(1..n, Gateways)
  BY <1>4, <1>5 DEF Injection, IsInjective
<1>7. Range(shifted) = Range(pool)
  <2>1. ASSUME NEW i \in 1..n PROVE shifted[i] \in Range(pool)
    BY <1>2, <1>3, <1>4 DEF Range
  <2>2. ASSUME NEW i \in 1..n PROVE pool[i] \in Range(shifted)
    <3>1. CASE i = 1
      BY <1>3, <1>4, <3>1 DEF Range
    <3>2. CASE i # 1
      <4>1. i - 1 \in 1..n /\ shifted[i - 1] = pool[i]
        BY <1>3, <1>4, <3>2
      <4> QED BY <1>4, <4>1 DEF Range
    <3> QED BY <3>1, <3>2
  <2>3. Range(shifted) = {shifted[i] : i \in 1..n} /\ Range(pool) = {pool[i] : i \in 1..n}
    BY <1>2, <1>4 DEF Range
  <2> QED BY <2>1, <2>2, <2>3
<1> QED BY <1>6, <1>7 DEF Pools

\* Its active gateway is one of the pool.
LEMMA HeadIsInPool == pool \in Pools => Head(pool) \in Range(pool)
<1> SUFFICES ASSUME pool \in Pools PROVE Head(pool) \in Range(pool)
  OBVIOUS
<1>1. PICK n \in 1..Cardinality(Gateways) : pool \in Injection(1..n, Gateways)
  BY DEF Pools
<1>2. pool \in [1..n -> Gateways] /\ n >= 1
  BY <1>1 DEF Injection
<1> QED BY <1>2 DEF Range

-----------------------------------------------------------------------------
LEMMA ReadsInit == Init => ReadsInv
<1> SUFFICES ASSUME Init PROVE ReadsInv
  OBVIOUS
<1>1. \A r \in Readers : read[r] = Idle
  BY DEF Init
<1>2. Idle \in Calls /\ Idle.at <= 2 + Idle.uri.https /\ ~Idle.listed
  BY IdleInv DEF CallInv, Idle
<1>3. TypeOK
  BY <1>2, ReadsAssumption DEF Init, TypeOK, ReadsAssumption
<1>4. IdsUniform
  <2>1. \A g \in Range(pool) : g \in Gateways
    BY DEF Init, Pools, Injection, Range
  <2> QED BY <2>1 DEF Init, IdsUniform
<1> QED BY <1>1, <1>2, <1>3, <1>4, IdleInv DEF ReadsInv, ListedInv

\* A call that goes on to a record for which the invariant holds.
LEMMA CallGoesOn ==
    ASSUME ReadsInv, NEW r \in Readers, NEW next,
           CallInv(next), next.listed => record,
           read' = [read EXCEPT ![r] = next],
           UNCHANGED <<world, pool>>,
           ids' \in [Gateways -> BOOLEAN], IdsUniform'
    PROVE  ReadsInv'
<1>1. read' \in [Readers -> Calls] /\ \A s \in Readers : CallInv(read'[s])
  BY DEF ReadsInv, TypeOK, CallInv
<1>2. TypeOK'
  BY <1>1 DEF ReadsInv, TypeOK, CallInv, world
<1>3. ListedInv'
  BY DEF ReadsInv, TypeOK, ListedInv, world
<1> QED BY <1>1, <1>2, <1>3 DEF ReadsInv

\* The same for the steps that leave the pool alone.
LEMMA CallBecomes ==
    ASSUME ReadsInv, NEW r \in Readers, NEW next,
           CallInv(next), next.listed => record, Becomes(r, next)
    PROVE  ReadsInv'
BY CallGoesOn DEF Becomes, ReadsInv, TypeOK, IdsUniform

LEMMA WorldStep ==
    ASSUME ReadsInv, Archive \/ SetRecord \/ Shift \/ Refresh
    PROVE  ReadsInv'
<1>1. CASE Archive
  BY <1>1 DEF Archive, ReadsInv, TypeOK, ListedInv, IdsUniform
<1>2. CASE SetRecord
  BY <1>2 DEF SetRecord, ReadsInv, TypeOK, ListedInv, IdsUniform
<1>3. CASE Shift
  <2>1. pool' \in Pools /\ Range(pool') = Range(pool)
    BY <1>3, ShiftKeepsPool DEF Shift, ReadsInv, TypeOK
  <2> QED BY <1>3, <2>1 DEF Shift, world, ReadsInv, TypeOK, ListedInv, IdsUniform
<1>4. CASE Refresh
  <2>1. \A g \in Range(pool') : g \in Gateways
    BY <1>4 DEF Refresh, Pools, Injection, Range
  <2>2. IdsUniform' /\ ids' \in [Gateways -> BOOLEAN]
    BY <1>4, <2>1 DEF Refresh, IdsUniform
  <2>3. refreshes' \in 0..MaxRefreshes
    BY <1>4, ReadsAssumption DEF Refresh, ReadsInv, TypeOK, ReadsAssumption
  <2> QED BY <1>4, <2>2, <2>3 DEF Refresh, ReadsInv, TypeOK, ListedInv
<1> QED BY <1>1, <1>2, <1>3, <1>4

LEMMA ReadsStep == ReadsInv /\ [Next]_vars => ReadsInv'
<1> SUFFICES ASSUME ReadsInv, [Next]_vars PROVE ReadsInv'
  OBVIOUS
<1>a. /\ \A r \in Readers : CallInv(read[r]) /\ read[r] \in Calls
      /\ \A r \in Readers : read[r].listed => record
      /\ metadata \in Files /\ metadata \in Uris
  BY UrisAreTyped DEF ReadsInv, TypeOK, ListedInv
<1>1. CASE Archive \/ SetRecord \/ Shift \/ Refresh
  BY <1>1, WorldStep
<1>2. ASSUME NEW r \in Readers, NEW getter \in Getters, NEW skip \in BOOLEAN,
             Call(r, getter, skip)
      PROVE  ReadsInv'
  <2> DEFINE c == [Idle EXCEPT !.getter = getter, !.skip = skip, !.listed = record]
             next == CASE getter.first = "archive" -> Archived(c)
                       [] getter.first = "circuit" -> Fetching(c, CircuitFile, TRUE)
                       [] OTHER -> [c EXCEPT !.step = getter.first]
  <2>1. CallInv(c) /\ c.listed = record /\ c \in Calls
    BY IdleInv DEF CallInv, Calls, Idle, ReadsInv, TypeOK
  <2>2. getter.first \in {"asking", "archive", "circuit", "text"}
    BY DEF Getters, GetProcessState, GetProcessSummary, GetResultsWeight,
           GetEnvelopeHeight, FetchRawResults, GetEnvelope, GetEnvelopeList,
           GetProcess, GetProcessMetadata, GetEntityMetadata, FetchCircuitFile,
           GetProcessList
  <2>3. CallInv(next) /\ next.listed = c.listed
    <3> HIDE DEF c
    <3>1. CASE getter.first = "archive"
      BY <2>1, <3>1, ArchivedInv
    <3>2. CASE getter.first = "circuit"
      BY <2>1, <3>2, FetchingInv, UrisAreTyped
    <3>3. CASE getter.first \in {"asking", "text"}
      BY <2>1, <3>3, StepInv
    <3> QED BY <2>2, <3>1, <3>2, <3>3
  <2>4. Becomes(r, next)
    BY <1>2 DEF Call
  <2> HIDE DEF next
  <2> QED BY <2>1, <2>3, <2>4, CallBecomes
<1>3. ASSUME NEW r \in Readers, Answer(r) PROVE ReadsInv'
  <2> DEFINE next == IF where = "archive" THEN NoData(read[r]) ELSE WithData(read[r])
  <2>1. CallInv(next) /\ (next.listed => read[r].listed)
    BY <1>a, NoDataInv, WithDataInv
  <2>2. Becomes(r, next)
    BY <1>3 DEF Answer
  <2> HIDE DEF next
  <2> QED BY <1>a, <2>1, <2>2, CallBecomes
<1>4. ASSUME NEW r \in Readers, Network(r) PROVE ReadsInv'
  BY <1>a, <1>4, StepInv, CallBecomes DEF Network
<1>5. ASSUME NEW r \in Readers, TextRecord(r) PROVE ReadsInv'
  <2> DEFINE next == IF record THEN Fetching(read[r], ArchiveFile, ~read[r].getter.file)
                                ELSE Rejected(read[r])
  <2>1. CallInv(next) /\ next.listed = read[r].listed
    <3>1. CASE record
      BY <1>a, <3>1, FetchingInv, UrisAreTyped
    <3>2. CASE ~record
      <4>1. CallInv(read[r]) /\ ~read[r].listed
        BY <1>a, <3>2
      <4>2. CallInv(Rejected(read[r])) /\ Rejected(read[r]).listed = read[r].listed
        BY <4>1 DEF CallInv, Calls, Rejected, HasReason
      <4> QED BY <3>2, <4>2
    <3> QED BY <3>1, <3>2
  <2>2. ids' \in [Gateways -> BOOLEAN] /\ IdsUniform'
    <3>1. CASE record
      <4>1. ids' = WithId /\ pool' = pool
        BY <1>5, <3>1 DEF TextRecord
      <4>2. WithId \in [Gateways -> BOOLEAN]
        BY DEF WithId, ReadsInv, TypeOK
      <4>3. \A g \in Range(pool) : g \in Gateways
        BY DEF ReadsInv, TypeOK, Pools, Injection, Range
      <4> QED BY <4>1, <4>2, <4>3 DEF WithId, IdsUniform
    <3>2. CASE ~record
      BY <1>5, <3>2 DEF TextRecord, IdsUniform, ReadsInv, TypeOK
    <3> QED BY <3>1, <3>2
  <2>3. read' = [read EXCEPT ![r] = next] /\ UNCHANGED <<world, pool>>
    BY <1>5 DEF TextRecord, ReadsInv, TypeOK
  <2> HIDE DEF next
  <2> QED BY <1>a, <2>1, <2>2, <2>3, CallGoesOn
<1>6. ASSUME NEW r \in Readers, OwnUri(r) PROVE ReadsInv'
  BY <1>a, <1>6, FetchingInv, CallBecomes DEF OwnUri
<1>7. ASSUME NEW r \in Readers, Fails(r) PROVE ReadsInv'
  BY <1>a, <1>7, EndedInv, CallBecomes DEF Fails
<1>8. ASSUME NEW r \in Readers, FromGateway(r) PROVE ReadsInv'
  <2>1. read[r].step = "fetching" /\ read[r].at <= 1 + read[r].uri.https
    BY <1>8, <1>a DEF FromGateway, Calls, Uris
  <2>2. CASE Becomes(r, NextSource(read[r]))
    BY <1>a, <2>1, <2>2, NextSourceInv, CallBecomes
  <2>3. CASE Becomes(r, Failed(read[r]))
    BY <1>a, <2>3, EndedInv, CallBecomes
  <2>4. ASSUME NEW content \in {"good", "forged"}, Accepted(read[r], content),
               Becomes(r, WithFile(read[r], content))
        PROVE  ReadsInv'
    BY <1>a, <2>4, WithFileInv, CallBecomes
  <2> QED BY <1>8, <2>2, <2>3, <2>4 DEF FromGateway
<1>9. ASSUME NEW r \in Readers,
             \/ FromIpfs(r) \/ FromHttps(r)
             \/ TimesOut(r)
      PROVE  ReadsInv'
  <2>1. read[r].step = "fetching" /\ read[r].at <= 1 + read[r].uri.https
    BY <1>9, <1>a DEF FromIpfs, FromHttps, TimesOut, AtIpfs, AtHttps, Calls, Uris
  <2>2. CASE Becomes(r, NextSource(read[r]))
    BY <1>a, <2>1, <2>2, NextSourceInv, CallBecomes
  <2>3. ASSUME NEW content \in {"good", "forged"}, Accepted(read[r], content),
               Becomes(r, WithFile(read[r], content))
        PROVE  ReadsInv'
    BY <1>a, <2>3, WithFileInv, CallBecomes
  <2> QED BY <1>9, <2>2, <2>3 DEF FromIpfs, FromHttps, FromPublic, TimesOut
<1>10. ASSUME NEW r \in Readers, SkipsIpfs(r) PROVE ReadsInv'
  <2> DEFINE next == [read[r] EXCEPT !.at = 2]
  <2>1. /\ read[r].step = "fetching" /\ read[r].at = 1 /\ ~read[r].uri.ipfs
        /\ Becomes(r, next)
    BY <1>10 DEF SkipsIpfs
  <2>2. /\ next \in Calls /\ next.uri = read[r].uri /\ next.step = "fetching"
        /\ next.at = 2 /\ next.gone = read[r].gone
        /\ next.getter = read[r].getter /\ next.listed = read[r].listed
        /\ next.uri.https \in Nat
    BY <1>a, <2>1 DEF Calls, Uris
  <2>3. GoneBefore(read[r])
    BY <1>a, <2>1 DEF CallInv
  <2>4. GoneBefore(next)
    BY <2>1, <2>2, <2>3 DEF GoneBefore, Sources
  <2>5. CallInv(next)
    BY <2>2, <2>4 DEF CallInv
  <2> HIDE DEF next
  <2> QED BY <1>a, <2>1, <2>2, <2>5, CallBecomes
<1>11. ASSUME NEW r \in Readers, GiveUp(r) PROVE ReadsInv'
  BY <1>a, <1>11, GiveUpInv, CallBecomes DEF GiveUp
<1>12. CASE UNCHANGED vars
  BY <1>12 DEF vars, ReadsInv, TypeOK, ListedInv, IdsUniform
<1> QED
  BY <1>1, <1>2, <1>3, <1>4, <1>5, <1>6, <1>7, <1>8, <1>9, <1>10, <1>11, <1>12
     DEF Next, Reply, Done

\* A call goes to ENS only for want of the id on the active gateway, and then
\* no gateway of the pool has it.
LEMMA AsksWithoutId ==
    ASSUME ReadsInv, [Next]_vars, NEW r \in Readers,
           read[r].step # "network", read'[r].step = "network"
    PROVE  \A g \in Range(pool) : ~ids[g]
<1>1. SUFFICES ~ids[Head(pool)]
  BY <1>1, HeadIsInPool DEF ReadsInv, TypeOK, IdsUniform
<1>2. \A s \in Readers : CallInv(read[s]) /\ read[s] \in Calls
  BY DEF ReadsInv, TypeOK
<1>3. \A c \in Calls :
        /\ Archived(c).step = "network" => ~ids[Head(pool)]
        /\ WithData(c).step # "network"
        /\ NoData(c).step = "network" => ~ids[Head(pool)]
        /\ Failed(c).step # "network" /\ Returned(c).step # "network"
        /\ Rejected(c).step # "network"
        /\ c.step = "fetching" => NextSource(c).step # "network"
        /\ \A uri, last : Fetching(c, uri, last).step # "network"
        /\ \A content : WithFile(c, content).step # "network"
  BY DEF Calls, Archived, Fetching, WithData, NoData, Failed, Returned, Rejected,
         NextSource, WithFile, Idle
<1>4. ASSUME NEW s \in Readers, NEW next, Becomes(s, next) PROVE s = r /\ next.step = "network"
  BY <1>4 DEF Becomes, ReadsInv, TypeOK
<1>5. ASSUME NEW s \in Readers, NEW getter \in Getters, NEW skip \in BOOLEAN,
             Call(s, getter, skip)
      PROVE  ~ids[Head(pool)]
  <2> DEFINE c == [Idle EXCEPT !.getter = getter, !.skip = skip, !.listed = record]
  <2>1. c \in Calls
    BY IdleInv DEF CallInv, Calls, Idle, ReadsInv, TypeOK
  <2>2. getter.first # "network"
    BY DEF Getters, GetProcessState, GetProcessSummary, GetResultsWeight,
           GetEnvelopeHeight, FetchRawResults, GetEnvelope, GetEnvelopeList,
           GetProcess, GetProcessMetadata, GetEntityMetadata, FetchCircuitFile,
           GetProcessList
  <2> DEFINE next == CASE getter.first = "archive" -> Archived(c)
                       [] getter.first = "circuit" -> Fetching(c, CircuitFile, TRUE)
                       [] OTHER -> [c EXCEPT !.step = getter.first]
  <2>3. [c EXCEPT !.step = getter.first].step = getter.first
    BY <2>1 DEF Calls
  <2>4. Becomes(s, next)
    BY <1>5 DEF Call
  <2>5. next.step = "network" => ~ids[Head(pool)]
    <3> HIDE DEF c
    <3> QED BY <1>3, <2>1, <2>2, <2>3
  <2> HIDE DEF next
  <2> QED BY <1>4, <2>4, <2>5
<1>6. ASSUME NEW s \in Readers, Answer(s) PROVE ~ids[Head(pool)]
  BY <1>2, <1>3, <1>4, <1>6 DEF Answer
<1>7. ASSUME NEW s \in Readers, Network(s) PROVE FALSE
  <2>1. [read[s] EXCEPT !.step = "record"].step = "record"
    BY <1>2 DEF Calls
  <2> QED BY <1>4, <1>7, <2>1 DEF Network
<1>8. ASSUME NEW s \in Readers, TextRecord(s) PROVE FALSE
  BY <1>2, <1>3, <1>8 DEF TextRecord, ReadsInv, TypeOK
<1>9. ASSUME NEW s \in Readers, OwnUri(s) \/ Fails(s) PROVE FALSE
  BY <1>2, <1>3, <1>4, <1>9 DEF OwnUri, Fails
<1>10. ASSUME NEW s \in Readers, FromGateway(s) PROVE FALSE
  BY <1>2, <1>3, <1>4, <1>10 DEF FromGateway
<1>11. ASSUME NEW s \in Readers, FromIpfs(s) \/ FromHttps(s) \/ TimesOut(s)
       PROVE  FALSE
  BY <1>2, <1>3, <1>4, <1>11
     DEF FromIpfs, FromHttps, FromPublic, TimesOut, AtIpfs, AtHttps
<1>12. ASSUME NEW s \in Readers, SkipsIpfs(s) \/ GiveUp(s) PROVE FALSE
  <2>1. CASE SkipsIpfs(s)
    <3>1. [read[s] EXCEPT !.at = 2].step = read[s].step
      BY <1>2 DEF Calls
    <3> QED BY <1>4, <2>1, <3>1 DEF SkipsIpfs
  <2> QED BY <1>2, <1>3, <1>4, <1>12, <2>1 DEF GiveUp
<1>13. CASE \/ Archive \/ SetRecord \/ Shift \/ Refresh \/ Done
            \/ UNCHANGED vars
  BY <1>13 DEF Archive, SetRecord, Shift, Refresh, Done, vars
<1> QED
  BY <1>5, <1>6, <1>7, <1>8, <1>9, <1>10, <1>11, <1>12, <1>13 DEF Next, Reply

-----------------------------------------------------------------------------
(***************************************************************************)
(* How far a call has to go.                                               *)
(***************************************************************************)

LEMMA OfFileType ==
    ASSUME metadata \in Uris, NEW c
    PROVE  /\ OfFile(c) \in Nat /\ metadata.https \in Nat
           /\ c.getter.file => OfFile(c) = 4 + metadata.https
BY DEF OfFile, Uris

LEMMA EndedToGo ==
    ASSUME NEW c \in Calls
    PROVE  /\ ToGo(Failed(c)) = 0 /\ ToGo(Returned(c)) = 0 /\ ToGo(Rejected(c)) = 0
           /\ \A content : ToGo([Returned(c) EXCEPT !.content = content]) = 0
<1>1. ASSUME NEW d, d.step \in {"rejected", "returned"} PROVE ToGo(d) = 0
  BY <1>1 DEF ToGo
<1>2. Failed(c).step = "rejected" /\ Returned(c).step = "returned" /\ Rejected(c).step = "rejected"
  BY DEF Failed, Returned, Rejected, Idle, Calls
<1>3. ASSUME NEW content PROVE ToGo([Returned(c) EXCEPT !.content = content]) = 0
  <2> DEFINE d == [Returned(c) EXCEPT !.content = content]
  <2>1. d.step = "returned"
    BY DEF Returned, Idle
  <2>2. ToGo(d) = 0
    <3> HIDE DEF d
    <3> QED BY <2>1 DEF ToGo
  <2> QED BY <2>2
<1>4. ToGo(Failed(c)) = 0 /\ ToGo(Returned(c)) = 0 /\ ToGo(Rejected(c)) = 0
  BY <1>1, <1>2
<1> QED BY <1>3, <1>4

LEMMA FetchingToGo ==
    ASSUME NEW c \in Calls, NEW uri \in Uris, NEW last \in BOOLEAN, metadata \in Uris
    PROVE  /\ ToGo(Fetching(c, uri, last)) \in Nat
           /\ ToGo(Fetching(c, uri, last)) <= (3 + uri.https) + (IF last THEN 0 ELSE OfFile(c))
<1> DEFINE d == Fetching(c, uri, last)
<1>1. d.uri = uri /\ d.step = "fetching" /\ d.getter = c.getter /\ d.last = last
      /\ d.at \in {0, 1}
  BY DEF Fetching, Calls
<1>2. ToGo(d) = (3 + uri.https - d.at) + (IF last THEN 0 ELSE OfFile(c))
  BY <1>1 DEF ToGo, OfFile
<1>3. uri.https \in Nat /\ OfFile(c) \in Nat
  BY OfFileType DEF Uris
<1> QED BY <1>1, <1>2, <1>3

LEMMA ArchivedToGo ==
    ASSUME NEW c \in Calls, metadata \in Uris
    PROVE  ToGo(Archived(c)) \in Nat /\ ToGo(Archived(c)) < 6 + OfFile(c)
<1>1. OfFile(c) \in Nat
  BY OfFileType
<1>2. CASE ids[Head(pool)]
  <2>1. ArchiveFile \in Uris /\ ArchiveFile.https = 0 /\ (~c.getter.file) \in BOOLEAN
    BY UrisAreTyped DEF ArchiveFile
  <2>2. ToGo(Fetching(c, ArchiveFile, ~c.getter.file)) <= 3 + OfFile(c)
    <3>1. ToGo(Fetching(c, ArchiveFile, ~c.getter.file))
            <= (3 + 0) + (IF ~c.getter.file THEN 0 ELSE OfFile(c))
      BY <2>1, FetchingToGo
    <3>2. CASE c.getter.file
      BY <1>1, <3>1, <3>2
    <3>3. CASE ~c.getter.file
      <4>1. OfFile(c) = 0
        BY <3>3 DEF OfFile
      <4> QED BY <3>1, <3>3, <4>1
    <3> QED BY <3>2, <3>3
  <2>3. ToGo(Archived(c)) <= 3 + OfFile(c)
    BY <1>2, <2>2 DEF Archived
  <2>4. ToGo(Archived(c)) \in Nat
    BY <1>2, <2>1, FetchingToGo DEF Archived
  <2> QED BY <1>1, <2>3, <2>4
<1>3. CASE ~ids[Head(pool)]
  <2>1. Archived(c).step = "network" /\ Archived(c).getter = c.getter
    BY <1>3 DEF Archived, Calls
  <2>2. ToGo(Archived(c)) = 5 + OfFile(c)
    BY <2>1 DEF ToGo, OfFile
  <2> QED BY <1>1, <2>2
<1> QED BY <1>2, <1>3

\* With the data there is at most the file to fetch.
LEMMA WithDataToGo ==
    ASSUME NEW c \in Calls, metadata \in Uris
    PROVE  ToGo(WithData(c)) \in Nat /\ ToGo(WithData(c)) <= OfFile(c)
<1>1. OfFile(c) \in Nat /\ metadata.https \in Nat
  BY OfFileType
<1>2. CASE ~c.getter.file
  BY <1>1, <1>2, EndedToGo DEF WithData
<1>3. CASE c.getter.file /\ inState
  <2> DEFINE d == Fetching(c, metadata, TRUE)
  <2>1. ToGo(d) \in Nat /\ ToGo(d) <= (3 + metadata.https) + 0
    BY FetchingToGo
  <2>2. WithData(c) = d
    BY <1>3 DEF WithData
  <2>3. OfFile(c) = 4 + metadata.https
    BY <1>3, OfFileType
  <2>4. ToGo(d) <= OfFile(c)
    <3> HIDE DEF d
    <3> QED BY <1>1, <2>1, <2>3
  <2> HIDE DEF d
  <2> QED BY <2>1, <2>2, <2>4
<1>4. CASE c.getter.file /\ ~inState
  <2>1. WithData(c).step = "contract"
    BY <1>4 DEF WithData, Calls
  <2>2. ToGo(WithData(c)) = 4 + metadata.https
    BY <2>1 DEF ToGo
  <2> QED BY <1>1, <1>4, <2>2, OfFileType
<1> QED BY <1>2, <1>3, <1>4

LEMMA NoDataToGo ==
    ASSUME NEW c \in Calls, metadata \in Uris
    PROVE  ToGo(NoData(c)) \in Nat /\ ToGo(NoData(c)) < 6 + OfFile(c)
BY EndedToGo, ArchivedToGo, OfFileType DEF NoData

\* What a source that is asked still has before it, with the others.
LEMMA SourceToGo ==
    ASSUME NEW c, CallInv(c), c.step = "fetching", metadata \in Uris
    PROVE  /\ ToGo(c) = (3 + c.uri.https - c.at) + (IF c.last THEN 0 ELSE OfFile(c))
           /\ ToGo(c) \in Nat /\ ToGo(c) > (IF c.last THEN 0 ELSE OfFile(c))
           /\ c.at \in Nat /\ c.uri.https \in Nat
<1>1. c.at \in Nat /\ c.uri.https \in Nat /\ c.at <= 2 + c.uri.https /\ c.last \in BOOLEAN
  BY DEF CallInv, Calls, Uris
<1>2. ToGo(c) = (3 + c.uri.https - c.at) + (IF c.last THEN 0 ELSE OfFile(c))
  BY DEF ToGo
<1>3. OfFile(c) \in Nat
  BY OfFileType
<1> QED BY <1>1, <1>2, <1>3

LEMMA WithFileToGo ==
    ASSUME NEW c, CallInv(c), c.step = "fetching", metadata \in Uris, NEW content
    PROVE  ToGo(WithFile(c, content)) < ToGo(c)
<1>1. c \in Calls /\ c.last \in BOOLEAN /\ OfFile(c) \in Nat
  BY OfFileType DEF CallInv, Calls
<1>2. CASE c.last
  BY <1>1, <1>2, EndedToGo, SourceToGo DEF WithFile
<1>3. CASE ~c.last
  <2>1. ToGo(WithData(c)) <= OfFile(c) /\ ToGo(c) > OfFile(c) /\ ToGo(c) \in Nat
    BY <1>1, <1>3, WithDataToGo, SourceToGo
  <2>2. ToGo(WithData(c)) \in Nat
    BY <1>1, WithDataToGo
  <2>3. WithFile(c, content) = WithData(c)
    BY <1>3 DEF WithFile
  <2> QED BY <1>1, <2>1, <2>2, <2>3
<1> QED BY <1>1, <1>2, <1>3

LEMMA NextSourceToGo ==
    ASSUME NEW c, CallInv(c), c.step = "fetching", metadata \in Uris
    PROVE  ToGo(NextSource(c)) < ToGo(c)
<1> DEFINE d == NextSource(c)
<1>1. c \in Calls
  BY DEF CallInv
<1>2. d.step = "fetching" /\ d.at = c.at + 1 /\ d.uri = c.uri /\ d.last = c.last /\ d.getter = c.getter
  BY <1>1 DEF NextSource, Calls
<1>3. ToGo(d) = (3 + c.uri.https - (c.at + 1)) + (IF c.last THEN 0 ELSE OfFile(c))
  BY <1>2 DEF ToGo, OfFile
<1>4. OfFile(c) \in Nat
  BY OfFileType
<1> QED BY <1>3, <1>4, SourceToGo

LEMMA CallAdvances ==
    ASSUME ReadsInv, [Next]_vars, NEW r \in Readers,
           read[r].step \in Busy, read'[r] # read[r]
    PROVE  ToGo(read'[r]) < ToGo(read[r])
<1> DEFINE c == read[r]
<1>1. CallInv(c) /\ c \in Calls /\ metadata \in Uris
  BY UrisAreTyped DEF ReadsInv, TypeOK
<1>2. OfFile(c) \in Nat /\ metadata.https \in Nat
  BY <1>1, OfFileType
<1>3. ASSUME NEW s \in Readers, NEW next, Becomes(s, next) PROVE s = r /\ next = read'[r]
  BY <1>3 DEF Becomes, ReadsInv, TypeOK
<1>4. ASSUME NEW s \in Readers, NEW getter \in Getters, NEW skip \in BOOLEAN,
             Call(s, getter, skip)
      PROVE  FALSE
  BY <1>3, <1>4 DEF Call, Busy
<1>5. ASSUME NEW s \in Readers, Answer(s) PROVE ToGo(read'[r]) < ToGo(c)
  <2>1. s = r /\ c.step = "asking"
        /\ read'[r] = (IF where = "archive" THEN NoData(c) ELSE WithData(c))
    BY <1>3, <1>5 DEF Answer
  <2>2. ToGo(c) = 6 + OfFile(c)
    BY <2>1 DEF ToGo
  <2> QED BY <1>1, <1>2, <2>1, <2>2, NoDataToGo, WithDataToGo
<1>6. ASSUME NEW s \in Readers, Network(s) PROVE ToGo(read'[r]) < ToGo(c)
  <2>1. s = r /\ c.step = "network" /\ read'[r] = [c EXCEPT !.step = "record"]
    BY <1>3, <1>6 DEF Network
  <2>2. read'[r].step = "record" /\ read'[r].getter = c.getter
    BY <1>1, <2>1 DEF Calls
  <2>3. ToGo(c) = 5 + OfFile(c) /\ ToGo(read'[r]) = 4 + OfFile(c)
    BY <2>1, <2>2 DEF ToGo, OfFile
  <2> QED BY <1>2, <2>3
<1>7. ASSUME NEW s \in Readers, TextRecord(s) PROVE ToGo(read'[r]) < ToGo(c)
  <2>1. s = r
    BY <1>7 DEF TextRecord, ReadsInv, TypeOK
  <2>2. c.step = "record"
        /\ read'[r] = (IF record THEN Fetching(c, ArchiveFile, ~c.getter.file) ELSE Rejected(c))
    BY <1>7, <2>1 DEF TextRecord, ReadsInv, TypeOK
  <2>3. ToGo(c) = 4 + OfFile(c)
    BY <2>2 DEF ToGo
  <2>4. CASE record
    <3>1. ArchiveFile \in Uris /\ ArchiveFile.https = 0 /\ (~c.getter.file) \in BOOLEAN
      BY UrisAreTyped DEF ArchiveFile
    <3>2. /\ ToGo(Fetching(c, ArchiveFile, ~c.getter.file)) \in Nat
          /\ ToGo(Fetching(c, ArchiveFile, ~c.getter.file))
               <= (3 + 0) + (IF ~c.getter.file THEN 0 ELSE OfFile(c))
      BY <1>1, <3>1, FetchingToGo
    <3> QED BY <1>2, <2>2, <2>3, <2>4, <3>2
  <2>5. CASE ~record
    BY <1>1, <1>2, <2>2, <2>3, <2>5, EndedToGo
  <2> QED BY <2>4, <2>5
<1>8. ASSUME NEW s \in Readers, OwnUri(s) PROVE ToGo(read'[r]) < ToGo(c)
  <2>1. s = r /\ c.step \in {"contract", "text"} /\ read'[r] = Fetching(c, metadata, TRUE)
    BY <1>3, <1>8 DEF OwnUri
  <2>2. ToGo(c) = 4 + metadata.https
    BY <2>1 DEF ToGo
  <2>3. ToGo(read'[r]) \in Nat /\ ToGo(read'[r]) <= (3 + metadata.https) + 0
    BY <1>1, <2>1, FetchingToGo
  <2> QED BY <1>2, <2>2, <2>3
<1>9. ASSUME NEW s \in Readers, Fails(s) PROVE ToGo(read'[r]) < ToGo(c)
  <2>1. s = r /\ c.step \in Busy \ {"fetching"} /\ read'[r] = Failed(c)
    BY <1>3, <1>9 DEF Fails
  <2>2. ToGo(c) \in Nat /\ ToGo(c) > 0
    BY <1>2, <2>1 DEF ToGo, Busy
  <2> QED BY <1>1, <2>1, <2>2, EndedToGo
<1>10. ASSUME NEW s \in Readers,
              FromGateway(s) \/ FromIpfs(s) \/ FromHttps(s) \/ TimesOut(s)
       PROVE  ToGo(read'[r]) < ToGo(c)
  <2>1. s = r /\ c.step = "fetching"
        /\ \/ read'[r] = NextSource(c)
           \/ read'[r] = Failed(c)
           \/ \E content \in {"good", "forged"} : read'[r] = WithFile(c, content)
    BY <1>3, <1>10
       DEF FromGateway, FromIpfs, FromHttps, FromPublic, TimesOut, AtIpfs, AtHttps
  <2>2. ToGo(c) \in Nat /\ ToGo(c) > 0
    BY <1>1, <1>2, <2>1, SourceToGo
  <2> QED BY <1>1, <2>1, <2>2, NextSourceToGo, EndedToGo, WithFileToGo
<1>11. ASSUME NEW s \in Readers, SkipsIpfs(s) PROVE ToGo(read'[r]) < ToGo(c)
  <2>1. s = r /\ c.step = "fetching" /\ c.at = 1 /\ read'[r] = [c EXCEPT !.at = 2]
    BY <1>3, <1>11 DEF SkipsIpfs
  <2>2. /\ read'[r].step = "fetching" /\ read'[r].at = 2 /\ read'[r].uri = c.uri
        /\ read'[r].last = c.last /\ read'[r].getter = c.getter
    BY <1>1, <2>1 DEF Calls
  <2>3. ToGo(read'[r]) = (3 + c.uri.https - 2) + (IF c.last THEN 0 ELSE OfFile(c))
    BY <2>2 DEF ToGo, OfFile
  <2>4. ToGo(c) = (3 + c.uri.https - 1) + (IF c.last THEN 0 ELSE OfFile(c)) /\ c.uri.https \in Nat
    BY <1>1, <2>1, SourceToGo
  <2> QED BY <1>2, <2>3, <2>4
<1>12. ASSUME NEW s \in Readers, GiveUp(s) PROVE ToGo(read'[r]) < ToGo(c)
  <2>1. s = r /\ c.step = "fetching" /\ read'[r] = Rejected(c)
    BY <1>3, <1>12 DEF GiveUp
  <2>2. ToGo(c) \in Nat /\ ToGo(c) > 0
    BY <1>1, <1>2, <2>1, SourceToGo
  <2> QED BY <1>1, <2>1, <2>2, EndedToGo
<1>13. CASE \/ Archive \/ SetRecord \/ Shift \/ Refresh \/ Done
            \/ UNCHANGED vars
  BY <1>13 DEF Archive, SetRecord, Shift, Refresh, Done, vars
<1> QED
  BY <1>4, <1>5, <1>6, <1>7, <1>8, <1>9, <1>10, <1>11, <1>12, <1>13 DEF Next, Reply

-----------------------------------------------------------------------------
\* The calls, the pool and the ids keep their types, whatever is read.
THEOREM ReadsTypeCorrect == Spec => []TypeOK
<1>1. ReadsInv => TypeOK
  BY DEF ReadsInv
<1> QED BY <1>1, ReadsInit, ReadsStep, PTL DEF Spec

\* A process that moves to the archive stays readable: no call is rejected but
\* for a reason that RejectedWithReason names.
THEOREM ReadsRejectedWithReason == Spec => []RejectedWithReason
<1>1. ReadsInv => RejectedWithReason
  BY DEF ReadsInv, CallInv, HasReason, RejectedWithReason
<1> QED BY <1>1, ReadsInit, ReadsStep, PTL DEF Spec

\* What was fetched under a hash fits it, from whatever source it came.
THEOREM ReadsHashedIsVerified == Spec => []HashedIsVerified
<1>1. ReadsInv => HashedIsVerified
  BY DEF ReadsInv, CallInv, HashedIsVerified
<1> QED BY <1>1, ReadsInit, ReadsStep, PTL DEF Spec

\* ENS is asked for the id of the archive only while no gateway of the pool
\* knows it.
THEOREM ReadsAsksEnsOnce == Spec => AsksEnsOnce
<1>1. ReadsInv /\ [Next]_vars =>
        [\A r \in Readers :
            /\ read[r].step # "network"
            /\ read'[r].step = "network"
            => \A g \in Range(pool) : ~ids[g]]_vars
  BY AsksWithoutId
<1> QED BY <1>1, ReadsInit, ReadsStep, PTL DEF Spec, AsksEnsOnce

\* No call goes round in circles: each step of it, whatever the answer, brings it
\* closer to its end, for files with any number of public servers.
THEOREM ReadsAlwaysAdvance == Spec => ReadsAdvance
<1>1. ReadsInv /\ [Next]_vars =>
        [\A r \in Readers :
            read[r].step \in Busy /\ read'[r] # read[r] => ToGo(read'[r]) < ToGo(read[r])]_vars
  BY CallAdvances
<1> QED BY <1>1, ReadsInit, ReadsStep, PTL DEF Spec, ReadsAdvance
=============================================================================
