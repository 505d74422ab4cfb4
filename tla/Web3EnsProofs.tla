---------------------------- MODULE Web3EnsProofs ----------------------------
(***************************************************************************)
(* Proofs about Web3Ens, for any set of contracts, getters and checks.     *)
(***************************************************************************)
EXTENDS Web3Ens, TLAPS

\* Who waits does so for the shared resolution, and that has a lookup left.
SharedResolution ==
    /\ \A g \in Getters : getter[g] = "waiting" => initializing
    /\ initializing => \E k \in Contracts : lookup[k] = "pending"

EnsInv ==
    /\ TypeOK
    /\ NeverAttachesToNull
    /\ AllOrNothing
    /\ SharedResolution

\* A gateway client begins with no address and no getter.
LEMMA EnsInvInit == Init => EnsInv
BY EnsAssumption DEF Init, EnsInv, TypeOK, NeverAttachesToNull, AllOrNothing,
                     SharedResolution

\* A getter call: it attaches to an address that is set, or waits for a
\* resolution that it starts or joins.
LEMMA GetStep ==
    ASSUME EnsInv, NEW g \in Getters, Get(g)
    PROVE  EnsInv'
<1> USE EnsAssumption DEF EnsInv
<1>1. TypeOK'
  BY DEF TypeOK, Get, Attached
<1>2. NeverAttachesToNull'
  BY DEF TypeOK, NeverAttachesToNull, Get, Attached
<1>3. AllOrNothing'
  BY DEF AllOrNothing, Get
<1>4. SharedResolution'
  BY DEF TypeOK, SharedResolution, Get, Attached
<1>. QED BY <1>1, <1>2, <1>3, <1>4

\* A reply to a lookup of initEns: the waiting getters stay, or all wake up.
LEMMA LookupStep ==
    ASSUME EnsInv, NEW k \in Contracts, LookupSettles(k)
    PROVE  EnsInv'
<1> USE EnsAssumption DEF EnsInv
<1>1. CASE \E reply \in {"address", "null"} : LookupReply(k, reply)
  <2>1. PICK reply \in {"address", "null"} : LookupReply(k, reply)
    BY <1>1
  <2>2. TypeOK' /\ NeverAttachesToNull' /\ AllOrNothing'
    BY <2>1 DEF TypeOK, NeverAttachesToNull, AllOrNothing, LookupReply
  <2>3. SharedResolution'
    BY <2>1 DEF TypeOK, SharedResolution, LookupReply
  <2>. QED BY <2>2, <2>3
<1>2. CASE InitSucceeds(k)
  <2>1. \A g \in Getters : getter'[g] = IF getter[g] = "waiting"
                                          THEN "attached" ELSE getter[g]
    BY <1>2 DEF InitSucceeds, Wake, Attached
  <2>2. TypeOK'
    BY <1>2 DEF TypeOK, InitSucceeds, Wake, Attached
  <2>3. NeverAttachesToNull' /\ SharedResolution'
    BY <1>2, <2>1 DEF NeverAttachesToNull, SharedResolution, InitSucceeds
  <2>4. AllOrNothing'
    BY <1>2 DEF AllOrNothing, InitSucceeds
  <2>. QED BY <2>2, <2>3, <2>4
<1>3. CASE InitLacksAddress(k) \/ InitFails(k)
  <2>1. \A g \in Getters : getter'[g] = IF getter[g] = "waiting"
                                          THEN "failed" ELSE getter[g]
    BY <1>3 DEF InitLacksAddress, InitFails, WakeFailed
  <2>2. TypeOK'
    BY <1>3 DEF TypeOK, InitLacksAddress, InitFails, WakeFailed
  <2>3. NeverAttachesToNull' /\ SharedResolution'
    BY <1>3, <2>1 DEF NeverAttachesToNull, SharedResolution, InitLacksAddress,
                      InitFails
  <2>4. AllOrNothing'
    BY <1>3 DEF AllOrNothing, InitLacksAddress, InitFails
  <2>. QED BY <2>2, <2>3, <2>4
<1>. QED BY <1>1, <1>2, <1>3 DEF LookupSettles

\* A step of a status check: it touches the resolver's address only.
LEMMA CheckStep ==
    ASSUME EnsInv, NEW c \in Checks,
           CheckEns(c) \/ CheckEnsReply(c) \/ CheckEnsFails(c)
    PROVE  EnsInv'
<1> USE EnsAssumption DEF EnsInv
<1>1. TypeOK'
  BY DEF TypeOK, CheckEns, CheckEnsReply, CheckEnsFails
<1>2. AllOrNothing'
  BY DEF TypeOK, AllOrNothing, CheckEns, CheckEnsReply, CheckEnsFails
<1>3. NeverAttachesToNull' /\ SharedResolution'
  BY DEF NeverAttachesToNull, SharedResolution, CheckEns, CheckEnsReply,
         CheckEnsFails
<1>. QED BY <1>1, <1>2, <1>3

\* EnsInv is inductive.
LEMMA EnsInvariant == Spec => []EnsInv
<1>1. EnsInv /\ [Next]_vars => EnsInv'
  <2> SUFFICES ASSUME EnsInv, [Next]_vars PROVE EnsInv'
    OBVIOUS
  <2>1. CASE UNCHANGED vars \/ Finished
    BY <2>1 DEF vars, Finished, EnsInv, TypeOK, NeverAttachesToNull,
                AllOrNothing, SharedResolution
  <2>2. CASE \E g \in Getters : Get(g)
    BY <2>2, GetStep
  <2>3. CASE \E k \in Contracts : LookupSettles(k)
    BY <2>3, LookupStep
  <2>4. CASE \E c \in Checks :
                CheckEns(c) \/ CheckEnsReply(c) \/ CheckEnsFails(c)
    BY <2>4, CheckStep
  <2>. QED BY <2>1, <2>2, <2>3, <2>4 DEF Next
<1>. QED BY <1>1, EnsInvInit, PTL DEF Spec

\* Type correctness of the addresses and of the promises that wait for them.
THEOREM EnsTypeCorrect == Spec => []TypeOK
<1>1. EnsInv => TypeOK
  BY DEF EnsInv
<1>. QED BY <1>1, EnsInvariant, PTL

\* No getter of a contract instance attaches to a missing address, whatever
\* the order in which replies, failures and status checks come.
THEOREM EnsNeverAttachesToNull == Spec => []NeverAttachesToNull
<1>1. EnsInv => NeverAttachesToNull
  BY DEF EnsInv
<1>. QED BY <1>1, EnsInvariant, PTL

\* The addresses that only initEns writes are set all at once and for good.
THEOREM EnsAllOrNothing == Spec => []AllOrNothing
<1>1. EnsInv => AllOrNothing
  BY DEF EnsInv
<1>. QED BY <1>1, EnsInvariant, PTL

\* A getter never waits for a resolution that has ended, so that a failed
\* initEns is tried again by the next getter.
THEOREM EnsNoneJoinsEnded == Spec => []NoneJoinsEndedResolution
<1>1. EnsInv => NoneJoinsEndedResolution
  BY DEF EnsInv, SharedResolution, NoneJoinsEndedResolution
<1>. QED BY <1>1, EnsInvariant, PTL
=============================================================================
