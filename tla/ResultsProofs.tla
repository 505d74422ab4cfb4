---------------------------- MODULE ResultsProofs ----------------------------
(***************************************************************************)
(* Theorems about Results, for any voting period, any number of retries    *)
(* and any number of blocks between them; and about Ballots, for any       *)
(* voters, questions, values, keys and weights.                            *)
(*                                                                         *)
(* In Results, the keys are asked for after the state and the height were  *)
(* read, and each answer may be older than the next one.  What ties them   *)
(* together is that the keys, once revealed, stay, and that they are only  *)
(* revealed when the process has ended: this the call has to find out,     *)
(* from the status that it read or else from the height.                   *)
(*                                                                         *)
(* Ballots computes with folds: sums over voters, and layers around a      *)
(* package.  What is said of them here is said of all subsets of a set, of *)
(* which there would be a smallest one that it does not hold for.          *)
(***************************************************************************)
EXTENDS Results, Ballots, FiniteSetTheorems, WellFoundedInduction, TLAPS

\* The process: only an interruptible one is ended by its organizer, and none
\* ends before it has started.
EndInv ==
    /\ status = "ENDED" => kind.interruptible
    /\ status \in {"ENDED", "RESULTS"} => height >= StartBlock
    /\ keys => HasEnded

\* What was available when the call began is still there, or in the archive.
AvailableInv == available /\ kind.encrypted => keys \/ archived

\* The call will recognise the end of a process whose keys are revealed.
SeenInv ==
    phase = "height" /\ available /\ kind.encrypted /\ ~seen.archived =>
        height >= StartBlock /\ Ended

\* The keys of a process that has none are not asked for, and the call waits
\* only for keys that were not there.
KeysInv ==
    /\ phase \in {"keys", "measuring", "waiting"} => kind.encrypted
    /\ phase \in {"measuring", "waiting"} => ~available

ReturnInv == AvailableIsReturned

\* The blocks that the call has waited through in k rounds.
RoundsOf(k) == k * WaitBlocks
PatienceInv ==
    /\ phase \in {"keys", "measuring", "waiting"} => waited >= RoundsOf(Retries - retries)
    /\ phase = "waiting" => waited >= RoundsOf(Retries - retries) + (WaitBlocks - left)

ResultsInv ==
    /\ TypeOK /\ EndInv /\ AvailableInv /\ SeenInv /\ KeysInv /\ ReturnInv
    /\ PatienceInv

LEMMA ResultsStart == Init => ResultsInv
<1> SUFFICES ASSUME Init PROVE ResultsInv
  OBVIOUS
<1>1. Patience \in Nat /\ {Retries, WaitBlocks, MaxHeight} \subseteq Nat
  BY ResultsAssumption DEF ResultsAssumption, Patience
<1>2. TypeOK
  <2>1. /\ [status |-> "READY", archived |-> FALSE] \in [status : Statuses, archived : BOOLEAN]
        /\ [results |-> FALSE, status |-> "READY"] \in [results : BOOLEAN, status : Statuses]
    BY DEF Statuses
  <2>2. kind \in [encrypted : BOOLEAN, interruptible : BOOLEAN]
    BY DEF Init
  <2>3. seen \in [status : Statuses, archived : BOOLEAN]
        /\ result \in [results : BOOLEAN, status : Statuses]
    BY <2>1 DEF Init
  <2>4. /\ height \in 0..MaxHeight /\ retries \in 0..Retries /\ left \in 0..WaitBlocks
        /\ waited \in 0..Patience
    BY <1>1 DEF Init
  <2>5. /\ status \in Statuses /\ phase = "idle"
        /\ keys \in BOOLEAN /\ archived \in BOOLEAN /\ available \in BOOLEAN
    BY DEF Init, Statuses
  <2> QED BY <2>2, <2>3, <2>4, <2>5 DEF TypeOK
<1> QED BY <1>2 DEF Init, ResultsInv, EndInv, AvailableInv, SeenInv, KeysInv, ReturnInv,
                    AvailableIsReturned, PatienceInv

LEMMA RoundsAdd ==
    /\ Patience = RoundsOf(Retries + 1) /\ Patience \in Nat
    /\ {StartBlock, EndBlock, MaxHeight, Retries, WaitBlocks} \subseteq Nat
    /\ RoundsOf(0) = 0
    /\ \A k \in Nat : RoundsOf(k) \in Nat /\ RoundsOf(k + 1) = RoundsOf(k) + WaitBlocks
    /\ \A k \in 0..Retries : RoundsOf(k) + WaitBlocks <= Patience
<1>1. {StartBlock, EndBlock, MaxHeight, Retries, WaitBlocks} \subseteq Nat
  BY ResultsAssumption DEF ResultsAssumption
<1>2. Patience = RoundsOf(Retries + 1) /\ Patience \in Nat /\ RoundsOf(0) = 0
  BY <1>1 DEF Patience, RoundsOf
<1>3. \A k \in Nat : RoundsOf(k) \in Nat /\ RoundsOf(k + 1) = RoundsOf(k) + WaitBlocks
  BY <1>1 DEF RoundsOf
<1>4. ASSUME NEW k \in 0..Retries PROVE RoundsOf(k) + WaitBlocks <= Patience
  <2>1. Retries - k \in Nat /\ (Retries - k) * WaitBlocks \in Nat
    BY <1>1
  <2>2. (Retries + 1) * WaitBlocks = k * WaitBlocks + WaitBlocks + (Retries - k) * WaitBlocks
    BY <1>1
  <2>3. k * WaitBlocks \in Nat
    BY <1>1
  <2> QED BY <1>1, <2>1, <2>2, <2>3 DEF Patience, RoundsOf
<1> QED BY <1>1, <1>2, <1>3, <1>4

\* Every action keeps the types.
LEMMA TypeStep == TypeOK /\ [Next]_vars => TypeOK'
<1> SUFFICES ASSUME TypeOK, [Next]_vars PROVE TypeOK'
  OBVIOUS
<1> USE RoundsAdd DEF TypeOK, Waiting, Statuses
<1>1. CASE NewBlock
  BY <1>1 DEF NewBlock
<1>2. CASE SetStatus
  BY <1>2 DEF SetStatus, StatusBecomes, call
<1>3. CASE RevealKeys \/ Archive
  BY <1>3 DEF RevealKeys, Archive, call
<1>4. CASE PublishResults
  BY <1>4 DEF PublishResults, StatusBecomes, call
<1>5. CASE Call
  BY <1>5 DEF Call, Goto, process
<1>6. CASE StateReply
  <2>1. [status |-> status, archived |-> archived] \in [status : Statuses, archived : BOOLEAN]
    OBVIOUS
  <2>2. [results |-> FALSE, status |-> "CANCELED"] \in [results : BOOLEAN, status : Statuses]
    OBVIOUS
  <2> QED BY <1>6, <2>1, <2>2 DEF StateReply, Goto, Return, process
<1>7. CASE HeightReply
  <2>1. [results |-> FALSE, status |-> "READY"] \in [results : BOOLEAN, status : Statuses]
    OBVIOUS
  <2>2. result' \in [results : BOOLEAN, status : Statuses]
    BY <1>7, <2>1 DEF HeightReply, Return
  <2>3. /\ retries' \in 0..Retries
        /\ phase' \in {"idle", "returned", "rejected", "nokeys"} \cup Waiting
    BY <1>7 DEF HeightReply, Goto, Return
  <2> QED BY <1>7, <2>2, <2>3 DEF HeightReply, process
<1>8. CASE KeysReply \/ WaitBegins
  BY <1>8 DEF KeysReply, WaitBegins, Goto, process
<1>9. CASE WaitEnds
  <2>1. [results |-> FALSE, status |-> "READY"] \in [results : BOOLEAN, status : Statuses]
    OBVIOUS
  <2>2. result' \in [results : BOOLEAN, status : Statuses]
    BY <1>9, <2>1 DEF WaitEnds, Return
  <2>3. /\ retries' \in 0..Retries
        /\ phase' \in {"idle", "returned", "rejected", "nokeys"} \cup Waiting
    BY <1>9 DEF WaitEnds, Goto, Return
  <2> QED BY <1>9, <2>2, <2>3 DEF WaitEnds, process
<1>10. CASE FetchReply
  BY <1>10 DEF FetchReply, Goto, Return, process
<1>11. CASE Fail
  BY <1>11 DEF Fail, process
<1>12. CASE UNCHANGED vars
  BY <1>12 DEF vars, process, call
<1> QED BY <1>1, <1>2, <1>3, <1>4, <1>5, <1>6, <1>7, <1>8, <1>9, <1>10, <1>11, <1>12
        DEF Next, Reply

\* A step of the chain: the process moves on behind the call.
LEMMA ChainStep ==
    ASSUME ResultsInv, TypeOK',
           NewBlock \/ SetStatus \/ RevealKeys \/ PublishResults \/ Archive
    PROVE  ResultsInv'
<1>1. /\ kind' = kind /\ phase' = phase /\ seen' = seen /\ retries' = retries
      /\ result' = result /\ available' = available
      /\ height' >= height /\ (keys => keys') /\ (archived => archived')
      /\ height \in Nat /\ height' \in Nat /\ {StartBlock, EndBlock} \subseteq Nat
  BY RoundsAdd DEF ResultsInv, TypeOK, NewBlock, SetStatus, RevealKeys, PublishResults, Archive,
                   StatusBecomes, call
<1>2. EndInv'
  <2>1. EndInv /\ StartBlock < EndBlock
    BY ResultsAssumption DEF ResultsInv, ResultsAssumption
  <2>2. CASE NewBlock \/ RevealKeys \/ Archive
    BY <1>1, <2>1, <2>2 DEF EndInv, HasEnded, NewBlock, RevealKeys, Archive
  <2>3. CASE SetStatus
    BY <1>1, <2>1, <2>3 DEF EndInv, HasEnded, SetStatus, StatusBecomes
  <2>4. CASE PublishResults
    BY <1>1, <2>1, <2>4 DEF EndInv, HasEnded, PublishResults, StatusBecomes
  <2> QED BY <2>2, <2>3, <2>4
<1>3. AvailableInv' /\ KeysInv' /\ ReturnInv'
  BY <1>1 DEF ResultsInv, AvailableInv, KeysInv, ReturnInv, AvailableIsReturned
<1>4. SeenInv'
  BY <1>1 DEF ResultsInv, SeenInv, Ended
<1>5. PatienceInv'
  <2>1. CASE NewBlock
    <3>1. /\ retries \in 0..Retries /\ left \in 0..WaitBlocks /\ waited \in Nat
          /\ Patience \in Nat /\ PatienceInv
      BY RoundsAdd DEF ResultsInv, TypeOK
    <3>2. /\ Retries - retries \in 0..Retries /\ RoundsOf(Retries - retries) \in Nat
          /\ RoundsOf(Retries - retries) + WaitBlocks <= Patience
          /\ WaitBlocks \in Nat
      BY <3>1, RoundsAdd
    <3>3. /\ left' = IF phase = "waiting" /\ left > 0 THEN left - 1 ELSE left
          /\ waited' = IF phase \in {"keys", "measuring", "waiting"} /\ waited < Patience
                         THEN waited + 1 ELSE waited
      BY <2>1 DEF NewBlock
    <3> QED BY <1>1, <3>1, <3>2, <3>3 DEF PatienceInv
  <2>2. CASE SetStatus \/ RevealKeys \/ PublishResults \/ Archive
    <3>1. left' = left /\ waited' = waited
      BY <2>2 DEF SetStatus, RevealKeys, PublishResults, Archive, StatusBecomes, call
    <3> QED BY <1>1, <3>1 DEF ResultsInv, PatienceInv
  <2> QED BY <2>1, <2>2
<1> QED BY <1>2, <1>3, <1>4, <1>5 DEF ResultsInv

\* A step of the call: what it learns, and where it goes from there.
LEMMA CallStep ==
    ASSUME ResultsInv, TypeOK', Call \/ Reply \/ Fail
    PROVE  ResultsInv'
<1>1. /\ kind' = kind /\ height' = height /\ status' = status /\ keys' = keys
      /\ archived' = archived /\ waited' = waited
  BY DEF Call, Reply, Fail, StateReply, HeightReply, KeysReply, WaitBegins, WaitEnds, FetchReply,
         process
<1>2. EndInv'
  BY <1>1 DEF ResultsInv, EndInv, HasEnded
<1>3. AvailableInv /\ EndInv /\ KeysInv /\ SeenInv /\ ReturnInv /\ PatienceInv
  BY DEF ResultsInv
<1>4. CASE Call
  <2>1. phase' = "state" /\ available' = (kind.encrypted => keys \/ archived)
    BY <1>4 DEF Call, Goto
  <2> QED BY <1>1, <1>2, <2>1
          DEF ResultsInv, AvailableInv, SeenInv, KeysInv, ReturnInv, AvailableIsReturned,
              PatienceInv
<1>5. CASE StateReply
  <2>1. /\ available' = available /\ seen' = [status |-> status, archived |-> archived]
        /\ \/ phase' = "returned" /\ result'.status = "CANCELED"
           \/ phase' = "height" /\ status # "CANCELED"
    BY <1>5 DEF StateReply, Goto, Return
  <2>2. SeenInv'
    <3> SUFFICES ASSUME available, kind.encrypted, ~archived
                 PROVE  height >= StartBlock /\ Ended'
      BY <1>1, <2>1 DEF SeenInv
    <3>1. keys /\ HasEnded /\ (status = "ENDED" => kind.interruptible)
      BY <1>3 DEF AvailableInv, EndInv
    <3>2. Ended'
      BY <1>1, <2>1, <3>1 DEF Ended, HasEnded
    <3>3. height >= StartBlock
      BY <1>3, <3>1, ResultsAssumption DEF EndInv, HasEnded, ResultsAssumption, ResultsInv, TypeOK
    <3> QED BY <3>2, <3>3
  <2> QED BY <1>1, <1>2, <1>3, <2>1, <2>2
          DEF ResultsInv, AvailableInv, KeysInv, ReturnInv, AvailableIsReturned, PatienceInv
<1>6. CASE HeightReply
  <2>1. /\ available' = available /\ phase = "height" /\ phase' # "height"
        /\ phase' \in {"returned", "keys", "fetching"}
        /\ phase' = "returned" => kind.encrypted /\ ~seen.archived /\ ~(height >= StartBlock /\ Ended)
        /\ phase' = "keys" => kind.encrypted /\ retries' = Retries
    BY <1>6, RoundsAdd DEF HeightReply, Goto, Return, ResultsInv, TypeOK
  <2>2. ReturnInv'
    BY <1>3, <2>1 DEF SeenInv, ReturnInv, AvailableIsReturned
  <2>3. PatienceInv'
    <3>1. phase' = "keys" => RoundsOf(Retries - retries') = 0 /\ waited' \in Nat
      BY <2>1, <1>1, RoundsAdd DEF ResultsInv, TypeOK
    <3> QED BY <2>1, <3>1 DEF PatienceInv
  <2> QED BY <1>1, <1>2, <1>3, <2>1, <2>2, <2>3 DEF ResultsInv, AvailableInv, SeenInv, KeysInv
<1>7. CASE KeysReply
  <2>1. /\ available' = available /\ phase = "keys" /\ retries' = retries /\ left' = left
        /\ phase' \in {"nokeys", "fetching", "measuring"}
        /\ phase' = "measuring" => ~archived /\ ~keys
    BY <1>7 DEF KeysReply, Goto
  <2>2. KeysInv'
    BY <1>1, <1>3, <2>1 DEF KeysInv, AvailableInv
  <2> QED BY <1>1, <1>2, <1>3, <2>1, <2>2
          DEF ResultsInv, AvailableInv, SeenInv, ReturnInv, AvailableIsReturned, PatienceInv
<1>8. CASE WaitBegins
  <2>1. /\ available' = available /\ phase = "measuring" /\ phase' = "waiting"
        /\ retries' = retries /\ left' = WaitBlocks
    BY <1>8 DEF WaitBegins, Goto
  <2>2. PatienceInv'
    <3>1. RoundsOf(Retries - retries) \in Nat /\ WaitBlocks \in Nat
      BY RoundsAdd DEF ResultsInv, TypeOK
    <3> QED BY <1>1, <1>3, <2>1, <3>1 DEF PatienceInv
  <2> QED BY <1>1, <1>2, <1>3, <2>1, <2>2
          DEF ResultsInv, AvailableInv, SeenInv, KeysInv, ReturnInv, AvailableIsReturned
<1>9. CASE WaitEnds
  <2>1. /\ available' = available /\ phase = "waiting" /\ left = 0
        /\ \/ phase' = "keys" /\ retries > 0 /\ retries' = retries - 1
           \/ phase' = "returned" /\ retries = 0
    BY <1>9 DEF WaitEnds, Goto, Return
  <2>2. PatienceInv'
    <3>1. Retries \in Nat /\ retries \in 0..Retries /\ WaitBlocks \in Nat
      BY RoundsAdd DEF ResultsInv, TypeOK
    <3>2. waited >= RoundsOf(Retries - retries) + WaitBlocks
      BY <1>3, <2>1, <3>1 DEF PatienceInv
    <3>3. RoundsOf((Retries - retries) + 1) = RoundsOf(Retries - retries) + WaitBlocks
      BY <3>1, RoundsAdd
    <3>4. Retries - (retries - 1) = (Retries - retries) + 1
      BY <3>1
    <3> QED BY <1>1, <2>1, <3>2, <3>3, <3>4 DEF PatienceInv
  <2> QED BY <1>1, <1>2, <1>3, <2>1, <2>2
          DEF ResultsInv, AvailableInv, SeenInv, KeysInv, ReturnInv, AvailableIsReturned
<1>10. CASE FetchReply
  <2>1. available' = available /\ phase' = "returned" /\ result'.results
    BY <1>10 DEF FetchReply, Goto, Return
  <2> QED BY <1>1, <1>2, <1>3, <2>1
          DEF ResultsInv, AvailableInv, SeenInv, KeysInv, ReturnInv, AvailableIsReturned,
              PatienceInv
<1>11. CASE Fail
  <2>1. available' = available /\ phase' = "rejected"
    BY <1>11 DEF Fail
  <2> QED BY <1>1, <1>2, <1>3, <2>1
          DEF ResultsInv, AvailableInv, SeenInv, KeysInv, ReturnInv, AvailableIsReturned,
              PatienceInv
<1> QED BY <1>4, <1>5, <1>6, <1>7, <1>8, <1>9, <1>10, <1>11 DEF Reply

LEMMA ResultsStep == ResultsInv /\ [Next]_vars => ResultsInv'
<1> SUFFICES ASSUME ResultsInv, [Next]_vars PROVE ResultsInv'
  OBVIOUS
<1>1. TypeOK'
  BY TypeStep DEF ResultsInv
<1>2. CASE UNCHANGED vars
  BY <1>1, <1>2 DEF vars, process, call, ResultsInv, EndInv, HasEnded, AvailableInv, SeenInv, Ended,
                    KeysInv, ReturnInv, AvailableIsReturned, PatienceInv
<1> QED BY <1>1, <1>2, ChainStep, CallStep DEF Next

LEMMA ResultsInvariant == Spec => []ResultsInv
BY ResultsStart, ResultsStep, PTL DEF Spec

-----------------------------------------------------------------------------
(***************************************************************************)
(* The results.                                                            *)
(***************************************************************************)

\* Every state of a call of getResults is typed, for any period of the process
\* and any number of retries.
THEOREM ResultsTypeCorrect == Spec => []TypeOK
<1>1. ResultsInv => TypeOK
  BY DEF ResultsInv
<1> QED BY <1>1, ResultsInvariant, PTL

\* Results that were there when the call began are not reported as missing,
\* though the state, the height and the keys are read one after the other while
\* the process moves on.
THEOREM ResultsAvailableIsReturned == Spec => []AvailableIsReturned
<1>1. ResultsInv => AvailableIsReturned
  BY DEF ResultsInv, ReturnInv
<1> QED BY <1>1, ResultsInvariant, PTL

\* The call gives up on the keys only after all its rounds of waiting.
THEOREM ResultsPatientForKeys == Spec => PatientForKeys
<1>1. ResultsInv /\ [Next]_vars =>
        [phase = "waiting" /\ phase' = "returned" => waited = Patience]_vars
  <2> SUFFICES ASSUME ResultsInv, Next, phase = "waiting", phase' = "returned"
               PROVE  waited = Patience
    OBVIOUS
  <2>1. left = 0 /\ retries = 0
    BY DEF Next, Reply, NewBlock, SetStatus, RevealKeys, PublishResults, Archive, StatusBecomes,
           call, Call, StateReply, HeightReply, KeysReply, WaitBegins, WaitEnds, FetchReply, Fail,
           Goto, Return
  <2>2. Retries \in Nat /\ WaitBlocks \in Nat /\ waited \in 0..Patience /\ Patience \in Nat
    BY RoundsAdd DEF ResultsInv, TypeOK
  <2>3. waited >= RoundsOf(Retries) + WaitBlocks
    BY <2>1, <2>2 DEF ResultsInv, PatienceInv
  <2>4. RoundsOf(Retries) + WaitBlocks = Patience
    BY <2>2, RoundsAdd
  <2> QED BY <2>2, <2>3, <2>4
<1> QED BY <1>1, ResultsInvariant, PTL DEF Spec, PatientForKeys

\* Each step of a call, whatever the answer, leaves it fewer answers and blocks to
\* wait for, for any number of tries and of blocks between them.
THEOREM ResultsCallAdvances == Spec => CallAdvances
<1> DEFINE Steps == <<phase, retries, left>>
<1>1. ASSUME ResultsInv, Next, phase \in Waiting, Steps' # Steps
      PROVE  ToGo' < ToGo
  <2> DEFINE Of(k) == k * Round
  <2>1. /\ retries \in 0..Retries /\ left \in 0..WaitBlocks
        /\ Retries \in Nat /\ WaitBlocks \in Nat /\ Round = WaitBlocks + 3
    BY <1>1, RoundsAdd DEF ResultsInv, TypeOK, Round
  <2>2. \A k \in Nat : Of(k) \in Nat /\ Of(k + 1) = Of(k) + Round
    BY <2>1
  <2>3. /\ Of(retries) \in Nat /\ Of(retries + 1) = Of(retries) + Round
        /\ Of(Retries + 1) \in Nat
        /\ retries > 0 => Of((retries - 1) + 1) = Of(retries)
    <3>1. retries \in Nat /\ Retries + 1 \in Nat
      BY <2>1
    <3>2. retries > 0 => (retries - 1) + 1 = retries
      BY <2>1
    <3> HIDE DEF Of
    <3> QED BY <2>2, <3>1, <3>2
  <2>4. ToGo = CASE phase = "state"     -> Of(Retries + 1) + 2
                 [] phase = "height"    -> Of(Retries + 1) + 1
                 [] phase = "keys"      -> Of(retries + 1)
                 [] phase = "measuring" -> Of(retries) + WaitBlocks + 2
                 [] phase = "waiting"   -> Of(retries) + left + 1
                 [] phase = "fetching"  -> 1
                 [] OTHER -> 0
    BY DEF ToGo
  <2>5. ToGo' = CASE phase' = "state"     -> Of(Retries + 1) + 2
                  [] phase' = "height"    -> Of(Retries + 1) + 1
                  [] phase' = "keys"      -> Of(retries' + 1)
                  [] phase' = "measuring" -> Of(retries') + WaitBlocks + 2
                  [] phase' = "waiting"   -> Of(retries') + left' + 1
                  [] phase' = "fetching"  -> 1
                  [] OTHER -> 0
    BY DEF ToGo
  <2> HIDE DEF Of
  <2>6. ToGo \in Nat /\ ToGo > 0
    BY <1>1, <2>1, <2>3, <2>4 DEF Waiting
  <2>7. CASE phase' \notin Waiting
    <3>1. ToGo' = 0
      BY <2>5, <2>7 DEF Waiting
    <3> QED BY <2>6, <3>1
  <2>8. CASE NewBlock
    BY <1>1, <2>1, <2>3, <2>4, <2>5, <2>8 DEF NewBlock
  <2>9. CASE SetStatus \/ RevealKeys \/ PublishResults \/ Archive
    BY <1>1, <2>9 DEF SetStatus, RevealKeys, PublishResults, Archive, StatusBecomes, call
  <2>10. CASE Call
    BY <1>1, <2>10 DEF Call, Goto, Waiting
  <2>11. CASE StateReply
    BY <2>1, <2>3, <2>4, <2>5, <2>7, <2>11 DEF StateReply, Goto, Return, Waiting
  <2>12. CASE HeightReply
    <3>1. phase = "height" /\ ToGo = Of(Retries + 1) + 1
      BY <2>4, <2>12 DEF HeightReply, Goto, Return
    <3>2. \/ phase' = "returned" \/ phase' = "fetching"
          \/ phase' = "keys" /\ retries' = Retries
      BY <2>12 DEF HeightReply, Goto, Return
    <3>3. ToGo' = 0 \/ ToGo' = 1 \/ ToGo' = Of(Retries + 1)
      BY <2>5, <3>2
    <3>4. Of(Retries + 1) = Of(Retries) + Round /\ Of(Retries) \in Nat
      <4>1. \A k \in Nat : Of(k) \in Nat /\ Of(k + 1) = Of(k) + Round
        BY <2>2
      <4> QED BY <2>1, <4>1
    <3> QED BY <2>1, <3>1, <3>3, <3>4
  <2>13. CASE KeysReply
    BY <2>1, <2>3, <2>4, <2>5, <2>7, <2>13 DEF KeysReply, Goto, Waiting
  <2>14. CASE WaitBegins
    BY <2>1, <2>3, <2>4, <2>5, <2>14 DEF WaitBegins, Goto
  <2>15. CASE WaitEnds
    BY <2>1, <2>3, <2>4, <2>5, <2>7, <2>15 DEF WaitEnds, Goto, Return, Waiting
  <2>16. CASE FetchReply \/ Fail
    BY <2>7, <2>16 DEF FetchReply, Fail, Return, Goto, Waiting
  <2> QED BY <1>1, <2>8, <2>9, <2>10, <2>11, <2>12, <2>13, <2>14, <2>15, <2>16 DEF Next, Reply
<1>2. ResultsInv /\ [Next]_vars =>
        [/\ phase \in Waiting /\ Steps' # Steps
         => ToGo' < ToGo]_vars
  BY <1>1
<1> QED BY <1>2, ResultsInvariant, PTL DEF Spec, CallAdvances

-----------------------------------------------------------------------------
(***************************************************************************)
(* Folds.                                                                  *)
(***************************************************************************)

\* Where some subsets of a finite set are bad, there is a bad one none of whose
\* proper subsets is.
LEMMA SmallestBad ==
    ASSUME NEW S, IsFiniteSet(S), NEW Bad \in SUBSET SUBSET S, Bad # {}
    PROVE  \E t \in Bad : \A u \in SUBSET t : u # t => u \notin Bad
<1>1. IsWellFoundedOn(StrictSubsetOrdering(S), SUBSET S)
  BY FS_StrictSubsetOrderingWellFounded, FS_FiniteSubsetsOfFinite
<1>2. PICK t \in Bad : \A y \in Bad : <<y, t>> \notin StrictSubsetOrdering(S)
  BY <1>1, WFMin
<1>3. SUFFICES ASSUME NEW u \in SUBSET t, u # t, u \in Bad PROVE FALSE
  BY <1>2
<1>4. u \in SUBSET S /\ t \in SUBSET S
  OBVIOUS
<1>5. <<u, t>> \in StrictSubsetOrdering(S)
  BY <1>3, <1>4 DEF StrictSubsetOrdering
<1> QED BY <1>2, <1>3, <1>5

\* The folds of the model: a sum, the layers put around a package and those
\* taken away.  The next element of a set, one step, and the defining equation.
Taken(fold, t) == IF fold = "sum" THEN CHOOSE x \in t : TRUE ELSE Max(t)
Step(fold, value, rest) ==
    CASE fold = "sum"  -> value + rest
      [] fold = "seal" -> Sealed(rest, value)
      [] fold = "open" -> Unseal(rest, value)
FoldOf(fold, base, f, g, t) ==
    IF t = {} THEN base
    ELSE Step(fold, f[Taken(fold, t)], g[t \ {Taken(fold, t)}])
IsFold(fold, base, f, g, S) ==
    g = [t \in SUBSET S |-> FoldOf(fold, base, f, g, t)]

\* A fold takes elements from the set it is at.
Foldable(fold, S) ==
    IsFiniteSet(S) /\ \A t \in SUBSET S : t # {} => Taken(fold, t) \in t

\* The defining equation determines a fold, also where one set is part of
\* another; and there is one.
LEMMA FoldsAgree ==
    ASSUME NEW fold, NEW base, NEW f, NEW S, Foldable(fold, S), NEW g, NEW h,
           NEW T \in SUBSET S, NEW U \in SUBSET S,
           IsFold(fold, base, f, g, T), IsFold(fold, base, f, h, U),
           NEW t \in SUBSET T, t \in SUBSET U
    PROVE  g[t] = h[t]
<1> DEFINE Bad == { u \in SUBSET t : g[u] # h[u] }
<1>1. SUFFICES ASSUME Bad # {} PROVE FALSE
  BY DEF Bad
<1>2. IsFiniteSet(t)
  BY FS_Subset DEF Foldable
<1>3. Bad \in SUBSET SUBSET t
  BY DEF Bad
<1> HIDE DEF Bad
<1>4. PICK u \in Bad : \A w \in SUBSET u : w # u => w \notin Bad
  BY <1>1, <1>2, <1>3, SmallestBad
<1>5. u \in SUBSET t /\ g[u] # h[u]
  BY <1>4 DEF Bad
<1> DEFINE n == Taken(fold, u)
           v == u \ {n}
<1>6. g[u] = FoldOf(fold, base, f, g, u)
  BY <1>5 DEF IsFold
<1>7. h[u] = FoldOf(fold, base, f, h, u)
  BY <1>5 DEF IsFold
<1>8. u # {}
  BY <1>5, <1>6, <1>7 DEF FoldOf
<1>9. n \in u
  BY <1>5, <1>8 DEF Foldable
<1>10. v \in SUBSET u /\ v # u /\ v \in SUBSET t
  BY <1>5, <1>9
<1>11. g[v] = h[v]
  BY <1>4, <1>10 DEF Bad
<1>12. g[u] = Step(fold, f[n], g[v]) /\ h[u] = Step(fold, f[n], h[v])
  BY <1>6, <1>7, <1>8 DEF FoldOf
<1> QED BY <1>5, <1>11, <1>12

LEMMA FoldExists ==
    ASSUME NEW fold, NEW base, NEW f, NEW S, Foldable(fold, S)
    PROVE  \E g : IsFold(fold, base, f, g, S)
<1> DEFINE Bad == { t \in SUBSET S : ~ \E g : IsFold(fold, base, f, g, t) }
<1>1. SUFFICES ASSUME Bad # {} PROVE FALSE
  BY DEF Bad
<1>2. Bad \in SUBSET SUBSET S /\ IsFiniteSet(S)
  BY DEF Bad, Foldable
<1> HIDE DEF Bad
<1>3. PICK T \in Bad : \A u \in SUBSET T : u # T => u \notin Bad
  BY <1>1, <1>2, SmallestBad
<1>4. T \in SUBSET S /\ ~ \E g : IsFold(fold, base, f, g, T)
  BY DEF Bad
<1> DEFINE G(u) == CHOOSE g : IsFold(fold, base, f, g, u)
           n(u) == Taken(fold, u)
           F(t) == IF t = {} THEN base ELSE Step(fold, f[n(t)], G(t \ {n(t)})[t \ {n(t)}])
           g == [t \in SUBSET T |-> F(t)]
<1>5. ASSUME NEW u \in SUBSET T, u # T PROVE IsFold(fold, base, f, G(u), u)
  <2>1. \E h : IsFold(fold, base, f, h, u)
    BY <1>3, <1>4, <1>5 DEF Bad
  <2> QED BY <2>1
<1>6. ASSUME NEW u \in SUBSET T, u # {} PROVE n(u) \in u
  BY <1>4, <1>6 DEF Foldable
<1> HIDE DEF n, G
<1>7. ASSUME NEW u \in SUBSET T, u # T PROVE G(u)[u] = F(u)
  <2>1. IsFold(fold, base, f, G(u), u)
    BY <1>5, <1>7
  <2>2. G(u)[u] = FoldOf(fold, base, f, G(u), u)
    BY <2>1 DEF IsFold
  <2>3. CASE u = {}
    BY <2>2, <2>3 DEF FoldOf
  <2>4. CASE u # {}
    <3> DEFINE v == u \ {n(u)}
    <3>1. n(u) \in u
      BY <1>6, <2>4
    <3>2. v \in SUBSET T /\ v \in SUBSET u /\ v # T
      BY <3>1
    <3>3. G(u)[u] = Step(fold, f[n(u)], G(u)[v])
      BY <2>2, <2>4 DEF FoldOf, n
    <3>4. IsFold(fold, base, f, G(v), v)
      BY <1>5, <3>2
    <3> HIDE DEF v
    <3>5. u \in SUBSET S /\ v \in SUBSET S /\ v \in SUBSET v
      BY <1>4, <3>2
    <3>6. G(u)[v] = G(v)[v]
      BY <2>1, <3>2, <3>4, <3>5, FoldsAgree
    <3> QED BY <2>4, <3>3, <3>6 DEF v
  <2> QED BY <2>3, <2>4
<1>8. ASSUME NEW t \in SUBSET T PROVE F(t) = FoldOf(fold, base, f, g, t)
  <2>1. CASE t = {}
    BY <2>1 DEF FoldOf
  <2>2. CASE t # {}
    <3> DEFINE v == t \ {n(t)}
    <3>1. v \in SUBSET T /\ v # T
      BY <1>6, <2>2
    <3>2. g[v] = F(v)
      BY <3>1
    <3>3. g[v] = G(v)[v]
      BY <1>7, <3>1, <3>2
    <3> HIDE DEF g
    <3> QED BY <2>2, <3>3 DEF FoldOf, n
  <2> QED BY <2>1, <2>2
<1>9. g = [t \in SUBSET T |-> FoldOf(fold, base, f, g, t)]
  <2> HIDE DEF F
  <2>1. \A t \in SUBSET T : F(t) = FoldOf(fold, base, f, g, t)
    BY <1>8
  <2> DEFINE h == [t \in SUBSET T |-> FoldOf(fold, base, f, g, t)]
  <2>2. g = h
    BY <2>1
  <2> QED BY <2>2
<1>10. IsFold(fold, base, f, g, T)
  <2> HIDE DEF g
  <2> QED BY <1>9 DEF IsFold
<1> QED BY <1>4, <1>10

-----------------------------------------------------------------------------
\* A set of numbers up to n has a greatest one.
LEMMA MaxIn ==
    ASSUME NEW n \in Nat, NEW S \in SUBSET (0..n), S # {}
    PROVE  Max(S) \in S /\ \A y \in S : Max(S) >= y
<1> DEFINE Above(h) == (h + 1)..n
           All == { Above(h) : h \in S }
<1>1. IsFiniteSet(0..n)
  BY FS_Interval
<1>2. \A h \in S : Above(h) \in SUBSET (0..n)
  OBVIOUS
<1> HIDE DEF Above
<1>3. All \in SUBSET SUBSET (0..n) /\ All # {}
  BY <1>2
<1> HIDE DEF All
<1>4. PICK t \in All : \A u \in SUBSET t : u # t => u \notin All
  BY <1>1, <1>3, SmallestBad
<1>5. PICK h \in S : t = Above(h)
  BY <1>4 DEF All
<1>6. SUFFICES ASSUME NEW k \in S, k > h PROVE FALSE
  <2>1. (\E k \in S : k > h) \/ (\A y \in S : h >= y)
    OBVIOUS
  <2> QED BY <1>6, <2>1 DEF Max
<1>7. Above(k) \in SUBSET Above(h) /\ Above(k) # Above(h)
  BY <1>6 DEF Above
<1>8. Above(k) \in All
  BY DEF All
<1> QED BY <1>4, <1>5, <1>7, <1>8

LEMMA LayersFoldable ==
    ASSUME NEW n \in Nat, NEW fold \in {"seal", "open"}
    PROVE  Foldable(fold, 1..n)
<1>1. IsFiniteSet(1..n)
  BY FS_Interval
<1>2. \A t \in SUBSET (1..n) : t \in SUBSET (0..n)
  OBVIOUS
<1>3. \A t \in SUBSET (1..n) : t # {} => Max(t) \in t
  BY <1>2, MaxIn
<1> QED BY <1>1, <1>3 DEF Foldable, Taken

\* The operators of the library choose a solution of the equation, and as there
\* is one they are folds.
LEMMA SumIsFold ==
    ASSUME NEW f, NEW S, IsFiniteSet(S)
    PROVE  \E g : IsFold("sum", 0, f, g, S) /\ SumFunctionOnSet(f, S) = g[S]
<1> DEFINE G == CHOOSE iter : iter = [s \in SUBSET S |->
                    IF s = {} THEN 0
                    ELSE f[CHOOSE x \in s : TRUE] + iter[s \ {CHOOSE x \in s : TRUE}]]
<1>1. SumFunctionOnSet(f, S) = G[S]
  BY DEF SumFunctionOnSet, FoldFunctionOnSet, MapThenFoldSet
<1>2. Foldable("sum", S)
  BY DEF Foldable, Taken
<1>3. \A g : IsFold("sum", 0, f, g, S) <=>
          g = [s \in SUBSET S |->
                    IF s = {} THEN 0
                    ELSE f[CHOOSE x \in s : TRUE] + g[s \ {CHOOSE x \in s : TRUE}]]
  BY DEF IsFold, FoldOf, Step, Taken
<1>4. PICK g : IsFold("sum", 0, f, g, S)
  BY <1>2, FoldExists
<1>5. g = [s \in SUBSET S |->
                    IF s = {} THEN 0
                    ELSE f[CHOOSE x \in s : TRUE] + g[s \ {CHOOSE x \in s : TRUE}]]
  BY <1>3, <1>4
<1>6. G = [s \in SUBSET S |->
                    IF s = {} THEN 0
                    ELSE f[CHOOSE x \in s : TRUE] + G[s \ {CHOOSE x \in s : TRUE}]]
  BY <1>5
<1> HIDE DEF G
<1>7. IsFold("sum", 0, f, G, S)
  BY <1>3, <1>6
<1> QED BY <1>1, <1>7

LEMMA SealIsFold ==
    ASSUME NEW b, NEW n \in Nat, NEW s, DOMAIN s = 1..n
    PROVE  \E g : IsFold("seal", b, s, g, 1..n) /\ FoldLeft(Sealed, b, s) = g[1..n]
<1> DEFINE G == CHOOSE iter : iter = [t \in SUBSET (DOMAIN s) |->
                    IF t = {} THEN b ELSE Sealed(iter[t \ {Max(t)}], s[Max(t)])]
<1>1. FoldLeft(Sealed, b, s) = G[DOMAIN s]
  BY DEF FoldLeft, MapThenFoldSet
<1>2. Foldable("seal", 1..n)
  BY LayersFoldable
<1>3. \A g : IsFold("seal", b, s, g, 1..n) <=>
          g = [t \in SUBSET (DOMAIN s) |->
                    IF t = {} THEN b ELSE Sealed(g[t \ {Max(t)}], s[Max(t)])]
  BY DEF IsFold, FoldOf, Step, Taken
<1>4. PICK g : IsFold("seal", b, s, g, 1..n)
  BY <1>2, FoldExists
<1>5. g = [t \in SUBSET (DOMAIN s) |->
                    IF t = {} THEN b ELSE Sealed(g[t \ {Max(t)}], s[Max(t)])]
  BY <1>3, <1>4
<1>6. G = [t \in SUBSET (DOMAIN s) |->
                    IF t = {} THEN b ELSE Sealed(G[t \ {Max(t)}], s[Max(t)])]
  BY <1>5
<1> HIDE DEF G
<1>7. IsFold("seal", b, s, G, 1..n)
  BY <1>3, <1>6
<1> QED BY <1>1, <1>7

LEMMA OpenIsFold ==
    ASSUME NEW b, NEW n \in Nat, NEW s, DOMAIN s = 1..n
    PROVE  \E g : IsFold("open", b, s, g, 1..n) /\ FoldLeft(Unseal, b, s) = g[1..n]
<1> DEFINE G == CHOOSE iter : iter = [t \in SUBSET (DOMAIN s) |->
                    IF t = {} THEN b ELSE Unseal(iter[t \ {Max(t)}], s[Max(t)])]
<1>1. FoldLeft(Unseal, b, s) = G[DOMAIN s]
  BY DEF FoldLeft, MapThenFoldSet
<1>2. Foldable("open", 1..n)
  BY LayersFoldable
<1>3. \A g : IsFold("open", b, s, g, 1..n) <=>
          g = [t \in SUBSET (DOMAIN s) |->
                    IF t = {} THEN b ELSE Unseal(g[t \ {Max(t)}], s[Max(t)])]
  BY DEF IsFold, FoldOf, Step, Taken
<1>4. PICK g : IsFold("open", b, s, g, 1..n)
  BY <1>2, FoldExists
<1>5. g = [t \in SUBSET (DOMAIN s) |->
                    IF t = {} THEN b ELSE Unseal(g[t \ {Max(t)}], s[Max(t)])]
  BY <1>3, <1>4
<1>6. G = [t \in SUBSET (DOMAIN s) |->
                    IF t = {} THEN b ELSE Unseal(G[t \ {Max(t)}], s[Max(t)])]
  BY <1>5
<1> HIDE DEF G
<1>7. IsFold("open", b, s, G, 1..n)
  BY <1>3, <1>6
<1> QED BY <1>1, <1>7

-----------------------------------------------------------------------------
(***************************************************************************)
(* Sums: elements may be taken out in any order, and those that count 0 may *)
(* be left out.                                                            *)
(***************************************************************************)
Numbered(f, S) == IsFiniteSet(S) /\ \A x \in S : f[x] \in Nat

\* The sum over a set, and that over what is left of it when the chosen
\* element is taken out.
LEMMA SumOfChosen ==
    ASSUME NEW f, NEW S, IsFiniteSet(S), S # {}
    PROVE  \E c \in S : SumFunctionOnSet(f, S) = f[c] + SumFunctionOnSet(f, S \ {c})
<1> DEFINE c == CHOOSE x \in S : TRUE
           R == S \ {c}
<1>1. c \in S
  OBVIOUS
<1>2. Taken("sum", S) = c
  BY DEF Taken
<1> HIDE DEF c
<1>3. IsFiniteSet(R) /\ R \in SUBSET S /\ S \in SUBSET S /\ R \in SUBSET R
  BY FS_RemoveElement
<1>4. Foldable("sum", S)
  BY DEF Foldable, Taken
<1>5. PICK g : IsFold("sum", 0, f, g, S) /\ SumFunctionOnSet(f, S) = g[S]
  BY SumIsFold
<1>6. PICK h : IsFold("sum", 0, f, h, R) /\ SumFunctionOnSet(f, R) = h[R]
  BY <1>3, SumIsFold
<1> HIDE DEF R
<1>7. g[R] = h[R]
  BY <1>3, <1>4, <1>5, <1>6, FoldsAgree
<1>8. g[S] = FoldOf("sum", 0, f, g, S)
  BY <1>5 DEF IsFold
<1>9. g[S] = f[c] + g[R]
  BY <1>2, <1>8 DEF FoldOf, Step, R
<1> QED BY <1>1, <1>5, <1>6, <1>7, <1>9 DEF R

LEMMA SumEmpty ==
    ASSUME NEW f PROVE SumFunctionOnSet(f, {}) = 0
<1>1. IsFiniteSet({})
  BY FS_EmptySet
<1>2. PICK g : IsFold("sum", 0, f, g, {}) /\ SumFunctionOnSet(f, {}) = g[{}]
  BY <1>1, SumIsFold
<1>3. g[{}] = FoldOf("sum", 0, f, g, {})
  BY <1>2 DEF IsFold
<1> QED BY <1>2, <1>3 DEF FoldOf

LEMMA SumType ==
    ASSUME NEW f, NEW S, Numbered(f, S) PROVE SumFunctionOnSet(f, S) \in Nat
<1> DEFINE Bad == { t \in SUBSET S : SumFunctionOnSet(f, t) \notin Nat }
<1>1. SUFFICES ASSUME Bad # {} PROVE FALSE
  BY DEF Bad
<1>2. Bad \in SUBSET SUBSET S /\ IsFiniteSet(S)
  BY DEF Bad, Numbered
<1> HIDE DEF Bad
<1>3. PICK t \in Bad : \A u \in SUBSET t : u # t => u \notin Bad
  BY <1>1, <1>2, SmallestBad
<1>4. t \in SUBSET S /\ SumFunctionOnSet(f, t) \notin Nat
  BY DEF Bad
<1>5. t # {}
  BY <1>4, SumEmpty
<1>6. IsFiniteSet(t)
  BY <1>2, <1>4, FS_Subset
<1>7. PICK c \in t : SumFunctionOnSet(f, t) = f[c] + SumFunctionOnSet(f, t \ {c})
  BY <1>5, <1>6, SumOfChosen
<1>8. t \ {c} \in SUBSET S /\ t \ {c} \notin Bad
  BY <1>3, <1>4
<1>9. SumFunctionOnSet(f, t \ {c}) \in Nat
  BY <1>8 DEF Bad
<1>10. f[c] \in Nat
  BY <1>4 DEF Numbered
<1> QED BY <1>4, <1>7, <1>9, <1>10

LEMMA TermsSwap ==
    \A a, b, r \in Nat : a + (b + r) = b + (a + r)
OBVIOUS

\* Any element may be taken out.
LEMMA SumTakeOut ==
    ASSUME NEW f, NEW S, Numbered(f, S), NEW x \in S
    PROVE  SumFunctionOnSet(f, S) = f[x] + SumFunctionOnSet(f, S \ {x})
<1> DEFINE Out(t, y) == SumFunctionOnSet(f, t) = f[y] + SumFunctionOnSet(f, t \ {y})
           Bad == { t \in SUBSET S : \E y \in t : ~ Out(t, y) }
<1>1. SUFFICES ASSUME Bad # {} PROVE FALSE
  BY DEF Bad
<1>2. Bad \in SUBSET SUBSET S /\ IsFiniteSet(S)
  BY DEF Bad, Numbered
<1> HIDE DEF Bad
<1>3. PICK t \in Bad : \A u \in SUBSET t : u # t => u \notin Bad
  BY <1>1, <1>2, SmallestBad
<1>4. t \in SUBSET S /\ \E y \in t : ~ Out(t, y)
  BY DEF Bad
<1>5. PICK y \in t : ~ Out(t, y)
  BY <1>4
<1>6. IsFiniteSet(t)
  BY <1>2, <1>4, FS_Subset
<1>7. PICK c \in t : Out(t, c)
  BY <1>6, <1>5, SumOfChosen
<1>8. c # y
  BY <1>5, <1>7
<1> DEFINE r == (t \ {c}) \ {y}
<1>9. Out(t \ {c}, y)
  <2>1. t \ {c} \in SUBSET t /\ t \ {c} # t /\ y \in t \ {c}
    BY <1>8
  <2> QED BY <1>3, <1>4, <2>1 DEF Bad
<1>10. Out(t \ {y}, c)
  <2>1. t \ {y} \in SUBSET t /\ t \ {y} # t /\ c \in t \ {y}
    BY <1>8
  <2> QED BY <1>3, <1>4, <2>1 DEF Bad
<1>11. (t \ {y}) \ {c} = r
  OBVIOUS
<1>12. r \in SUBSET S /\ IsFiniteSet(r)
  BY <1>4, <1>6, FS_Subset
<1>13. SumFunctionOnSet(f, r) \in Nat
  BY <1>12, SumType DEF Numbered
<1>14. f[y] \in Nat /\ f[c] \in Nat
  BY <1>4 DEF Numbered
<1> HIDE DEF r
<1>15. SumFunctionOnSet(f, t) = f[c] + (f[y] + SumFunctionOnSet(f, r))
  BY <1>7, <1>9 DEF r
<1>16. SumFunctionOnSet(f, t \ {y}) = f[c] + SumFunctionOnSet(f, r)
  BY <1>10, <1>11
<1>17. SumFunctionOnSet(f, t) = f[y] + SumFunctionOnSet(f, t \ {y})
  BY <1>13, <1>14, <1>15, <1>16, TermsSwap
<1> QED BY <1>5, <1>17

LEMMA SumSame ==
    ASSUME NEW f, NEW g, NEW S, Numbered(f, S), \A x \in S : f[x] = g[x]
    PROVE  SumFunctionOnSet(f, S) = SumFunctionOnSet(g, S)
<1> DEFINE Bad == { t \in SUBSET S : SumFunctionOnSet(f, t) # SumFunctionOnSet(g, t) }
<1>1. SUFFICES ASSUME Bad # {} PROVE FALSE
  BY DEF Bad
<1>2. Bad \in SUBSET SUBSET S /\ IsFiniteSet(S)
  BY DEF Bad, Numbered
<1> HIDE DEF Bad
<1>3. PICK t \in Bad : \A u \in SUBSET t : u # t => u \notin Bad
  BY <1>1, <1>2, SmallestBad
<1>4. t \in SUBSET S /\ SumFunctionOnSet(f, t) # SumFunctionOnSet(g, t)
  BY DEF Bad
<1>5. t # {}
  BY <1>4, SumEmpty
<1>6. Numbered(f, t) /\ Numbered(g, t)
  BY <1>2, <1>4, FS_Subset DEF Numbered
<1>7. PICK c : c \in t
  BY <1>5
<1>8. SumFunctionOnSet(f, t) = f[c] + SumFunctionOnSet(f, t \ {c})
  BY <1>6, <1>7, SumTakeOut
<1>9. SumFunctionOnSet(g, t) = g[c] + SumFunctionOnSet(g, t \ {c})
  BY <1>6, <1>7, SumTakeOut
<1>10. SumFunctionOnSet(f, t \ {c}) = SumFunctionOnSet(g, t \ {c})
  BY <1>3, <1>4, <1>7 DEF Bad
<1> QED BY <1>4, <1>7, <1>8, <1>9, <1>10

\* Elements that count nothing may be left out.
LEMMA SumLeaveOut ==
    ASSUME NEW f, NEW S, Numbered(f, S), NEW T \in SUBSET S, \A x \in S \ T : f[x] = 0
    PROVE  SumFunctionOnSet(f, S) = SumFunctionOnSet(f, T)
<1> DEFINE Bad == { t \in SUBSET S : T \subseteq t /\ SumFunctionOnSet(f, t) # SumFunctionOnSet(f, T) }
<1>1. SUFFICES ASSUME Bad # {} PROVE FALSE
  BY DEF Bad
<1>2. Bad \in SUBSET SUBSET S /\ IsFiniteSet(S)
  BY DEF Bad, Numbered
<1> HIDE DEF Bad
<1>3. PICK t \in Bad : \A u \in SUBSET t : u # t => u \notin Bad
  BY <1>1, <1>2, SmallestBad
<1>4. t \in SUBSET S /\ T \subseteq t /\ SumFunctionOnSet(f, t) # SumFunctionOnSet(f, T)
  BY DEF Bad
<1>5. Numbered(f, t)
  BY <1>2, <1>4, FS_Subset DEF Numbered
<1>6. PICK c : c \in t \ T
  BY <1>4
<1>7. SumFunctionOnSet(f, t) = f[c] + SumFunctionOnSet(f, t \ {c})
  BY <1>5, <1>6, SumTakeOut
<1>8. f[c] = 0
  BY <1>4, <1>6
<1>9. SumFunctionOnSet(f, t \ {c}) = SumFunctionOnSet(f, T)
  <2>1. t \ {c} \in SUBSET t /\ t \ {c} # t /\ T \subseteq t \ {c} /\ t \ {c} \in SUBSET S
    BY <1>4, <1>6
  <2> QED BY <1>3, <2>1 DEF Bad
<1>10. Numbered(f, t \ {c})
  BY <1>5, FS_RemoveElement DEF Numbered
<1>11. SumFunctionOnSet(f, t \ {c}) \in Nat
  BY <1>10, SumType
<1> QED BY <1>4, <1>7, <1>8, <1>9, <1>11

-----------------------------------------------------------------------------
(***************************************************************************)
(* Points of a question, counted by value or by voter.                     *)
(***************************************************************************)
\* The voters of S who chose i, the points that a question gets by counting
\* the weight of the voters of each value, and by asking each voter.
Chose(c, S, i) == { v \in S : c[v] = i }
PointsByValue(w, c, S, m) ==
    [i \in 0..m |-> i * SumFunctionOnSet(w, Chose(c, S, i))]
PointsByVoter(w, c, S) == [v \in S |-> w[v] * c[v]]

LEMMA PointsSum == \A i, a, b \in Nat : i * (a + b) = a * i + i * b
OBVIOUS

LEMMA ProductNat == \A i, a \in Nat : i * a \in Nat
OBVIOUS

LEMMA PointsNumbered ==
    ASSUME NEW S, NEW w, Numbered(w, S), NEW m \in Nat, NEW c, \A v \in S : c[v] \in 0..m
    PROVE  /\ Numbered(PointsByValue(w, c, S, m), 0..m)
           /\ Numbered(PointsByVoter(w, c, S), S)
           /\ \A i \in 0..m : SumFunctionOnSet(w, Chose(c, S, i)) \in Nat
<1>1. \A i \in 0..m : Numbered(w, Chose(c, S, i))
  <2>1. \A i \in 0..m : Chose(c, S, i) \in SUBSET S
    BY DEF Chose
  <2>2. \A i \in 0..m : IsFiniteSet(Chose(c, S, i))
    BY <2>1, FS_Subset DEF Numbered
  <2> QED BY <2>1, <2>2 DEF Numbered
<1>2. \A i \in 0..m : SumFunctionOnSet(w, Chose(c, S, i)) \in Nat
  BY <1>1, SumType
<1>3. \A i \in 0..m : PointsByValue(w, c, S, m)[i] \in Nat
  <2>1. \A i \in 0..m : i \in Nat
    OBVIOUS
  <2>2. \A i \in 0..m : PointsByValue(w, c, S, m)[i] = i * SumFunctionOnSet(w, Chose(c, S, i))
    BY DEF PointsByValue
  <2> QED BY <1>2, <2>1, <2>2, ProductNat
<1>4. \A v \in S : PointsByVoter(w, c, S)[v] \in Nat
  <2>1. \A v \in S : w[v] \in Nat /\ c[v] \in Nat
    BY DEF Numbered
  <2>2. \A v \in S : PointsByVoter(w, c, S)[v] = w[v] * c[v]
    BY DEF PointsByVoter
  <2> QED BY <2>1, <2>2, ProductNat
<1>5. IsFiniteSet(0..m)
  BY FS_Interval
<1> QED BY <1>2, <1>3, <1>4, <1>5 DEF Numbered

\* Both ways of counting give the same: a voter who is taken out takes the same
\* points from each.
LEMMA PointsAgree ==
    ASSUME NEW S, NEW w, Numbered(w, S), NEW m \in Nat, NEW c, \A v \in S : c[v] \in 0..m
    PROVE  SumFunctionOnSet(PointsByValue(w, c, S, m), 0..m)
             = SumFunctionOnSet(PointsByVoter(w, c, S), S)
<1> DEFINE Agree(t) == SumFunctionOnSet(PointsByValue(w, c, t, m), 0..m)
                         = SumFunctionOnSet(PointsByVoter(w, c, t), t)
           Bad == { t \in SUBSET S : ~ Agree(t) }
<1>1. SUFFICES ASSUME Bad # {} PROVE FALSE
  BY DEF Bad
<1>2. Bad \in SUBSET SUBSET S /\ IsFiniteSet(S)
  BY DEF Bad, Numbered
<1> HIDE DEF Bad
<1>3. PICK t \in Bad : \A u \in SUBSET t : u # t => u \notin Bad
  BY <1>1, <1>2, SmallestBad
<1>4. t \in SUBSET S /\ ~ Agree(t)
  BY DEF Bad
<1>5. Numbered(w, t) /\ \A v \in t : c[v] \in 0..m
  BY <1>2, <1>4, FS_Subset DEF Numbered
<1>6. Numbered(PointsByValue(w, c, t, m), 0..m) /\ Numbered(PointsByVoter(w, c, t), t)
  BY <1>5, PointsNumbered
<1>7. t # {}
  <2>1. SUFFICES ASSUME t = {} PROVE FALSE
    OBVIOUS
  <2>2. \A i \in 0..m : PointsByValue(w, c, t, m)[i] = 0
    <3>1. \A i \in 0..m : Chose(c, t, i) = {}
      BY <2>1 DEF Chose
    <3>2. \A i \in 0..m : i * 0 = 0
      OBVIOUS
    <3> QED BY <3>1, <3>2, SumEmpty DEF PointsByValue
  <2>3. SumFunctionOnSet(PointsByValue(w, c, t, m), 0..m)
          = SumFunctionOnSet(PointsByValue(w, c, t, m), {})
    BY <1>6, <2>2, SumLeaveOut
  <2> QED BY <1>4, <2>1, <2>3, SumEmpty
<1>8. PICK x : x \in t
  BY <1>7
<1> DEFINE u == t \ {x}
           k == c[x]
           F == PointsByValue(w, c, t, m)
           E == PointsByValue(w, c, u, m)
<1>9. k \in 0..m /\ k \in Nat /\ w[x] \in Nat
  BY <1>5, <1>8 DEF Numbered
<1>10. Agree(u)
  <2>1. u \in SUBSET t /\ u # t /\ u \in SUBSET S
    BY <1>4, <1>8
  <2> HIDE DEF u
  <2> QED BY <1>3, <2>1 DEF Bad
<1>11. Numbered(w, u) /\ \A v \in u : c[v] \in 0..m
  BY <1>5, FS_RemoveElement DEF Numbered
<1>12. Numbered(E, 0..m) /\ \A i \in 0..m : SumFunctionOnSet(w, Chose(c, u, i)) \in Nat
  <2> HIDE DEF u
  <2> QED BY <1>11, PointsNumbered
<1>13. \A i \in (0..m) \ {k} : F[i] = E[i]
  <2>1. \A i \in (0..m) \ {k} : Chose(c, t, i) = Chose(c, u, i)
    BY DEF Chose
  <2> QED BY <2>1 DEF PointsByValue
<1>14. SumFunctionOnSet(w, Chose(c, t, k)) = w[x] + SumFunctionOnSet(w, Chose(c, u, k))
  <2>1. Chose(c, t, k) \in SUBSET t /\ x \in Chose(c, t, k)
    BY <1>8 DEF Chose
  <2>2. Numbered(w, Chose(c, t, k))
    BY <1>5, <2>1, FS_Subset DEF Numbered
  <2>3. Chose(c, t, k) \ {x} = Chose(c, u, k)
    BY DEF Chose
  <2>4. SumFunctionOnSet(w, Chose(c, t, k)) = w[x] + SumFunctionOnSet(w, Chose(c, t, k) \ {x})
    <3> HIDE DEF k
    <3> QED BY <2>1, <2>2, SumTakeOut
  <2> QED BY <2>3, <2>4
<1>15. F[k] = w[x] * k + E[k]
  <2>1. F[k] = k * SumFunctionOnSet(w, Chose(c, t, k))
    BY <1>9 DEF PointsByValue
  <2>2. E[k] = k * SumFunctionOnSet(w, Chose(c, u, k))
    BY <1>9 DEF PointsByValue
  <2>3. SumFunctionOnSet(w, Chose(c, u, k)) \in Nat
    BY <1>9, <1>12
  <2> HIDE DEF F, E, k, u
  <2> QED BY <1>9, <1>14, <2>1, <2>2, <2>3, PointsSum
<1> DEFINE r == (0..m) \ {k}
<1>16. SumFunctionOnSet(F, 0..m) = F[k] + SumFunctionOnSet(F, r)
  <2> HIDE DEF F, k
  <2> QED BY <1>6, <1>9, SumTakeOut DEF F
<1>17. SumFunctionOnSet(E, 0..m) = E[k] + SumFunctionOnSet(E, r)
  <2> HIDE DEF E, k
  <2> QED BY <1>12, <1>9, SumTakeOut
<1>18. SumFunctionOnSet(F, r) = SumFunctionOnSet(E, r) /\ SumFunctionOnSet(E, r) \in Nat
  <2>1. Numbered(F, r) /\ Numbered(E, r)
    <3> HIDE DEF F, E, k
    <3>1. IsFiniteSet(r) /\ r \in SUBSET (0..m)
      BY <1>6, FS_RemoveElement DEF Numbered
    <3>2. \A i \in r : F[i] \in Nat /\ E[i] \in Nat
      BY <1>6, <1>12, <3>1 DEF Numbered, F
    <3> QED BY <3>1, <3>2 DEF Numbered
  <2>2. \A i \in r : F[i] = E[i]
    BY <1>13
  <2> HIDE DEF F, E, r
  <2> QED BY <2>1, <2>2, SumSame, SumType
<1>19. SumFunctionOnSet(PointsByVoter(w, c, t), t)
         = w[x] * k + SumFunctionOnSet(PointsByVoter(w, c, t), u)
  <2>1. PointsByVoter(w, c, t)[x] = w[x] * k
    BY <1>8 DEF PointsByVoter
  <2> HIDE DEF k
  <2> QED BY <1>6, <1>8, <2>1, SumTakeOut
<1>20. SumFunctionOnSet(PointsByVoter(w, c, t), u) = SumFunctionOnSet(PointsByVoter(w, c, u), u)
  <2>1. Numbered(PointsByVoter(w, c, t), u)
    BY <1>6, FS_RemoveElement DEF Numbered
  <2>2. \A v \in u : PointsByVoter(w, c, t)[v] = PointsByVoter(w, c, u)[v]
    BY DEF PointsByVoter
  <2> HIDE DEF u
  <2> QED BY <2>1, <2>2, SumSame
<1>21. E[k] \in Nat /\ w[x] * k \in Nat
  <2>1. E[k] \in Nat
    BY <1>9, <1>12 DEF Numbered
  <2> HIDE DEF E, k
  <2> QED BY <1>9, <2>1, ProductNat
<1> DEFINE p == w[x] * k
<1> HIDE DEF E, F, r, p
<1>22. SumFunctionOnSet(F, 0..m) = p + SumFunctionOnSet(E, 0..m)
  <2> HIDE DEF k
  <2>1. p \in Nat /\ F[k] = p + E[k]
    BY <1>15, <1>21 DEF p
  <2> QED BY <2>1, <1>16, <1>17, <1>18, <1>21
<1>23. SumFunctionOnSet(E, 0..m) = SumFunctionOnSet(PointsByVoter(w, c, u), u)
  BY <1>10 DEF E
<1>24. Agree(t)
  BY <1>19, <1>20, <1>22, <1>23 DEF F, p
<1> QED BY <1>4, <1>24

-----------------------------------------------------------------------------
(***************************************************************************)
(* Keys, and that they can be sorted.                                      *)
(***************************************************************************)
\* The positions of keys in the order of r: those of some of them, each once.
InOrder(list, t, r) ==
    /\ r \in [1..Cardinality(t) -> t]
    /\ \A i, j \in 1..Cardinality(t) : i < j => r[i] # r[j] /\ list[r[i]] <= list[r[j]]

\* One of the positions in a set has the greatest key.
LEMMA GreatestKey ==
    ASSUME NEW list \in Seq(Nat), NEW T \in SUBSET DOMAIN list, T # {}
    PROVE  \E m \in T : \A y \in T : list[y] <= list[m]
<1> DEFINE Top(t) == \E m \in t : \A y \in t : list[y] <= list[m]
           Bad == { t \in SUBSET T : t # {} /\ ~ Top(t) }
<1>1. SUFFICES ASSUME Bad # {} PROVE FALSE
  BY DEF Bad
<1>2. IsFiniteSet(T)
  <2>1. IsFiniteSet(1..Len(list))
    BY FS_Interval
  <2> QED BY <2>1, FS_Subset
<1>3. Bad \in SUBSET SUBSET T
  BY DEF Bad
<1> HIDE DEF Bad
<1>4. PICK t \in Bad : \A u \in SUBSET t : u # t => u \notin Bad
  BY <1>1, <1>2, <1>3, SmallestBad
<1>5. t \in SUBSET T /\ t # {} /\ ~ Top(t)
  BY DEF Bad
<1>6. PICK x : x \in t
  BY <1>5
<1>7. \A y \in t : list[y] \in Nat
  <2>1. \A y \in DOMAIN list : list[y] \in Nat
    OBVIOUS
  <2> QED BY <1>5, <2>1
<1> DEFINE u == t \ {x}
<1>8. u # {}
  BY <1>5, <1>6, <1>7
<1>9. Top(u)
  <2>1. u \in SUBSET t /\ u # t /\ u \in SUBSET T
    BY <1>5, <1>6
  <2> HIDE DEF u
  <2> QED BY <1>4, <1>8, <2>1 DEF Bad
<1>10. PICK m \in u : \A y \in u : list[y] <= list[m]
  BY <1>9
<1>11. list[x] <= list[m] \/ list[m] <= list[x]
  BY <1>6, <1>7
<1>12. CASE list[x] <= list[m]
  BY <1>5, <1>10, <1>12
<1>13. CASE list[m] <= list[x]
  <2>1. \A y \in t : list[y] <= list[x]
    BY <1>6, <1>7, <1>10, <1>13
  <2> QED BY <1>5, <1>6, <2>1
<1> QED BY <1>11, <1>12, <1>13

\* Any positions can be put in the order of their keys.
LEMMA OrderExists ==
    ASSUME NEW list \in Seq(Nat), NEW T \in SUBSET DOMAIN list
    PROVE  \E r : InOrder(list, T, r)
<1> DEFINE Bad == { t \in SUBSET T : ~ \E r : InOrder(list, t, r) }
<1>1. SUFFICES ASSUME Bad # {} PROVE FALSE
  BY DEF Bad
<1>2. IsFiniteSet(T)
  <2>1. IsFiniteSet(1..Len(list))
    BY FS_Interval
  <2> QED BY <2>1, FS_Subset
<1>3. Bad \in SUBSET SUBSET T
  BY DEF Bad
<1> HIDE DEF Bad
<1>4. PICK t \in Bad : \A u \in SUBSET t : u # t => u \notin Bad
  BY <1>1, <1>2, <1>3, SmallestBad
<1>5. t \in SUBSET T /\ ~ \E r : InOrder(list, t, r)
  BY DEF Bad
<1>6. t # {}
  <2>1. SUFFICES ASSUME t = {} PROVE FALSE
    OBVIOUS
  <2>2. Cardinality(t) = 0
    BY <2>1, FS_EmptySet
  <2>3. InOrder(list, t, [i \in 1..0 |-> 0])
    BY <2>2 DEF InOrder
  <2> QED BY <1>5, <2>3
<1>7. IsFiniteSet(t)
  BY <1>2, <1>5, FS_Subset
<1>8. PICK m \in t : \A y \in t : list[y] <= list[m]
  BY <1>5, <1>6, GreatestKey
<1> DEFINE u == t \ {m}
           l == Cardinality(u)
<1>9. l \in Nat /\ Cardinality(t) = l + 1
  <2>1. IsFiniteSet(u) /\ l = Cardinality(t) - 1
    BY <1>7, FS_RemoveElement
  <2>2. l \in Nat /\ Cardinality(t) \in Nat
    BY <1>7, <2>1, FS_CardinalityType
  <2> QED BY <2>1, <2>2
<1>10. u \in SUBSET t /\ u # t /\ u \in SUBSET T /\ m \notin u
  BY <1>5
<1>11. PICK s : InOrder(list, u, s)
  BY <1>4, <1>10 DEF Bad
<1> DEFINE r == [i \in 1..(l + 1) |-> IF i <= l THEN s[i] ELSE m]
<1> HIDE DEF u
<1>12. s \in [1..l -> u]
  BY <1>11 DEF InOrder
<1> HIDE DEF l
<1>13. r \in [1..(l + 1) -> t]
  <2>1. \A i \in 1..(l + 1) : i <= l => i \in 1..l
    BY <1>9
  <2>2. \A i \in 1..(l + 1) : r[i] \in t
    BY <1>10, <1>12, <2>1
  <2> QED BY <2>2
<1>14. ASSUME NEW i \in 1..(l + 1), NEW j \in 1..(l + 1), i < j
       PROVE  r[i] # r[j] /\ list[r[i]] <= list[r[j]]
  <2>1. i \in 1..l
    BY <1>9, <1>14
  <2>2. r[i] = s[i] /\ s[i] \in u
    BY <1>9, <1>12, <2>1
  <2>3. CASE j <= l
    <3>1. j \in 1..l /\ r[j] = s[j]
      BY <1>9, <2>3
    <3> QED BY <1>11, <1>14, <2>1, <2>2, <3>1 DEF InOrder, l
  <2>4. CASE ~ (j <= l)
    <3>1. r[j] = m
      BY <2>4
    <3> QED BY <1>8, <1>10, <2>2, <3>1
  <2> QED BY <2>3, <2>4
<1>15. InOrder(list, t, r)
  <2> HIDE DEF r
  <2> QED BY <1>9, <1>13, <1>14 DEF InOrder
<1> QED BY <1>5, <1>15

\* The keys that a package is sealed with are the keys of the process, each of
\* them as often as the gateway lists it, in ascending order.
KeysInOrder(list, sorted) ==
    /\ \E p \in Bijection(DOMAIN list, DOMAIN list) :
          sorted = [i \in DOMAIN list |-> list[p[i]]]
    /\ \A i, j \in DOMAIN list : i < j => sorted[i] <= sorted[j]

\* packageVoteContent sorts the keys of the process and leaves none out.
THEOREM EveryKeySeals ==
    ASSUME NEW list \in Seq(Nat)
    PROVE  KeysInOrder(list, Ascending(list))
<1> DEFINE n == Len(list)
           D == 1..n
<1>1. n \in Nat /\ DOMAIN list = D
  OBVIOUS
<1>2. IsFiniteSet(D) /\ Cardinality(D) = n
  BY <1>1, FS_Interval
<1>3. PICK r : InOrder(list, D, r)
  BY <1>1, OrderExists
<1>4. r \in [D -> D] /\ \A i, j \in D : i < j => r[i] # r[j] /\ list[r[i]] <= list[r[j]]
  BY <1>2, <1>3 DEF InOrder
<1>5. r \in Injection(D, D)
  <2>1. \A i, j \in D : i = j \/ i < j \/ j < i
    BY <1>1
  <2>2. \A i, j \in D : r[i] = r[j] => i = j
    BY <1>4, <2>1
  <2> QED BY <1>4, <2>2 DEF Injection, IsInjective
<1> HIDE DEF D
<1>6. r \in Bijection(D, D)
  BY <1>2, <1>5, FS_Injection DEF Bijection
<1> DEFINE Order(p) == \A i, j \in DOMAIN list : i < j => list[p[i]] <= list[p[j]]
           o == CHOOSE p \in Bijection(DOMAIN list, DOMAIN list) : Order(p)
<1>7. \E p \in Bijection(DOMAIN list, DOMAIN list) : Order(p)
  BY <1>1, <1>4, <1>6
<1> HIDE DEF Order
<1>8. o \in Bijection(DOMAIN list, DOMAIN list) /\ Order(o)
  BY <1>7
<1>9. Ascending(list) = [i \in DOMAIN list |-> list[o[i]]]
  BY DEF Ascending, Order
<1> HIDE DEF o
<1> QED BY <1>8, <1>9 DEF KeysInOrder, Order

LEMMA AscendingType ==
    ASSUME NEW list \in Seq(Nat) PROVE Ascending(list) \in Seq(Nat)
<1>1. PICK p \in Bijection(DOMAIN list, DOMAIN list) :
          Ascending(list) = [i \in DOMAIN list |-> list[p[i]]]
  BY EveryKeySeals DEF KeysInOrder
<1>2. \A i \in DOMAIN list : p[i] \in DOMAIN list
  BY DEF Bijection, Injection
<1>3. \A i \in DOMAIN list : list[p[i]] \in Nat
  BY <1>2
<1> QED BY <1>1, <1>3

-----------------------------------------------------------------------------
(***************************************************************************)
(* Layers around a package.                                                *)
(***************************************************************************)
LEMMA LayerTakenOff ==
    ASSUME NEW content, NEW key PROVE Unseal(Sealed(content, key), key) = content
BY DEF Unseal, Sealed

\* A fold over the positions of a sequence takes them from the last one down.
LEMMA FoldOfPrefix ==
    ASSUME NEW fold \in {"seal", "open"}, NEW b, NEW f, NEW g, NEW n \in Nat,
           IsFold(fold, b, f, g, 1..n), NEW j \in 1..n
    PROVE  g[1..j] = Step(fold, f[j], g[1..(j - 1)])
<1>1. j \in Nat /\ j \in 1..j /\ 1..j \in SUBSET (1..n) /\ 1..j \in SUBSET (0..j)
  <2>1. j \in Nat /\ j >= 1 /\ j <= n
    OBVIOUS
  <2>2. \A i \in 1..j : i \in 1..n /\ i \in 0..j
    BY <2>1
  <2> QED BY <2>1, <2>2
<1>2. Max(1..j) = j
  <2>1. Max(1..j) \in 1..j /\ Max(1..j) >= j
    BY <1>1, MaxIn
  <2> QED BY <2>1
<1>3. Taken(fold, 1..j) = j
  BY <1>2 DEF Taken
<1>4. (1..j) \ {j} = 1..(j - 1)
  OBVIOUS
<1>5. g[1..j] = FoldOf(fold, b, f, g, 1..j)
  BY <1>1 DEF IsFold
<1> QED BY <1>1, <1>3, <1>4, <1>5 DEF FoldOf

LEMMA FoldOfNothing ==
    ASSUME NEW fold, NEW b, NEW f, NEW g, NEW n \in Nat, IsFold(fold, b, f, g, 1..n)
    PROVE  g[1..0] = b
<1>1. 1..0 = {} /\ {} \in SUBSET (1..n)
  OBVIOUS
<1>2. g[{}] = FoldOf(fold, b, f, g, {})
  BY <1>1 DEF IsFold
<1> QED BY <1>1, <1>2 DEF FoldOf

\* Layers taken away in the reverse order leave what they were put around.
LEMMA OpenedInReverse ==
    ASSUME NEW b, NEW s \in Seq(Nat)
    PROVE  FoldLeft(Unseal, FoldLeft(Sealed, b, s), Reverse(s)) = b
<1> DEFINE n == Len(s)
           p == FoldLeft(Sealed, b, s)
           r == Reverse(s)
<1>1. n \in Nat /\ DOMAIN s = 1..n /\ DOMAIN r = 1..n /\ \A j \in 1..n : r[j] = s[(n - j) + 1]
  BY DEF Reverse
<1> HIDE DEF n, p, r
<1>2. PICK g : IsFold("seal", b, s, g, 1..n) /\ p = g[1..n]
  BY <1>1, SealIsFold DEF p
<1>3. PICK h : IsFold("open", p, r, h, 1..n) /\ FoldLeft(Unseal, p, r) = h[1..n]
  BY <1>1, OpenIsFold
<1> DEFINE D == { d \in 0..n : h[1..(n - d)] # g[1..d] }
<1>4. SUFFICES D = {}
  <2>1. SUFFICES ASSUME D = {} PROVE h[1..n] = b
    BY <1>3 DEF p, r
  <2>2. 0 \in 0..n /\ n - 0 = n
    BY <1>1
  <2>3. h[1..n] = g[1..0]
    BY <2>1, <2>2
  <2> QED BY <1>1, <1>2, <2>3, FoldOfNothing
<1>5. SUFFICES ASSUME D # {} PROVE FALSE
  OBVIOUS
<1>6. PICK d \in D : \A y \in D : d >= y
  <2>1. D \in SUBSET (0..n)
    OBVIOUS
  <2> HIDE DEF D
  <2> QED BY <1>1, <1>5, <2>1, MaxIn
<1>7. d \in 0..n /\ h[1..(n - d)] # g[1..d]
  BY <1>6
<1>8. d # n
  <2>1. SUFFICES ASSUME d = n PROVE FALSE
    OBVIOUS
  <2>2. n - d = 0
    BY <1>1, <2>1
  <2> QED BY <1>1, <1>2, <1>3, <1>7, <2>1, <2>2, FoldOfNothing
<1> DEFINE j == n - d
<1>9. j \in 1..n /\ d + 1 \in 1..n /\ (d + 1) - 1 = d /\ j - 1 = n - (d + 1) /\ (n - j) + 1 = d + 1
      /\ d + 1 \in 0..n /\ ~ (d >= d + 1)
  BY <1>1, <1>7, <1>8
<1>10. h[1..(n - (d + 1))] = g[1..(d + 1)]
  BY <1>6, <1>9
<1>11. h[1..j] = Unseal(h[1..(j - 1)], r[j])
  <2> HIDE DEF j
  <2>1. h[1..j] = Step("open", r[j], h[1..(j - 1)])
    BY <1>1, <1>3, <1>9, FoldOfPrefix
  <2> QED BY <2>1 DEF Step
<1>12. g[1..(d + 1)] = Sealed(g[1..d], s[d + 1])
  <2>1. g[1..(d + 1)] = Step("seal", s[d + 1], g[1..((d + 1) - 1)])
    BY <1>1, <1>2, <1>9, FoldOfPrefix
  <2> QED BY <1>9, <2>1 DEF Step
<1>13. r[j] = s[d + 1]
  BY <1>1, <1>9
<1>14. h[1..j] = g[1..d]
  BY <1>9, <1>10, <1>11, <1>12, <1>13, LayerTakenOff
<1> QED BY <1>7, <1>14

-----------------------------------------------------------------------------
(***************************************************************************)
(* Envelopes, and what they count.                                         *)
(***************************************************************************)
\* The Vochain finds in an envelope the votes that were put into it.
LEMMA EnvelopeOpens ==
    ASSUME poll \in Polls, NEW v \in Voters
    PROVE  Opened(Envelope(v)) = [votes |-> poll.votes[v]]
<1> DEFINE a == Ascending(poll.keys)
           b == [votes |-> poll.votes[v]]
<1>1. poll.keys \in Seq(Nat)
  BY BallotsAssumption DEF BallotsAssumption, Polls
<1>2. a \in Seq(Nat)
  BY <1>1, AscendingType
<1>3. Envelope(v).votePackage = FoldLeft(Sealed, b, a) /\ Envelope(v).encryptionKeyIndexes = a
  BY DEF Envelope, PackageAnonymousEnvelope, PackageSignedEnvelope, PackageVoteContent
<1> HIDE DEF a, b
<1>4. Opened(Envelope(v)) = FoldLeft(Unseal, FoldLeft(Sealed, b, a), Reverse(a))
  BY <1>3 DEF Opened
<1>5. Opened(Envelope(v)) = b
  BY <1>2, <1>4, OpenedInReverse
<1> QED BY <1>5 DEF b

LEMMA WeightNumbered ==
    ASSUME poll \in Polls PROVE Numbered(Weight, Voters)
<1>1. \A v \in Voters : poll.weight[v] \in Nat
  BY BallotsAssumption DEF BallotsAssumption, Polls
<1>2. \A v \in Voters : Weight[v] \in Nat
  BY <1>1 DEF Weight
<1> QED BY <1>2, BallotsAssumption DEF Numbered, BallotsAssumption

\* An envelope that does not count is that of a voter who has no weight.
LEMMA CountsOrWeightless ==
    ASSUME poll \in Polls, NEW v \in Voters
    PROVE  Counts(v) \/ Weight[v] = 0
<1> DEFINE w == poll.weight[v]
<1>1. poll.origin \in {"tree", "ca", "evm", "anonymous"}
  BY DEF Polls
<1>2. "votes" \in DOMAIN Opened(Envelope(v))
  BY EnvelopeOpens
<1>3. Weight[v] = IF poll.origin \in {"tree", "evm"} THEN w ELSE 1
  BY DEF Weight
<1>4. Envelope(v).proof.value = {Weight[v]} \/ Weight[v] = 0
  <2>1. CASE poll.origin = "anonymous"
    <3>1. Envelope(v).proof.value = {1}
      BY <2>1 DEF Envelope, PackageAnonymousEnvelope
    <3> QED BY <1>3, <2>1, <3>1
  <2>2. CASE poll.origin # "anonymous"
    <3>1. Envelope(v).proof = PackageSignedProof(poll.origin, w)
      BY <2>2 DEF Envelope, PackageSignedEnvelope
    <3>2. CASE poll.origin = "tree"
      BY <1>3, <3>1, <3>2 DEF PackageSignedProof
    <3>3. CASE poll.origin = "ca"
      BY <1>3, <3>1, <3>3 DEF PackageSignedProof
    <3>4. CASE poll.origin = "evm"
      BY <1>3, <3>1, <3>4 DEF PackageSignedProof, HexBytes
    <3> QED BY <1>1, <2>2, <3>2, <3>3, <3>4
  <2> QED BY <2>1, <2>2
<1> QED BY <1>2, <1>4 DEF Counts

\* The choices that voters made in a question.
Answers(q) == [v \in Voters |-> poll.votes[v][q]]

LEMMA AnswersType ==
    ASSUME poll \in Polls, NEW q \in 1..Questions
    PROVE  \A v \in Voters : Answers(q)[v] \in 0..MaxValue
BY DEF Polls, Votes, Answers

\* The result of a value is the weight of the voters who chose it.
LEMMA RawResultsAre ==
    ASSUME poll \in Polls, NEW q \in 1..Questions, NEW value \in 0..MaxValue
    PROVE  RawResults[q][value] = SumFunctionOnSet(Weight, Chose(Answers(q), Voters, value))
<1> DEFINE T == { v \in Voters : Counts(v) /\ Opened(Envelope(v)).votes[q] = value }
           S == Chose(Answers(q), Voters, value)
<1>1. RawResults[q][value] = SumFunctionOnSet(Weight, T)
  BY DEF RawResults
<1>2. \A v \in Voters : Opened(Envelope(v)).votes[q] = Answers(q)[v]
  BY EnvelopeOpens DEF Answers
<1>3. T \in SUBSET S /\ S \in SUBSET Voters
  BY <1>2 DEF Chose
<1>4. \A v \in S \ T : Weight[v] = 0
  BY <1>2, <1>3, CountsOrWeightless DEF Chose
<1>5. Numbered(Weight, S)
  BY <1>3, WeightNumbered, FS_Subset DEF Numbered
<1> HIDE DEF S, T
<1>6. SumFunctionOnSet(Weight, S) = SumFunctionOnSet(Weight, T)
  BY <1>3, <1>4, <1>5, SumLeaveOut
<1> QED BY <1>1, <1>6 DEF S

LEMMA PollIsCounted == poll \in Polls => BallotsAreCounted
<1> SUFFICES ASSUME poll \in Polls PROVE BallotsAreCounted
  OBVIOUS
<1>1. ASSUME NEW q \in 1..Questions, NEW value \in 0..MaxValue
      PROVE  DigestSingleChoice(RawResults)[q][value] =
                 SumFunctionOnSet(Weight, { v \in Voters : poll.votes[v][q] = value })
  <2>1. DigestSingleChoice(RawResults)[q][value] = RawResults[q][value]
    BY DEF DigestSingleChoice
  <2>2. Chose(Answers(q), Voters, value) = { v \in Voters : poll.votes[v][q] = value }
    BY DEF Chose, Answers
  <2> QED BY <2>1, <2>2, RawResultsAre
<1>2. ASSUME NEW q \in 1..Questions
      PROVE  DigestSingleQuestion(RawResults)[q] =
                 SumFunction([v \in Voters |-> Weight[v] * poll.votes[v][q]])
  <2>1. DigestSingleQuestion(RawResults)[q] =
            SumFunction([index \in 0..MaxValue |-> index * RawResults[q][index]])
    BY DEF DigestSingleQuestion
  <2>2. [index \in 0..MaxValue |-> index * RawResults[q][index]]
          = PointsByValue(Weight, Answers(q), Voters, MaxValue)
    BY RawResultsAre DEF PointsByValue
  <2>3. SumFunction(PointsByValue(Weight, Answers(q), Voters, MaxValue))
          = SumFunctionOnSet(PointsByValue(Weight, Answers(q), Voters, MaxValue), 0..MaxValue)
    BY DEF SumFunction, PointsByValue
  <2>4. [v \in Voters |-> Weight[v] * poll.votes[v][q]] = PointsByVoter(Weight, Answers(q), Voters)
    BY DEF PointsByVoter, Answers
  <2>5. SumFunction(PointsByVoter(Weight, Answers(q), Voters))
          = SumFunctionOnSet(PointsByVoter(Weight, Answers(q), Voters), Voters)
    BY DEF SumFunction, PointsByVoter
  <2>6. MaxValue \in Nat
    BY BallotsAssumption DEF BallotsAssumption
  <2>7. SumFunctionOnSet(PointsByValue(Weight, Answers(q), Voters, MaxValue), 0..MaxValue)
          = SumFunctionOnSet(PointsByVoter(Weight, Answers(q), Voters), Voters)
    BY <2>6, WeightNumbered, AnswersType, PointsAgree
  <2> QED BY <2>1, <2>2, <2>3, <2>4, <2>5, <2>7
<1> QED BY <1>1, <1>2 DEF BallotsAreCounted

LEMMA PollStays ==
    poll \in Polls \cup {NoPoll} /\ [PollCounted]_poll => (poll \in Polls \cup {NoPoll})'
BY DEF PollCounted

\* Every poll is counted right: a choice has the weight of the voters who made
\* it, and an option its points, whatever the order of the keys and the weights
\* (packageVoteContent, packageSignedProof and both digests in voting.ts).
THEOREM BallotsAlwaysCounted == PollSpec => []BallotsAreCounted
<1>1. PollInit => poll \in Polls \cup {NoPoll}
  BY DEF PollInit
<1>2. poll \in Polls \cup {NoPoll} => BallotsAreCounted
  BY PollIsCounted DEF BallotsAreCounted
<1> QED BY <1>1, <1>2, PollStays, PTL DEF PollSpec
=============================================================================
