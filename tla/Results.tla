------------------------------ MODULE Results ------------------------------
(***************************************************************************)
(* VotingApi.getResults (packages/voting/src/voting-calls.ts): one call    *)
(* that reads the state of a process, the block height, the keys of an     *)
(* encrypted process (with up to three more tries, two blocks apart) and   *)
(* the results, one request after the other, while the process goes on     *)
(* behind it: blocks are added, the organizer changes the status, the keys *)
(* are revealed, the results are published, and the process ends up in the *)
(* archive only.                                                           *)
(***************************************************************************)
EXTENDS Naturals

CONSTANTS
    StartBlock,     \* the voting period of the process
    EndBlock,
    MaxHeight,      \* bound: heights from here on are not told apart
    Retries,        \* 3
    WaitBlocks      \* blocks to wait before the keys are asked for again: 2

ASSUME ResultsAssumption ==
    /\ {StartBlock, EndBlock, MaxHeight, Retries, WaitBlocks} \subseteq Nat
    /\ StartBlock < EndBlock /\ EndBlock < MaxHeight

VARIABLES
    kind,       \* encryptedVotes and interruptible of the process
    height,     \* block height of the Vochain
    status,     \* status of the process
    keys,       \* the private keys are revealed
    archived,   \* the process is served by the archive only
    phase,      \* the request that getResults awaits
    seen,       \* the process state that it read
    retries,
    left,       \* blocks still to wait for
    result,     \* what the call returned
    available,  \* history: the results were there when the call began
    waited      \* history: blocks since the keys were asked for

process == <<kind, height, status, keys, archived>>
call == <<phase, seen, retries, left, result, available>>
vars == <<process, call, waited>>

Statuses == {"READY", "PAUSED", "ENDED", "CANCELED", "RESULTS"}
Waiting == {"state", "height", "keys", "measuring", "waiting", "fetching"}
Patience == (Retries + 1) * WaitBlocks

TypeOK ==
    /\ kind \in [encrypted : BOOLEAN, interruptible : BOOLEAN]
    /\ height \in 0..MaxHeight
    /\ status \in Statuses
    /\ keys \in BOOLEAN /\ archived \in BOOLEAN /\ available \in BOOLEAN
    /\ phase \in {"idle", "returned", "rejected", "nokeys"} \cup Waiting
    /\ seen \in [status : Statuses, archived : BOOLEAN]
    /\ retries \in 0..Retries
    /\ left \in 0..WaitBlocks
    /\ result \in [results : BOOLEAN, status : Statuses]
    /\ waited \in 0..Patience

Init ==
    /\ kind \in [encrypted : BOOLEAN, interruptible : BOOLEAN]
    /\ height = 0
    /\ status = "READY"
    /\ keys = FALSE
    /\ archived = FALSE
    /\ phase = "idle"
    /\ seen = [status |-> "READY", archived |-> FALSE]
    /\ retries = 0
    /\ left = 0
    /\ result = [results |-> FALSE, status |-> "READY"]
    /\ available = FALSE
    /\ waited = 0

-----------------------------------------------------------------------------
(***************************************************************************)
(* The Vochain, as far as getResults depends on it.                        *)
(***************************************************************************)
HasEnded == status \in {"ENDED", "RESULTS"} \/ height >= EndBlock

NewBlock ==
    /\ height' = IF height < MaxHeight THEN height + 1 ELSE height
    /\ left' = IF phase = "waiting" /\ left > 0 THEN left - 1 ELSE left
    /\ waited' = IF phase \in {"keys", "measuring", "waiting"} /\ waited < Patience
                   THEN waited + 1 ELSE waited
    /\ UNCHANGED <<kind, status, keys, archived, phase, seen, retries, result,
                   available>>

StatusBecomes(s) ==
    /\ status' = s
    /\ UNCHANGED <<kind, height, keys, archived, call, waited>>

\* The organizer pauses, resumes or cancels an interruptible process, or ends
\* it once it has started.
SetStatus ==
    /\ kind.interruptible
    /\ status \in {"READY", "PAUSED"}
    /\ \E s \in {"READY", "PAUSED", "ENDED", "CANCELED"} \ {status} :
          /\ s = "ENDED" => height >= StartBlock
          /\ StatusBecomes(s)

RevealKeys ==
    /\ kind.encrypted /\ ~keys
    /\ HasEnded
    /\ keys' = TRUE
    /\ UNCHANGED <<kind, height, status, archived, call, waited>>

PublishResults ==
    /\ status \notin {"CANCELED", "RESULTS"}
    /\ HasEnded
    /\ kind.encrypted => keys
    /\ StatusBecomes("RESULTS")

Archive ==
    /\ ~archived
    /\ status \in {"CANCELED", "RESULTS"}
    /\ archived' = TRUE
    /\ UNCHANGED <<kind, height, status, keys, call, waited>>

-----------------------------------------------------------------------------
(***************************************************************************)
(* getResults                                                              *)
(***************************************************************************)
Goto(from, to) == phase = from /\ phase' = to
Return(from, results, s) ==
    /\ Goto(from, "returned")
    /\ result' = [results |-> results, status |-> s]

\* getResults is called; the process state is requested first.
Call ==
    /\ Goto("idle", "state")
    /\ available' = (kind.encrypted => keys \/ archived)
    /\ UNCHANGED <<process, seen, retries, left, result, waited>>

\* getProcessState, from the archive if need be.  CANCELED ends the call.
StateReply ==
    /\ seen' = [status |-> status, archived |-> archived]
    /\ IF status = "CANCELED"
         THEN Return("state", FALSE, "CANCELED")
         ELSE Goto("state", "height") /\ UNCHANGED result
    /\ UNCHANGED <<process, retries, left, available, waited>>

\* Mutant of Ended: RESULTS and ENDED are not considered.
EndedByHeight == height >= EndBlock

\* The voting period is over, by the status read before or by the height.
Ended ==
    \/ seen.status = "RESULTS"
    \/ kind.interruptible /\ seen.status = "ENDED"
    \/ height >= EndBlock

\* getBlockHeight: an encrypted process that has not ended has no results.
HeightReply ==
    /\ \/ /\ kind.encrypted /\ ~seen.archived
          /\ height < StartBlock \/ ~Ended
          /\ Return("height", FALSE, "READY")
          /\ UNCHANGED retries
       \/ /\ kind.encrypted /\ ~seen.archived
          /\ height >= StartBlock /\ Ended
          /\ Goto("height", "keys")
          /\ retries' = Retries
          /\ UNCHANGED result
       \/ /\ kind.encrypted => seen.archived
          /\ Goto("height", "fetching")
          /\ UNCHANGED <<retries, result>>
    /\ UNCHANGED <<process, seen, left, available, waited>>

\* getProcessKeys, which knows no archive: "No data found for this key" ends
\* the call with ResultsNotAvailableError.
KeysReply ==
    /\ \/ archived /\ Goto("keys", "nokeys")
       \/ ~archived /\ keys /\ Goto("keys", "fetching")
       \/ ~archived /\ ~keys /\ Goto("keys", "measuring")
    /\ UNCHANGED <<process, seen, retries, left, result, available, waited>>

\* VochainWaiter.wait(2): the height to wait for ...
WaitBegins ==
    /\ Goto("measuring", "waiting")
    /\ left' = WaitBlocks
    /\ UNCHANGED <<process, seen, retries, result, available, waited>>

\* Mutants of WaitEnds: `while (retries > 0)`, and no `retries--`.
WaitEndsEarly ==
    /\ left = 0
    /\ retries' = IF retries > 0 THEN retries - 1 ELSE 0
    /\ IF retries > 1
         THEN Goto("waiting", "keys") /\ UNCHANGED result
         ELSE Return("waiting", FALSE, "READY")
    /\ UNCHANGED <<process, seen, left, available, waited>>
WaitEndsUncounted ==
    /\ left = 0
    /\ Goto("waiting", "keys")
    /\ UNCHANGED <<process, seen, retries, left, result, available, waited>>

\* ... has been reached; retries-- and `while (retries >= 0)`.
WaitEnds ==
    /\ left = 0
    /\ \/ /\ retries > 0
          /\ retries' = retries - 1
          /\ Goto("waiting", "keys")
          /\ UNCHANGED result
       \/ /\ retries = 0
          /\ Return("waiting", FALSE, "READY")
          /\ UNCHANGED retries
    /\ UNCHANGED <<process, seen, left, available, waited>>

\* fetchRawResults, from the archive if need be.
FetchReply ==
    /\ Return("fetching", TRUE, status)
    /\ UNCHANGED <<process, seen, retries, left, available, waited>>

\* A request fails, or times out: the caller is rejected, also by
\* fetchRawResults, which is returned and not awaited, past the catch.
Fail ==
    /\ phase \in Waiting
    /\ phase' = "rejected"
    /\ UNCHANGED <<process, seen, retries, left, result, available, waited>>

Reply ==
    StateReply \/ HeightReply \/ KeysReply \/ WaitBegins \/ WaitEnds \/ FetchReply

Next ==
    \/ NewBlock \/ SetStatus \/ RevealKeys \/ PublishResults \/ Archive
    \/ Call \/ Reply \/ Fail

Spec == Init /\ [][Next]_vars

\* Blocks are added, and each request is answered or times out.
Fairness == WF_vars(NewBlock) /\ WF_vars(Reply)
FairSpec == Spec /\ Fairness

-----------------------------------------------------------------------------
(***************************************************************************)
(* Properties                                                              *)
(***************************************************************************)

\* Results that were there when the call began are not reported as missing,
\* whatever happens to the process meanwhile: an empty answer is right, or
\* the process was canceled.
AvailableIsReturned ==
    phase = "returned" /\ available =>
        result.results \/ result.status = "CANCELED"

\* "Not revealed yet" is only reported after four tries over eight blocks.
PatientForKeys ==
    [][phase = "waiting" /\ phase' = "returned" => waited = Patience]_vars

\* The answers and blocks that a call may still wait for: a round of waiting is
\* the keys, the height, the wait itself and its blocks.
Round == WaitBlocks + 3
ToGo ==
    CASE phase = "state"     -> (Retries + 1) * Round + 2
      [] phase = "height"    -> (Retries + 1) * Round + 1
      [] phase = "keys"      -> (retries + 1) * Round
      [] phase = "measuring" -> retries * Round + WaitBlocks + 2
      [] phase = "waiting"   -> retries * Round + left + 1
      [] phase = "fetching"  -> 1
      [] OTHER -> 0

\* A call runs out of tries: whatever the process does behind it, each answer,
\* and each block while it waits for keys, brings it closer to its end.
CallAdvances ==
    [][/\ phase \in Waiting
       /\ <<phase, retries, left>>' # <<phase, retries, left>>
       => ToGo' < ToGo]_vars

\* A call settles, whether the keys are ever revealed or not.
CallSettles == (phase = "state") ~> (phase \notin Waiting)

\* "Resolved from the archive if needed" (voting-calls.ts:952): no call ends
\* for lack of keys when the results are published, in the archive.
ArchiveIsUsed == phase = "nokeys" => status # "RESULTS"
=============================================================================
