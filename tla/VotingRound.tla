---------------------------- MODULE VotingRound ----------------------------
(***************************************************************************)
(* A whole vote, as the programs under example/ drive it: the census, the  *)
(* process, the waits for its start, the voters and the count.  The        *)
(* program runs the census registration of module Census and the waits of  *)
(* module BlockWait one after another, over gateways that lag behind each  *)
(* other; voters are served concurrently, and the program may be stopped   *)
(* and started again from what it has saved.                               *)
(***************************************************************************)
EXTENDS BlockWait, Sequences, FiniteSets

CONSTANTS
    Voters,         \* the accounts: each has its claim in the chunk of its number
    Kinds,          \* the example programs
    Chunks,         \* number of chunks of the census
    StopOnError,    \* config.stopOnError: what is registered is checked
    MaxReruns,      \* bound: registrations of the census again
    StartDelay,     \* blocks from the creation to the start (25 or 15)
    Attempts,       \* attempts of waitUntilPresent
    OracleBlocks    \* bound: blocks until a new process is in the chain

Programs == {"signed-off-chain", "anonymous-off-chain", "signed-blind",
             "signed-erc20", "signed-erc20-signal"}

ASSUME RoundAssumption ==
    /\ IsFiniteSet(Gateways)
    /\ Voters # {}
    /\ Voters \subseteq 1..Chunks
    /\ Kinds # {} /\ Kinds \subseteq Programs
    /\ StartDelay \in 1..(MaxHeight - 1)
    /\ {Attempts, MaxReruns} \subseteq Nat
    /\ OracleBlocks \in Nat \ {0}
    /\ Chunks \in Nat \ {0}
    /\ StopOnError \in BOOLEAN

VARIABLES
    stores, active, step, tried, late, chunk, root, uri, reruns  \* see Census

registerVars == <<stores, active, step, tried, late, chunk, root, uri, reruns>>

INSTANCE Census

VARIABLES
    kind,       \* the program
    config,     \* config.encryptedVote, once checkVoteResults looks at it
    again,      \* it was stopped, and started again with readExistingProcess
    saved,      \* the process id was written to its file
    op,         \* position in the program
    left,       \* attempts left, or reads done, in the operation at hand
    start,      \* startBlock of the process
    since,      \* block with the process; 0 if there is none
    keysAt,     \* block with its encryption keys; 0 if there is none
    ended,      \* block with its end; 0 if there is none
    enrolled,   \* enrolled[v]: block with the registered key of v, or 0
    secret,     \* secret[v]: the program holds the secret key of v
    shared,     \* what submitVotes read before the voters began
    voter,      \* voter[v]: how far v is
    box         \* ballot -> block that counts it

processVars == <<start, since, keysAt, ended, enrolled>>
programVars == <<kind, config, again, saved, op, left, secret, shared, voter>>
roundVars == <<processVars, programVars, box>>
allVars == <<waitVars, registerVars, roundVars>>

-----------------------------------------------------------------------------
(***************************************************************************)
(* The programs: for each, what main() does in turn, anew or again; the    *)
(* process that launchNewVote creates; how submitVotes makes a voter's     *)
(* ballot; and how checkVoteResults counts, with or without the config's   *)
(* encryptedVote.                                                          *)
(***************************************************************************)

SignedOffChainMain(resume) ==
    <<"entity">> \o (IF resume THEN <<>> ELSE <<"census", "launch", "present">>)
                 \o <<"present", "started", "submit">>
\* Mutant of AnonymousMain: voters do not wait for the start.
AnonymousMainEarly(resume) ==
    <<"entity">> \o (IF resume THEN <<"present">>
                     ELSE <<"census", "launch", "present", "present", "register">>)
                 \o <<"submit">>

AnonymousMain(resume) ==
    <<"entity">> \o (IF resume THEN <<"present">>
                     ELSE <<"census", "launch", "present", "present", "register">>)
                 \o <<"started", "submit">>
\* Mutant of BlindMain: voters do not wait for the start.
BlindMainEarly(resume) ==
    <<"entity">> \o (IF resume THEN <<>> ELSE <<"launch", "present">>)
                 \o <<"present", "submit">>

BlindMain(resume) ==
    <<"entity">> \o (IF resume THEN <<>> ELSE <<"launch", "present">>)
                 \o <<"present", "started", "submit">>
Erc20Main(resume) ==
    (IF resume THEN <<"present">> ELSE <<"launch", "present">>)
        \o <<"started", "submit">>
SignalMain(resume) ==
    (IF resume THEN <<"present">> ELSE <<"launch", "present">>)
        \o <<"started", "submit">>

SignedOffChainLaunch == [source |-> "census", sealed |-> FALSE, limited |-> FALSE]
AnonymousLaunch == [source |-> "census", sealed |-> FALSE, limited |-> FALSE]
BlindLaunch == [source |-> "provider", sealed |-> TRUE, limited |-> FALSE]
Erc20Launch == [source |-> "token", sealed |-> FALSE, limited |-> TRUE]
SignalLaunch == [source |-> "token", sealed |-> FALSE, limited |-> TRUE]

SignedOffChainSubmit == [reads |-> <<"keys">>, ballot |-> "address"]
AnonymousSubmit == [reads |-> <<"inputs", "root", "keys">>, ballot |-> "secret"]
BlindSubmit == [reads |-> <<"keys">>, ballot |-> "random"]
Erc20Submit == [reads |-> <<"keys">>, ballot |-> "address"]
SignalSubmit == [reads |-> <<"keys">>, ballot |-> "address"]

SignedOffChainCheck(sealed) ==
    (IF sealed THEN <<"received", "end">> ELSE <<>>) \o <<"ready", "tally">>
AnonymousCheck(sealed) ==
    (IF sealed THEN <<"received", "end">> ELSE <<>>) \o <<"ready", "tally">>
BlindCheck(sealed) ==
    (IF sealed THEN <<"received", "end">> ELSE <<>>) \o <<"ready", "tally">>
Erc20Check(sealed) ==
    (IF sealed THEN <<"received", "untilEnd">> ELSE <<>>) \o <<"wait", "tally">>
SignalCheck(sealed) ==
    (IF sealed THEN <<"received", "untilEnd">> ELSE <<>>) \o <<"wait", "tally">>

Main == CASE kind = "signed-off-chain"    -> SignedOffChainMain(again)
          [] kind = "anonymous-off-chain" -> AnonymousMain(again)
          [] kind = "signed-blind"        -> BlindMain(again)
          [] kind = "signed-erc20"        -> Erc20Main(again)
          [] kind = "signed-erc20-signal" -> SignalMain(again)
Check == CASE kind = "signed-off-chain"    -> SignedOffChainCheck(config)
           [] kind = "anonymous-off-chain" -> AnonymousCheck(config)
           [] kind = "signed-blind"        -> BlindCheck(config)
           [] kind = "signed-erc20"        -> Erc20Check(config)
           [] kind = "signed-erc20-signal" -> SignalCheck(config)
Launch == CASE kind = "signed-off-chain"    -> SignedOffChainLaunch
            [] kind = "anonymous-off-chain" -> AnonymousLaunch
            [] kind = "signed-blind"        -> BlindLaunch
            [] kind = "signed-erc20"        -> Erc20Launch
            [] kind = "signed-erc20-signal" -> SignalLaunch
Submit == CASE kind = "signed-off-chain"    -> SignedOffChainSubmit
            [] kind = "anonymous-off-chain" -> AnonymousSubmit
            [] kind = "signed-blind"        -> BlindSubmit
            [] kind = "signed-erc20"        -> Erc20Submit
            [] kind = "signed-erc20-signal" -> SignalSubmit

Program == Main \o Check
Op == IF op \in DOMAIN Program THEN Program[op]
      ELSE IF op = 0 THEN "failed" ELSE "done"

-----------------------------------------------------------------------------
Top == CHOOSE h \in Heights : /\ \A g \in Gateways : view[g] <= h
                              /\ \E g \in Gateways : view[g] = h
NextBlock == Plus(Top, 1)
Visible(block, g) == block # 0 /\ block <= view[g]

Ballots == Voters \X {0, 1}
Counted(g) == Cardinality({ b \in Ballots : Visible(box[b], g) })
Enrolled(g) == { v \in Voters : Visible(enrolled[v], g) }

\* A process of limited length is over at the last height that is told apart.
Ended(g) == Visible(ended, g) \/ (Launch.limited /\ view[g] = MaxHeight)

LeftAt(o) == IF o \in DOMAIN Program /\ Program[o] = "present" THEN Attempts ELSE 1
NothingShared == [keys |-> FALSE, inputs |-> {}, root |-> {}]

RoundTypeOK ==
    /\ WaitTypeOK
    /\ CensusTypeOK
    /\ kind \in Kinds
    /\ {config, again, saved} \subseteq BOOLEAN
    /\ op \in 0..(Len(Program) + 1)
    /\ left \in 0..(Attempts + Len(Submit.reads) + 1)
    /\ {start, since, keysAt, ended} \subseteq Heights
    /\ enrolled \in [Voters -> Heights]
    /\ secret \in [Voters -> BOOLEAN]
    /\ shared \in [keys : BOOLEAN, inputs : SUBSET Voters, root : SUBSET Voters]
    /\ voter \in [Voters -> {"todo", "proved", "sent", "checked"}]
    /\ box \in [Ballots -> Heights]

RoundInit ==
    /\ WaitInit
    /\ \A g \in Gateways : view[g] <= MaxLag
    /\ CensusInit
    /\ kind \in Kinds
    /\ config = FALSE
    /\ again = FALSE
    /\ saved = FALSE
    /\ op = 1
    /\ left = LeftAt(1)
    /\ start = 0
    /\ since = 0
    /\ keysAt = 0
    /\ ended = 0
    /\ enrolled = [v \in Voters |-> 0]
    /\ secret = [v \in Voters |-> FALSE]
    /\ shared = NothingShared
    /\ voter = [v \in Voters |-> "todo"]
    /\ box = [b \in Ballots |-> 0]

\* The program goes on with its next operation.
NextOp == op' = op + 1 /\ left' = LeftAt(op + 1)

\* A wait is over and the next one may begin.
ResetWaiter ==
    /\ phase' = "idle"
    /\ goal' = 0
    /\ UNCHANGED view

\* What the program holds is gone.
ForgetAll ==
    /\ ResetWaiter
    /\ config' = FALSE
    /\ secret' = [v \in Voters |-> FALSE]
    /\ shared' = NothingShared
    /\ voter' = [v \in Voters |-> "todo"]

-----------------------------------------------------------------------------
\* ensureEntityMetadata: read, and set if there is none.
EnsureEntityMetadata ==
    /\ Op = "entity"
    /\ NextOp
    /\ UNCHANGED <<waitVars, registerVars, processVars, box>>
    /\ UNCHANGED <<kind, config, again, saved, secret, shared, voter>>

\* generatePublicCensusFromAccounts
RegisterCensus ==
    /\ Op = "census"
    /\ CensusNext
    /\ UNCHANGED <<waitVars, roundVars>>

\* Its root goes into the process; what the gateways keep of it besides is not
\* looked at again.
CensusReady ==
    /\ Op = "census"
    /\ step = "ready"
    /\ stores' = [g \in Gateways |-> {}]
    /\ active' = CHOOSE g \in Gateways : TRUE
    /\ To("asks")
    /\ late' = {} /\ chunk' = 1 /\ uri' = {} /\ reruns' = 0
    /\ UNCHANGED root
    /\ NextOp
    /\ UNCHANGED <<waitVars, processVars, box>>
    /\ UNCHANGED <<kind, config, again, saved, secret, shared, voter>>

\* launchNewVote reads the height of one gateway, ...
ChooseStart(g) ==
    /\ Op = "launch" /\ start = 0
    /\ start' = Plus(view[g], StartDelay)
    /\ UNCHANGED <<waitVars, registerVars, programVars, since, keysAt, ended, enrolled, box>>

\* ... and creates the process, in the contract or through the oracle, which may
\* take its time to bring it into the chain.
CreateProcess ==
    /\ Op = "launch" /\ start # 0
    /\ since' \in NextBlock..Plus(Top, OracleBlocks)
    /\ NextOp
    /\ UNCHANGED <<waitVars, registerVars, start, keysAt, ended, enrolled, box>>
    /\ UNCHANGED <<kind, config, again, saved, secret, shared, voter>>

\* The key keepers publish the encryption keys of the process.
PublishKeys ==
    /\ Launch.sealed /\ since # 0 /\ since <= Top /\ keysAt = 0
    /\ keysAt' = NextBlock
    /\ UNCHANGED <<waitVars, registerVars, programVars, start, since, ended, enrolled, box>>

\* The waits of the program, each a call of the waiters of voting/src/util.
BeginWait(g) ==
    /\ \/ Op = "present"  /\ Begin(NextBlock)
       \/ Op = "started"  /\ Begin(start)
       \/ Op = "received" /\ Begin(Plus(view[g], 2))
       \/ Op = "untilEnd" /\ Begin(MaxHeight)
       \/ Op = "ready"    /\ Begin(Plus(view[g], 3))
       \/ Op = "wait"     /\ Begin(Plus(Top, 2))
    /\ UNCHANGED <<registerVars, roundVars>>

WaitEnds == (Resolve \/ Reject) /\ UNCHANGED <<registerVars, roundVars>>

\* Blocks are counted from the moment at which the start is chosen.
Grow(g) == start # 0 /\ NewBlock(g) /\ UNCHANGED <<registerVars, roundVars>>

\* Mutant of LookForProcess: there is no last attempt.
LookForProcessUnbounded(g) ==
    /\ Op = "present" /\ phase = "resolved"
    /\ ResetWaiter
    /\ \/ Visible(since, g) /\ NextOp /\ saved' = TRUE
       \/ left' = left - 1 /\ UNCHANGED <<op, saved>>
    /\ UNCHANGED <<registerVars, processVars, box>>
    /\ UNCHANGED <<kind, config, again, secret, shared, voter>>

\* Mutant of LookForProcess: attempts are not counted.
LookForProcessForever(g) ==
    /\ Op = "present" /\ phase = "resolved"
    /\ ResetWaiter
    /\ \/ Visible(since, g) /\ NextOp /\ saved' = TRUE
       \/ UNCHANGED <<op, left, saved>>
    /\ UNCHANGED <<registerVars, processVars, box>>
    /\ UNCHANGED <<kind, config, again, secret, shared, voter>>

\* waitUntilPresent: an error is no different from a process that is not
\* there.  The id is written to a file when launchNewVote has found it.
LookForProcess(g) ==
    /\ Op = "present" /\ phase = "resolved"
    /\ ResetWaiter
    /\ \/ Visible(since, g) /\ NextOp /\ saved' = TRUE
       \/ left > 0 /\ left' = left - 1 /\ UNCHANGED <<op, saved>>
    /\ UNCHANGED <<registerVars, processVars, box>>
    /\ UNCHANGED <<kind, config, again, secret, shared, voter>>

\* waitUntilStarted: the state that some gateway gives has to be READY.
LookForStart(g) ==
    /\ Op = "started" /\ phase = "resolved"
    /\ Visible(since, g) /\ ~Ended(g)
    /\ ResetWaiter
    /\ NextOp
    /\ UNCHANGED <<registerVars, processVars, box>>
    /\ UNCHANGED <<kind, config, again, saved, secret, shared, voter>>

\* registerVoterKeys: all at once, each key made up and kept in memory.
RegisterVoterKey(v) ==
    /\ Op = "register" /\ ~secret[v]
    /\ v \in root
    /\ secret' = [secret EXCEPT ![v] = TRUE]
    /\ enrolled' = [enrolled EXCEPT ![v] = NextBlock]
    /\ IF \A w \in Voters : secret'[w] THEN NextOp ELSE UNCHANGED <<op, left>>
    /\ UNCHANGED <<waitVars, registerVars, start, since, keysAt, ended, box>>
    /\ UNCHANGED <<kind, config, again, saved, shared, voter>>

-----------------------------------------------------------------------------
\* What submitVotes reads once for all voters, from any gateway: the state for
\* the inputs of the proofs, the state for the siblings, the encryption keys.
\* A process without keys yet yields an empty list, which is no error.
ReadShared(g) ==
    /\ Op = "submit" /\ left <= Len(Submit.reads)
    /\ left' = left + 1
    /\ shared' = CASE Submit.reads[left] = "keys" ->
                          [shared EXCEPT !.keys = Launch.sealed /\ Visible(keysAt, g)]
                   [] Submit.reads[left] = "inputs" ->
                          [shared EXCEPT !.inputs = Enrolled(g)]
                   [] Submit.reads[left] = "root" ->
                          [shared EXCEPT !.root = Enrolled(g)]
    /\ UNCHANGED <<waitVars, registerVars, processVars, box>>
    /\ UNCHANGED <<kind, config, again, saved, op, secret, voter>>

Voting == Op = "submit" /\ left > Len(Submit.reads)

\* The nullifier: of the address, or of a secret key or a wallet that the
\* program makes up for the voter, another one in each run.
Ballot(v) == <<v, IF Submit.ballot # "address" /\ again THEN 1 ELSE 0>>

CanProve(v) ==
    CASE Submit.ballot = "secret" ->
             secret[v] /\ v \in shared.root /\ shared.root = shared.inputs
      [] Submit.ballot # "secret" /\ Launch.source = "census" -> v \in root
      [] OTHER -> TRUE

\* The census proof of a voter is fetched, or computed and verified.
Prove(v) ==
    /\ Voting /\ voter[v] = "todo"
    /\ CanProve(v)
    /\ voter' = [voter EXCEPT ![v] = "proved"]
    /\ UNCHANGED <<waitVars, registerVars, processVars, box>>
    /\ UNCHANGED <<kind, config, again, saved, op, left, secret, shared>>

\* A gateway that sees the process run takes the envelope; one more with the
\* same nullifier changes nothing.
Accepts(g) == Visible(since, g) /\ view[g] >= start /\ ~Ended(g)
BoxWith(v) == [box EXCEPT ![Ballot(v)] = IF @ = 0 THEN NextBlock ELSE @]

SendEnvelope(v, g) ==
    /\ Voting /\ voter[v] = "proved"
    /\ Accepts(g)
    /\ box' = BoxWith(v)
    /\ voter' = [voter EXCEPT ![v] = "sent"]
    /\ UNCHANGED <<waitVars, registerVars, processVars>>
    /\ UNCHANGED <<kind, config, again, saved, op, left, secret, shared>>

\* The answer is lost: the pool sends the envelope to another gateway.
EnvelopeAnswerLost(v, g) ==
    /\ Voting /\ voter[v] = "proved"
    /\ Accepts(g)
    /\ box' = BoxWith(v)
    /\ UNCHANGED <<waitVars, registerVars, processVars, programVars>>

\* Mutant of CheckEnvelope: the program does not wait for all voters.
CheckEnvelopeFirst(v, g) ==
    /\ Voting /\ voter[v] = "sent"
    /\ StopOnError => Visible(box[Ballot(v)], g)
    /\ voter' = [voter EXCEPT ![v] = "checked"]
    /\ NextOp /\ config' \in BOOLEAN
    /\ UNCHANGED <<waitVars, registerVars, processVars, box>>
    /\ UNCHANGED <<kind, again, saved, secret, shared>>

\* getEnvelopeStatus, eleven seconds later: it should be registered by now.
CheckEnvelope(v, g) ==
    /\ Voting /\ voter[v] = "sent"
    /\ StopOnError => Visible(box[Ballot(v)], g)
    /\ voter' = [voter EXCEPT ![v] = "checked"]
    /\ IF \A w \in Voters : voter'[w] = "checked"
         THEN NextOp /\ config' \in BOOLEAN
         ELSE UNCHANGED <<op, left, config>>
    /\ UNCHANGED <<waitVars, registerVars, processVars, box>>
    /\ UNCHANGED <<kind, again, saved, secret, shared>>

-----------------------------------------------------------------------------
\* checkVoteResults: after a wait the number of envelopes has to be right
\* before the process is ended; the other waits are only waited for.
AfterWait(g) ==
    /\ Op \in {"received", "untilEnd", "ready", "wait"} /\ phase = "resolved"
    /\ Op = "received" => Counted(g) = Cardinality(Voters)
    /\ ResetWaiter
    /\ NextOp
    /\ UNCHANGED <<registerVars, processVars, box>>
    /\ UNCHANGED <<kind, config, again, saved, secret, shared, voter>>

\* The process is ended, unless it is, and EthWaiter.wait(12).
EndProcess ==
    /\ Op = "end"
    /\ ended' = IF ended = 0 THEN NextBlock ELSE ended
    /\ NextOp
    /\ UNCHANGED <<waitVars, registerVars, start, since, keysAt, enrolled, box>>
    /\ UNCHANGED <<kind, config, again, saved, secret, shared, voter>>

\* Mutant of TallyIsRight: more votes than voters are taken.
TallyAtLeast(g, h) ==
    /\ Launch.sealed => Ended(g)
    /\ Counted(g) >= Cardinality(Voters)
    /\ Counted(h) >= Cardinality(Voters)

\* The results of one gateway, the number of envelopes of another.
TallyIsRight(g, h) ==
    /\ Launch.sealed => Ended(g)
    /\ Counted(g) = Cardinality(Voters)
    /\ Counted(h) = Cardinality(Voters)

Tally(g, h) ==
    /\ Op = "tally"
    /\ TallyIsRight(g, h)
    /\ NextOp
    /\ UNCHANGED <<waitVars, registerVars, processVars, box>>
    /\ UNCHANGED <<kind, config, again, saved, secret, shared, voter>>

-----------------------------------------------------------------------------
\* main() rejects: a request fails, or a wait, or one of the checks that are
\* guards above.
RoundFails ==
    /\ Op \notin {"failed", "done"} /\ phase # "waiting"
    /\ op' = 0 /\ left' = 0
    /\ ForgetAll
    /\ UNCHANGED <<registerVars, processVars, box, kind, again, saved>>

\* The program is stopped, or has failed, and is started again with the
\* process and the accounts that it has saved; secret keys are not among them.
Restart ==
    /\ saved /\ ~again /\ Op # "done"
    /\ again' = TRUE
    /\ op' = 1
    /\ ForgetAll
    /\ UNCHANGED <<registerVars, processVars, box, kind, saved>>
    /\ left' = LeftAt(1)'

RoundOver ==
    /\ Op \in {"failed", "done"}
    /\ UNCHANGED allVars

\* The steps that the program takes when its requests are answered.
Progress ==
    \/ EnsureEntityMetadata \/ CreateProcess \/ EndProcess \/ RoundFails
    \/ \E g \in Gateways :
          \/ ChooseStart(g) \/ BeginWait(g)
          \/ LookForProcess(g) \/ LookForStart(g) \/ ReadShared(g) \/ AfterWait(g)
          \/ \E v \in Voters : SendEnvelope(v, g) \/ CheckEnvelope(v, g)
          \/ \E h \in Gateways : Tally(g, h)
    \/ \E v \in Voters : RegisterVoterKey(v) \/ Prove(v)

RoundNext ==
    \/ Progress
    \/ RegisterCensus \/ CensusReady \/ PublishKeys
    \/ \E g \in Gateways : Grow(g) \/ \E v \in Voters : EnvelopeAnswerLost(v, g)
    \/ WaitEnds
    \/ Restart \/ RoundOver

RoundSpec == RoundInit /\ [][RoundNext]_allVars

\* The chain grows, and requests and waits end.
FairRound ==
    /\ RoundSpec
    /\ WF_allVars(Progress)
    /\ \A g \in Gateways : WF_allVars(Grow(g))
    /\ WF_allVars(WaitEnds)

-----------------------------------------------------------------------------
(***************************************************************************)
(* Properties                                                              *)
(***************************************************************************)

\* If the keys of an encrypted process are known two lags before it starts, no
\* voter packs a vote in clear text (an empty list of keys makes
\* packageVoteContent do so): the wait for the start may end one lag early,
\* and the gateway that is asked for the keys may lag once more.
SealedIfKeysEarly ==
    /\ Voting
    /\ Launch.sealed
    /\ keysAt # 0 /\ keysAt + 2 * MaxLag <= start
    => shared.keys

\* The same for the registered keys of anonymous voters: siblings and inputs
\* of their proofs then come from one root, that has every voter.
OneRootIfEnrolledEarly ==
    /\ Voting
    /\ Submit.ballot = "secret"
    /\ \A v \in Voters : enrolled[v] # 0 /\ enrolled[v] + 2 * MaxLag <= start
    => shared.root = Voters /\ shared.inputs = Voters

\* A process is ended only with a vote of every voter in the chain.  What is
\* counted before is the number of envelopes, which may be right without: when
\* the program starts again, some voters may have two.
EndedWithAllVotes ==
    ended # 0 => \A v \in Voters : \E i \in {0, 1} : box[<<v, i>>] \in 1..ended

\* A round ends well with exactly one ballot of every voter.  A program that
\* makes up wallets again may be deceived by a gateway that does not show all
\* ballots yet, so that for it the gateways have to agree.
ExactlyOne ==
    \A v \in Voters : Cardinality({ i \in {0, 1} : box[<<v, i>>] # 0 }) = 1
AllShown ==
    \A g \in Gateways, b \in Ballots : box[b] # 0 => Visible(box[b], g)
DoneIsExact ==
    [][/\ Op = "tally" /\ Op' = "done"
       /\ again /\ Submit.ballot = "random" => AllShown
       => ExactlyOne]_allVars

\* Once the process is created the program comes to an end.
RoundEnds == since # 0 ~> Op \in {"failed", "done"}
=============================================================================
