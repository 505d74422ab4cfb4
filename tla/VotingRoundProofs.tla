------------------------- MODULE VotingRoundProofs -------------------------
(***************************************************************************)
(* Theorems about VotingRound and the census registration within it, for   *)
(* any voters, gateways, lag, chunks and any of the programs.              *)
(*                                                                         *)
(* The registration needs its own invariant (CensusInv): what a step       *)
(* leaves on the one gateway that has the census.  The round follows the   *)
(* program (ProgramOrder): where it stands tells what it has waited for,   *)
(* what it has read, and which ballots were cast.                          *)
(***************************************************************************)
EXTENDS VotingRound, FiniteSetTheorems, WellFoundedInduction, TLAPS

Unique == \A g, h \in Gateways : Has(g) /\ Has(h) => g = h

\* A census is somewhere before claims are added, and the chunks are counted.
StepsInOrder ==
    /\ step \in {"asks", "adds", "asksNew"} => chunk = 1
    /\ step = "claims" => chunk <= Chunks
    /\ step \in {"claims", "root", "publishes", "counts", "ready"} =>
          \E g \in Gateways : Has(g)

\* While there is one copy, it has what was added, and the root and the tree
\* were those of it.
CopyInv ==
    Unique =>
        /\ step = "claims" =>
              \A g \in Gateways : Has(g) => 1..(chunk - 1) \subseteq stores[g]
        /\ step \in {"root", "publishes", "counts", "ready"} =>
              \A g \in Gateways : Has(g) => Claims \subseteq stores[g]
        /\ step \in {"publishes", "counts", "ready"} => root = Claims
        /\ step \in {"counts", "ready"} => uri = Claims

CensusInv ==
    /\ CensusTypeOK
    /\ StepsInOrder
    /\ CopyInv
    /\ ReadyIsStored

-----------------------------------------------------------------------------
(***************************************************************************)
(* The census.                                                             *)
(***************************************************************************)

LEMMA ConstantsAreTyped ==
    /\ Chunks \in Nat \ {0} /\ MaxLag \in Nat /\ MaxHeight \in Nat
    /\ MaxReruns \in Nat /\ Attempts \in Nat /\ OracleBlocks \in Nat
    /\ StartDelay \in Nat /\ 0 < StartDelay /\ StartDelay < MaxHeight
    /\ IsFiniteSet(Gateways) /\ Gateways # {}
    /\ Voters \subseteq 1..Chunks /\ Kinds \subseteq Programs
<1>1. Attempts \in {Attempts, MaxReruns} /\ MaxReruns \in {Attempts, MaxReruns}
  OBVIOUS
<1> QED
  BY <1>1, RoundAssumption, BlockWaitAssumption DEF RoundAssumption, BlockWaitAssumption

\* A count of at most one is what Unique says.
LEMMA OneCopyIsUnique == OneCopy => Unique
<1> SUFFICES ASSUME OneCopy, NEW g \in Gateways, NEW h \in Gateways,
                    Has(g), Has(h), g # h
             PROVE  FALSE
  BY DEF Unique
<1> DEFINE S == { k \in Gateways : Has(k) }
<1>1. IsFiniteSet(S)
  BY ConstantsAreTyped, FS_Subset
<1>2. IsFiniteSet({g}) /\ Cardinality({g}) = 1 /\ h \notin {g}
  BY FS_Singleton
<1>3. Cardinality({g} \cup {h}) = 2
  BY <1>2, FS_AddElement
<1>4. {g} \cup {h} \in SUBSET S
  OBVIOUS
<1>5. Cardinality({g} \cup {h}) <= Cardinality(S) /\ Cardinality(S) \in Nat
  BY <1>1, <1>4, FS_Subset, FS_CardinalityType
<1> QED BY <1>3, <1>5 DEF OneCopy

LEMMA CensusStart == CensusInit => CensusInv
BY ConstantsAreTyped
   DEF CensusInit, CensusInv, CensusTypeOK, StepsInOrder, CopyInv, ReadyIsStored,
       Pieces, Claims

\* The gateways keep what they have, and one that is first to have the census
\* gets it by a request that creates it.
LEMMA StoresGrow ==
    ASSUME CensusTypeOK, NEW g \in Gateways, NEW pieces \in SUBSET Pieces,
           Stored(g, pieces)
    PROVE  /\ stores' \in [Gateways -> SUBSET Pieces]
           /\ \A h \in Gateways : stores[h] \subseteq stores'[h]
           /\ pieces \subseteq stores'[g]
           /\ Unique' => Unique
           /\ \A h \in Gateways : Has(h) => Has(h)'
           /\ 0 \notin pieces => \A h \in Gateways : Has(h)' => Has(h)
BY DEF CensusTypeOK, Stored, Unique, Has

\* A gateway that gets the census late is the one that has it, or one more.
LEMMA LateCopy ==
    ASSUME CensusInv, NEW g \in Gateways, Stored(g, {0}),
           UNCHANGED <<step, chunk, root, uri>>
    PROVE  StepsInOrder' /\ CopyInv' /\ ReadyIsStored'
<1>1. {0} \in SUBSET Pieces
  BY ConstantsAreTyped DEF Pieces
<1>2. /\ \A h \in Gateways : stores[h] \subseteq stores'[h]
      /\ Unique' => Unique
      /\ \A h \in Gateways : Has(h) => Has(h)'
  BY <1>1, StoresGrow DEF CensusInv
<1>3. StepsInOrder'
  BY <1>2 DEF CensusInv, StepsInOrder
<1>4. ReadyIsStored'
  BY <1>2 DEF CensusInv, ReadyIsStored
<1>5. ASSUME Unique', step \in {"claims", "root", "publishes", "counts", "ready"},
             NEW h \in Gateways, Has(h)'
      PROVE  Has(h)
  <2>1. PICK k \in Gateways : Has(k)
    BY <1>5 DEF CensusInv, StepsInOrder
  <2> QED BY <1>2, <1>5, <2>1 DEF Unique
<1>6. CopyInv'
  BY <1>2, <1>5 DEF CensusInv, CopyInv
<1> QED BY <1>3, <1>4, <1>6

\* A request that is repeated, or that fails for good.
LEMMA RepeatedStep ==
    ASSUME CensusTypeOK, Repeated
    PROVE  /\ active' \in Gateways /\ tried' \subseteq Gateways
           /\ step' = step \/ step' = "failed"
BY DEF CensusTypeOK, Repeated, To

LEMMA CensusStep == CensusInv /\ CensusNext => CensusInv'
<1> SUFFICES ASSUME CensusInv, CensusNext PROVE CensusInv'
  OBVIOUS
<1> USE ConstantsAreTyped
<1>a. CensusTypeOK /\ stores \in [Gateways -> SUBSET Pieces] /\ active \in Gateways
  BY DEF CensusInv, CensusTypeOK
<1>b. /\ {0} \in SUBSET Pieces /\ {1} \in SUBSET Pieces
      /\ chunk <= Chunks => {chunk} \in SUBSET Pieces
  BY <1>a DEF CensusTypeOK, Pieces
<1>1. CASE ShiftByOther
  BY <1>1 DEF ShiftByOther, CensusInv, CensusTypeOK, StepsInOrder, CopyInv,
              ReadyIsStored, Unique, Has
<1>2. ASSUME NEW g \in Gateways, ExecutesLate(g) PROVE CensusInv'
  <2>1. stores' \in [Gateways -> SUBSET Pieces]
    BY <1>2, <1>a, <1>b, StoresGrow DEF ExecutesLate
  <2>2. CensusTypeOK'
    BY <1>2, <1>a, <2>1 DEF ExecutesLate, CensusTypeOK
  <2> QED BY <1>2, <2>2, LateCopy DEF ExecutesLate, CensusInv
<1>3. CASE AskRoot
  BY <1>3 DEF AskRoot, To, CensusInv, CensusTypeOK, StepsInOrder, CopyInv,
              ReadyIsStored, Unique, Has
<1>4. CASE AddCensus
  <2>1. CASE Stored(active, {0}) /\ To("asksNew") /\ UNCHANGED <<active, late>>
    <3>1. stores' \in [Gateways -> SUBSET Pieces]
      BY <1>a, <1>b, <2>1, StoresGrow
    <3> QED
      BY <1>4, <2>1, <3>1
         DEF AddCensus, To, CensusInv, CensusTypeOK, StepsInOrder, CopyInv, ReadyIsStored
  <2>2. CASE Repeated /\ late' = late \cup {active} /\ UNCHANGED stores
    BY <1>4, <1>a, <2>2, RepeatedStep
       DEF AddCensus, CensusInv, CensusTypeOK, StepsInOrder, CopyInv, ReadyIsStored
  <2>3. CASE To("failed") /\ UNCHANGED <<stores, active, late>>
    BY <1>4, <2>3
       DEF AddCensus, To, CensusInv, CensusTypeOK, StepsInOrder, CopyInv, ReadyIsStored
  <2> QED BY <1>4, <2>1, <2>2, <2>3 DEF AddCensus
<1>5. CASE AskNewRoot
  BY <1>5 DEF AskNewRoot, To, CensusInv, CensusTypeOK, StepsInOrder, CopyInv,
              ReadyIsStored, Unique, Has
<1>6. CASE AddClaim
  <2>1. CASE /\ Has(active) /\ Stored(active, {1}) /\ chunk' = 2
             /\ To(IF Chunks = 1 THEN "root" ELSE "claims") /\ UNCHANGED active
    <3>1. /\ stores' \in [Gateways -> SUBSET Pieces] /\ 1 \in stores'[active]
          /\ \A h \in Gateways : Has(h) => Has(h)'
          /\ \A h \in Gateways : Has(h)' => Has(h)
      BY <1>a, <1>b, <2>1, StoresGrow
    <3>2. CensusTypeOK'
      BY <1>6, <2>1, <3>1 DEF AddClaim, To, CensusInv, CensusTypeOK
    <3>3. ASSUME Unique', NEW h \in Gateways, Has(h)' PROVE 1 \in stores'[h]
      BY <1>a, <2>1, <3>1, <3>3 DEF Unique
    <3>4. StepsInOrder' /\ ReadyIsStored'
      BY <1>a, <1>6, <2>1, <3>1 DEF AddClaim, To, StepsInOrder, ReadyIsStored
    <3>5. CopyInv'
      BY <1>6, <2>1, <3>3 DEF AddClaim, To, CopyInv, Claims
    <3> QED BY <3>2, <3>4, <3>5 DEF CensusInv
  <2>2. CASE /\ Repeated /\ UNCHANGED chunk
             /\ \/ Has(active) /\ Stored(active, {1})
                \/ UNCHANGED stores
    <3>1. /\ stores' \in [Gateways -> SUBSET Pieces]
          /\ \A h \in Gateways : Has(h) => Has(h)'
      BY <1>a, <1>b, <2>2, StoresGrow DEF Has
    <3>2. CensusTypeOK'
      BY <1>6, <1>a, <2>2, <3>1, RepeatedStep DEF AddClaim, CensusTypeOK
    <3>3. step' = "claims" \/ step' = "failed"
      BY <1>6, <1>a, <2>2, RepeatedStep DEF AddClaim
    <3>4. StepsInOrder' /\ ReadyIsStored'
      BY <1>6, <2>2, <3>1, <3>3 DEF AddClaim, CensusInv, StepsInOrder, ReadyIsStored
    <3>5. CopyInv'
      BY <1>6, <2>2, <3>3 DEF AddClaim, CopyInv
    <3> QED BY <3>2, <3>4, <3>5 DEF CensusInv
  <2>3. CASE To("failed") /\ UNCHANGED <<stores, active, chunk>>
    BY <1>6, <2>3
       DEF AddClaim, To, CensusInv, CensusTypeOK, StepsInOrder, CopyInv, ReadyIsStored
  <2> QED BY <1>6, <2>1, <2>2, <2>3 DEF AddClaim
<1>7. CASE AddClaimChunk
  <2>0. chunk \in 1..Chunks
    BY <1>7 DEF AddClaimChunk, CensusInv, CensusTypeOK, StepsInOrder
  <2>1. CASE /\ Has(active) /\ Stored(active, {chunk}) /\ chunk' = chunk + 1
             /\ To(IF chunk = Chunks THEN "root" ELSE "claims")
    <3>1. /\ stores' \in [Gateways -> SUBSET Pieces] /\ chunk \in stores'[active]
          /\ \A h \in Gateways : stores[h] \subseteq stores'[h]
          /\ Unique' => Unique
          /\ \A h \in Gateways : Has(h) => Has(h)'
          /\ \A h \in Gateways : Has(h)' => Has(h)
      BY <1>a, <1>b, <2>0, <2>1, StoresGrow
    <3>2. CensusTypeOK'
      BY <1>7, <2>0, <2>1, <3>1 DEF AddClaimChunk, To, CensusInv, CensusTypeOK
    <3>3. ASSUME Unique', NEW h \in Gateways, Has(h)'
          PROVE  1..chunk \subseteq stores'[h]
      <4>1. h = active
        BY <1>a, <2>1, <3>1, <3>3 DEF Unique
      <4>2. 1..(chunk - 1) \subseteq stores[active]
        BY <1>7, <1>a, <2>1, <3>1, <3>3 DEF AddClaimChunk, CensusInv, CopyInv
      <4> QED BY <1>a, <2>0, <3>1, <4>1, <4>2
    <3>4. StepsInOrder' /\ ReadyIsStored'
      BY <1>a, <1>7, <2>0, <2>1, <3>1 DEF AddClaimChunk, To, StepsInOrder, ReadyIsStored
    <3>5. CopyInv'
      BY <1>7, <2>0, <2>1, <3>3 DEF AddClaimChunk, To, CopyInv, Claims
    <3> QED BY <3>2, <3>4, <3>5 DEF CensusInv
  <2>2. CASE /\ To("failed") /\ UNCHANGED chunk
             /\ \/ Has(active) /\ Stored(active, {chunk})
                \/ UNCHANGED stores
    <3>1. stores' \in [Gateways -> SUBSET Pieces]
      BY <1>a, <1>b, <2>0, <2>2, StoresGrow
    <3> QED
      BY <1>7, <2>2, <3>1
         DEF AddClaimChunk, To, CensusInv, CensusTypeOK, StepsInOrder, CopyInv, ReadyIsStored
  <2> QED BY <1>7, <2>1, <2>2 DEF AddClaimChunk
<1>8. CASE ReadRoot
  <2>1. CASE Has(active) /\ root' = stores[active] \ {0} /\ To("publishes")
    <3>1. stores[active] \ {0} \subseteq Claims
      BY <1>a DEF Pieces, Claims
    <3>2. Unique => Claims \subseteq stores[active]
      BY <1>8, <1>a, <2>1 DEF ReadRoot, CensusInv, CopyInv
    <3>3. Unique => root' = Claims
      BY <2>1, <3>1, <3>2 DEF Claims
    <3> QED
      BY <1>8, <2>1, <3>1, <3>3
         DEF ReadRoot, To, CensusInv, CensusTypeOK, StepsInOrder, CopyInv,
             ReadyIsStored, Unique, Has
  <2>2. CASE To("failed") /\ UNCHANGED root
    BY <1>8, <2>2
       DEF ReadRoot, To, CensusInv, CensusTypeOK, StepsInOrder, CopyInv, ReadyIsStored
  <2> QED BY <1>8, <2>1, <2>2 DEF ReadRoot
<1>9. CASE PublishCensus
  <2>1. CASE /\ Has(active) /\ uri' = stores[active] \ {0} /\ To("counts")
             /\ UNCHANGED active
    <3>1. stores[active] \ {0} \subseteq Claims
      BY <1>a DEF Pieces, Claims
    <3>2. Unique => Claims \subseteq stores[active]
      BY <1>9, <1>a, <2>1 DEF PublishCensus, CensusInv, CopyInv
    <3>3. Unique => uri' = Claims
      BY <2>1, <3>1, <3>2 DEF Claims
    <3> QED
      BY <1>9, <2>1, <3>1, <3>3
         DEF PublishCensus, To, CensusInv, CensusTypeOK, StepsInOrder, CopyInv,
             ReadyIsStored, Unique, Has
  <2>2. CASE Repeated /\ UNCHANGED uri
    BY <1>9, <1>a, <2>2, RepeatedStep
       DEF PublishCensus, CensusInv, CensusTypeOK, StepsInOrder, CopyInv,
           ReadyIsStored, Unique, Has
  <2>3. CASE To("failed") /\ UNCHANGED <<active, uri>>
    BY <1>9, <2>3
       DEF PublishCensus, To, CensusInv, CensusTypeOK, StepsInOrder, CopyInv, ReadyIsStored
  <2> QED BY <1>9, <2>1, <2>2, <2>3 DEF PublishCensus
<1>10. CASE GetSize
  <2>1. CASE /\ Has(active)
             /\ To(IF StopOnError => Claims \subseteq stores[active]
                   THEN "ready" ELSE "failed")
             /\ UNCHANGED active
    BY <1>10, <1>a, <2>1
       DEF GetSize, To, CensusInv, CensusTypeOK, StepsInOrder, CopyInv,
           ReadyIsStored, Unique, Has
  <2>2. CASE Repeated
    BY <1>10, <1>a, <2>2, RepeatedStep
       DEF GetSize, CensusInv, CensusTypeOK, StepsInOrder, CopyInv,
           ReadyIsStored, Unique, Has
  <2>3. CASE To("failed") /\ UNCHANGED active
    BY <1>10, <2>3
       DEF GetSize, To, CensusInv, CensusTypeOK, StepsInOrder, CopyInv, ReadyIsStored
  <2> QED BY <1>10, <2>1, <2>2, <2>3 DEF GetSize
<1>11. CASE Rerun
  BY <1>11 DEF Rerun, To, CensusInv, CensusTypeOK, StepsInOrder, CopyInv, ReadyIsStored
<1> QED
  BY <1>1, <1>2, <1>3, <1>4, <1>5, <1>6, <1>7, <1>8, <1>9, <1>10, <1>11 DEF CensusNext

LEMMA CensusSame == CensusInv /\ UNCHANGED registerVars => CensusInv'
BY DEF registerVars, CensusInv, CensusTypeOK, StepsInOrder, CopyInv, ReadyIsStored,
       Unique, Has

-----------------------------------------------------------------------------
(***************************************************************************)
(* The programs.                                                           *)
(***************************************************************************)

Waits == {"present", "started", "received", "untilEnd", "ready", "wait"}
Counting == {"received", "untilEnd", "end", "ready", "wait", "tally"}
Operations ==
    Counting \cup {"entity", "census", "launch", "present", "register", "started", "submit"}

ProgramKnown == kind \in Programs /\ again \in BOOLEAN /\ config \in BOOLEAN

\* Voters vote right after the wait for the start, the count follows them, and
\* what is counted does not move where they vote.  Keys are registered in the
\* first run only.
ProgramInOrder ==
    /\ Len(Program) \in Nat /\ Len(Main) \in Nat /\ Len(Main) < Len(Program)
    /\ DOMAIN Program = 1..Len(Program)
    /\ Program[1] \in {"entity", "launch", "present"}
    /\ Program[Len(Main) + 1] \in Counting
    /\ \A i \in 1..Len(Program) :
          /\ Program[i] \in Operations
          /\ Program[i] = "submit" =>
                i = Len(Main) /\ i > 1 /\ Program[i - 1] = "started"
          /\ Program[i] \in Counting =>
                i > 1 /\ Program[i - 1] \in Counting \cup {"submit"}
          /\ Program[i] = "tally" <=> i = Len(Program)
          /\ Program[i] = "register" => ~again

LEMMA ProgramOrder == ProgramKnown => ProgramInOrder
<1> SUFFICES ASSUME ProgramKnown PROVE ProgramInOrder
  OBVIOUS
<1>a. (again = TRUE \/ again = FALSE) /\ (config = TRUE \/ config = FALSE)
  BY DEF ProgramKnown
<1> USE DEF ProgramInOrder, Program, Main, Check, Operations, Counting
<1>1. CASE kind = "signed-off-chain"
  BY <1>1, <1>a DEF SignedOffChainMain, SignedOffChainCheck
<1>2. CASE kind = "anonymous-off-chain"
  <2>1. CASE again = TRUE
    BY <1>2, <1>a, <2>1 DEF AnonymousMain, AnonymousCheck
  <2>2. CASE again = FALSE
    BY <1>2, <1>a, <2>2 DEF AnonymousMain, AnonymousCheck
  <2> QED BY <1>a, <2>1, <2>2
<1>3. CASE kind = "signed-blind"
  BY <1>3, <1>a DEF BlindMain, BlindCheck
<1>4. CASE kind = "signed-erc20"
  BY <1>4, <1>a DEF Erc20Main, Erc20Check
<1>5. CASE kind = "signed-erc20-signal"
  BY <1>5, <1>a DEF SignalMain, SignalCheck
<1> QED BY <1>1, <1>2, <1>3, <1>4, <1>5 DEF ProgramKnown, Programs

LEMMA ProgramOrderNext == ProgramKnown' => ProgramInOrder'
BY ProgramOrder, PTL

\* A program has a first operation, at which nobody waits for the start, votes
\* or counts.
ProgramHasFirst ==
    /\ Len(Program) \in Nat
    /\ 0 \notin DOMAIN Program
    /\ 1 \in DOMAIN Program
    /\ Program[1] \in {"entity", "launch", "present"}

LEMMA ProgramFirst == ProgramKnown => ProgramHasFirst
<1> SUFFICES ASSUME ProgramKnown PROVE ProgramHasFirst
  OBVIOUS
<1>1. /\ Len(Program) \in Nat /\ Len(Main) \in Nat /\ Len(Main) < Len(Program)
      /\ DOMAIN Program = 1..Len(Program)
      /\ Program[1] \in {"entity", "launch", "present"}
  BY ProgramOrder DEF ProgramInOrder
<1> QED BY <1>1 DEF ProgramHasFirst

LEMMA ProgramFirstNext == ProgramKnown' => ProgramHasFirst'
BY ProgramFirst, PTL

\* What a program reads for its voters, and how it makes their ballots.
LEMMA SubmitIsKnown ==
    ASSUME kind \in Programs
    PROVE  /\ Submit.reads = IF Submit.ballot = "secret"
                             THEN <<"inputs", "root", "keys">> ELSE <<"keys">>
           /\ Submit.ballot \in {"address", "secret", "random"}
           /\ Launch.sealed \in BOOLEAN
           /\ Submit.ballot = "secret" => ~Launch.sealed
BY DEF Programs, Submit, Launch,
       SignedOffChainSubmit, AnonymousSubmit, BlindSubmit, Erc20Submit, SignalSubmit,
       SignedOffChainLaunch, AnonymousLaunch, BlindLaunch, Erc20Launch, SignalLaunch

LEMMA SameKind == UNCHANGED kind => Submit' = Submit /\ Launch' = Launch
BY DEF Submit, Launch

LEMMA SamePlace ==
    UNCHANGED <<op, kind, again, config>> => Program' = Program /\ Op' = Op
BY DEF Op, Program, Main, Check

\* A program at an operation has not failed, and is not done.
LEMMA AtOperation ==
    ASSUME ProgramKnown, op \in 0..(Len(Program) + 1), Op \notin {"failed", "done"}
    PROVE  op \in DOMAIN Program /\ Op = Program[op] /\ Op \in Operations
BY ProgramOrder DEF Op, ProgramInOrder, Operations, Counting

LEMMA LeftIsTyped == \A o : LeftAt(o) \in {1, Attempts}
BY DEF LeftAt

\* Where a program gets to when it goes on.
LEMMA GoesOn ==
    ASSUME ProgramKnown, op \in DOMAIN Program, NextOp,
           kind' = kind, again' = again, config' \in BOOLEAN,
           config' = config \/ Op = "submit"
    PROVE  /\ op' \in 0..(Len(Program') + 1)
           /\ left' \in {1, Attempts}
           /\ Op' # "failed"
           /\ Op' = "submit" => Op = "started" /\ left' = 1
           /\ Op' \in Counting \cup {"done"} => Op \in Counting \cup {"submit"}
           /\ Op' = "done" => Op = "tally"
<1>1. ProgramInOrder /\ Len(Program) \in Nat
  BY ProgramOrder DEF ProgramInOrder
<1>2. /\ Len(Program') \in Nat /\ Len(Main') \in Nat /\ Len(Main') < Len(Program')
      /\ DOMAIN Program' = 1..Len(Program')
      /\ Program'[Len(Main') + 1] \in Counting
  BY ProgramOrderNext DEF ProgramKnown, ProgramInOrder
<1>3. op \in 1..Len(Program) /\ op' = op + 1 /\ Op = Program[op]
  BY <1>1 DEF ProgramInOrder, NextOp, Op
<1>4. left' \in {1, Attempts}
  BY LeftIsTyped DEF NextOp
<1>5. CASE Op = "submit"
  <2>1. op = Len(Main) /\ Main' = Main
    BY <1>1, <1>3, <1>5 DEF ProgramInOrder, Main
  <2>2. op' \in 1..Len(Program') /\ Program'[op'] \in Counting
    BY <1>2, <1>3, <2>1
  <2>3. Op' = Program'[op']
    BY <1>2, <2>2 DEF Op
  <2> QED BY <1>2, <1>4, <1>5, <2>2, <2>3 DEF Counting
<1>6. CASE config' = config
  <2>1. Program' = Program
    BY <1>6 DEF Program, Main, Check
  <2>2. op' \in 0..(Len(Program') + 1)
    BY <1>1, <1>3, <2>1
  <2>3. CASE op = Len(Program)
    <3>1. Program[op] = "tally"
      BY <1>1, <1>3, <2>3 DEF ProgramInOrder
    <3>2. Op' = "done"
      BY <1>1, <1>2, <1>3, <2>1, <2>3 DEF Op
    <3> QED BY <1>3, <1>4, <2>2, <3>1, <3>2 DEF Counting
  <2>4. CASE op + 1 \in 1..Len(Program)
    <3>1. Op' = Program[op + 1] /\ left' = LeftAt(op + 1)
      BY <1>2, <1>3, <2>1, <2>4 DEF NextOp, Op
    <3>2. \A i \in 1..Len(Program) :
             /\ Program[i] \in Operations
             /\ Program[i] = "submit" => Program[i - 1] = "started"
             /\ Program[i] \in Counting => Program[i - 1] \in Counting \cup {"submit"}
      BY <1>1 DEF ProgramInOrder
    <3>3. (op + 1) - 1 = op
      BY <1>3
    <3>4. /\ Program[op + 1] \in Operations
          /\ Program[op + 1] = "submit" => Program[op] = "started"
          /\ Program[op + 1] \in Counting => Program[op] \in Counting \cup {"submit"}
      BY <2>4, <3>2, <3>3
    <3>5. Program[op + 1] = "submit" => LeftAt(op + 1) = 1
      BY DEF LeftAt
    <3> QED BY <1>3, <1>4, <2>2, <3>1, <3>4, <3>5 DEF Operations, Counting
  <2> QED BY <1>1, <1>3, <2>3, <2>4
<1> QED BY <1>5, <1>6

-----------------------------------------------------------------------------
(***************************************************************************)
(* The invariant of a round.                                               *)
(***************************************************************************)

\* A wait belongs to the operation at hand; once it has resolved, some gateway
\* is at the height but for the lag.
WaitInv ==
    /\ phase # "idle" => Op \in Waits
    /\ phase = "resolved" => Reached
    /\ phase # "idle" /\ Op = "started" => goal = start

\* The start lies ahead of all gateways by its delay.
StartInv ==
    /\ start = 0 => \A g \in Gateways : view[g] <= MaxLag
    /\ start <= MaxLag + StartDelay

KeysEarly == Launch.sealed /\ keysAt # 0 /\ keysAt + 2 * MaxLag <= start
AllEnrolledEarly ==
    \A v \in Voters : enrolled[v] # 0 /\ enrolled[v] + 2 * MaxLag <= start

\* When voters vote no gateway is further from the start than two lags: what
\* has been read since then has all that came earlier.
SharedInv ==
    Op = "submit" =>
        /\ left \in 1..(Len(Submit.reads) + 1)
        /\ \A g \in Gateways : view[g] + 2 * MaxLag >= start
        /\ \A k \in 1..(left - 1) :
              /\ Submit.reads[k] = "keys" /\ KeysEarly => shared.keys
              /\ Submit.reads[k] = "inputs" /\ AllEnrolledEarly => shared.inputs = Voters
              /\ Submit.reads[k] = "root" /\ AllEnrolledEarly => shared.root = Voters

\* A voter who has sent an envelope has a ballot, and only a program that makes
\* up wallets again gives somebody another one: with the secret keys of the run
\* before nobody can vote in the next.
BallotInv ==
    /\ \A v \in Voters : voter[v] \in {"sent", "checked"} => box[Ballot(v)] # 0
    /\ Op \in Counting \cup {"done"} => \A v \in Voters : voter[v] = "checked"
    /\ \A v \in Voters : box[<<v, 1>>] # 0 => Submit.ballot = "random" /\ again
    /\ again /\ Submit.ballot = "secret" =>
          \A v \in Voters : ~secret[v] /\ voter[v] = "todo"

\* What is in the chain is there by the next block.
ChainInv ==
    /\ \A b \in Ballots : box[b] <= NextBlock
    /\ EndedWithAllVotes

RoundInv ==
    /\ RoundTypeOK
    /\ WithinLag(view)
    /\ CensusInv
    /\ WaitInv
    /\ StartInv
    /\ SharedInv
    /\ BallotInv
    /\ ChainInv

-----------------------------------------------------------------------------
(***************************************************************************)
(* Heights.                                                                *)
(***************************************************************************)

\* Heights in a bounded set have a highest one.
LEMMA HighestExists ==
    ASSUME NEW n \in Nat, NEW S \in SUBSET (0..n), S # {}
    PROVE  \E h \in S : \A k \in S : k <= h
<1> DEFINE Above(h) == (h + 1)..n
           All == { Above(h) : h \in S }
<1>1. IsFiniteSet(0..n)
  BY FS_Interval
<1>2. IsWellFoundedOn(StrictSubsetOrdering(0..n), SUBSET (0..n))
  BY <1>1, FS_StrictSubsetOrderingWellFounded, FS_FiniteSubsetsOfFinite
<1>3. \A h \in S : Above(h) \in SUBSET (0..n)
  OBVIOUS
<1> HIDE DEF Above
<1>4. All \in SUBSET SUBSET (0..n) /\ All # {}
  BY <1>3
<1> HIDE DEF All
<1>5. \E x \in All : \A y \in All : <<y, x>> \notin StrictSubsetOrdering(0..n)
  BY <1>2, <1>4, WFMin
<1>6. PICK h \in S : \A y \in All : <<y, Above(h)>> \notin StrictSubsetOrdering(0..n)
  BY <1>5 DEF All
<1>7. SUFFICES ASSUME NEW k \in S, k > h PROVE FALSE
  BY <1>6
<1>8. Above(k) \subseteq Above(h) /\ k \in Above(h) /\ k \notin Above(k)
  BY <1>7 DEF Above
<1>9. Above(k) \in All /\ Above(h) \in SUBSET (0..n) /\ Above(k) \in SUBSET (0..n)
  BY <1>3 DEF All
<1>10. <<Above(k), Above(h)>> \in StrictSubsetOrdering(0..n)
  BY <1>8, <1>9 DEF StrictSubsetOrdering
<1> QED BY <1>6, <1>9, <1>10

LEMMA PlusIsHeight ==
    ASSUME NEW a \in Nat, NEW b \in Nat
    PROVE  /\ Plus(a, b) \in Heights
           /\ Plus(a, b) <= a + b
           /\ Plus(a, b) < MaxHeight => Plus(a, b) = a + b
BY ConstantsAreTyped DEF Plus, Heights

\* What comes ahead of a gateway that is two lags from the start is not early.
LEMMA AheadIsLater ==
    ASSUME NEW h \in Nat, NEW k \in Nat, NEW s \in Nat, NEW lag \in Nat,
           h + 2 * lag >= s, h < k
    PROVE  ~(k + 2 * lag <= s)
OBVIOUS

\* The height of the gateways that are ahead of the others.
TopIsHighest ==
    Top \in Heights /\ (\A g \in Gateways : view[g] <= Top) /\ \E g \in Gateways : view[g] = Top

LEMMA TopIs == WaitTypeOK => TopIsHighest
<1> SUFFICES ASSUME WaitTypeOK PROVE TopIsHighest
  OBVIOUS
<1> DEFINE S == { view[g] : g \in Gateways }
<1>1. S \in SUBSET (0..MaxHeight) /\ S # {}
  BY ConstantsAreTyped DEF WaitTypeOK, Heights
<1>2. \E h \in S : \A k \in S : k <= h
  BY <1>1, HighestExists, ConstantsAreTyped
<1> DEFINE IsTop(h) == /\ \A g \in Gateways : view[g] <= h
                       /\ \E g \in Gateways : view[g] = h
<1>3. \E h \in Heights : IsTop(h)
  BY <1>1, <1>2 DEF Heights
<1>a. Top = CHOOSE h \in Heights : IsTop(h)
  BY DEF Top
<1> HIDE DEF IsTop
<1>b. Top \in Heights /\ IsTop(Top)
  BY <1>3, <1>a
<1> QED BY <1>b DEF IsTop, TopIsHighest

LEMMA TopIsNext == WaitTypeOK' => TopIsHighest'
BY TopIs, PTL

\* What comes into the next block no gateway shows yet, below the bound.
LEMMA NextBlockIsAhead ==
    ASSUME WaitTypeOK
    PROVE  /\ Top \in Heights
           /\ NextBlock \in Heights /\ NextBlock # 0
           /\ \A g \in Gateways : view[g] < NextBlock \/ NextBlock = MaxHeight
<1>4. Top \in Heights /\ \A g \in Gateways : view[g] <= Top
  BY TopIs DEF TopIsHighest
<1>5. NextBlock = IF Top + 1 < MaxHeight THEN Top + 1 ELSE MaxHeight
  BY DEF NextBlock, Plus
<1>6. view \in [Gateways -> Heights]
  BY DEF WaitTypeOK
<1> QED BY <1>4, <1>5, <1>6, ConstantsAreTyped DEF Heights

\* The next block is never one that was.
LEMMA NextBlockGrows ==
    ASSUME WaitTypeOK, WaitTypeOK', \A g \in Gateways : view[g] <= view'[g]
    PROVE  NextBlock <= NextBlock'
<1>1. PICK g \in Gateways : view[g] = Top
  BY TopIs DEF TopIsHighest
<1>2. Top \in Nat /\ Top' \in Nat /\ view'[g] <= Top' /\ view'[g] \in Nat
  BY TopIs, TopIsNext, ConstantsAreTyped DEF TopIsHighest, WaitTypeOK, Heights
<1>3. Top <= Top'
  BY <1>1, <1>2
<1>4. NextBlock = Plus(Top, 1) /\ NextBlock' = Plus(Top', 1)
  BY DEF NextBlock
<1>5. Plus(Top, 1) <= Plus(Top', 1)
  <2> DEFINE t == Top
             u == Top'
  <2>1. t \in Nat /\ u \in Nat /\ t <= u
    BY <1>2, <1>3
  <2> HIDE DEF t, u
  <2>2. Plus(t, 1) <= Plus(u, 1)
    BY <2>1, ConstantsAreTyped DEF Plus
  <2> QED BY <2>2 DEF t, u
<1> QED BY <1>4, <1>5

LEMMA NextBlockIsTyped == WaitTypeOK' => NextBlock' \in Heights
<1>1. WaitTypeOK => NextBlock \in Heights
  BY NextBlockIsAhead
<1>2. WaitTypeOK' => (NextBlock \in Heights)'
  BY <1>1, PTL
<1> QED BY <1>2 DEF Heights

LEMMA SameNextBlock == UNCHANGED view => Top' = Top /\ NextBlock' = NextBlock
BY DEF Top, NextBlock

LEMMA RoundIsTyped ==
    ASSUME RoundInv
    PROVE  /\ ProgramKnown /\ op \in 0..(Len(Program) + 1)
           /\ ProgramInOrder
           /\ view \in [Gateways -> Heights] /\ Heights \subseteq Nat
           /\ start \in Nat /\ keysAt \in Nat
           /\ Submit.reads = IF Submit.ballot = "secret"
                             THEN <<"inputs", "root", "keys">> ELSE <<"keys">>
<1>1. ProgramKnown
  BY ConstantsAreTyped DEF RoundInv, RoundTypeOK, ProgramKnown
<1>2. Heights \subseteq Nat
  BY ConstantsAreTyped DEF Heights
<1> QED
  BY <1>1, <1>2, ProgramOrder, SubmitIsKnown
     DEF RoundInv, RoundTypeOK, WaitTypeOK, ProgramKnown

-----------------------------------------------------------------------------
(***************************************************************************)
(* The initial states, and steps that change little.                       *)
(***************************************************************************)

LEMMA RoundStart == RoundInit => RoundInv
<1> SUFFICES ASSUME RoundInit PROVE RoundInv
  OBVIOUS
<1> USE ConstantsAreTyped
<1>1. ProgramKnown
  BY DEF RoundInit, ProgramKnown
<1>2. ProgramHasFirst /\ op = 1
  BY <1>1, ProgramFirst DEF RoundInit
<1>a. Op \in {"entity", "launch", "present"}
  BY <1>2 DEF ProgramHasFirst, Op
<1>3. /\ Submit.reads = IF Submit.ballot = "secret"
                        THEN <<"inputs", "root", "keys">> ELSE <<"keys">>
  BY <1>1, SubmitIsKnown DEF ProgramKnown
<1>4. left \in 0..(Attempts + Len(Submit.reads) + 1)
  BY <1>3, LeftIsTyped DEF RoundInit
<1>5. WaitTypeOK /\ WithinLag(view)
  BY DEF RoundInit, WaitInit, WaitTypeOK, Heights
<1>6. CensusInv
  BY CensusStart DEF RoundInit
<1>7. RoundTypeOK
  <2>1. op \in 0..(Len(Program) + 1)
    BY <1>2 DEF ProgramHasFirst
  <2>2. NothingShared \in [keys : BOOLEAN, inputs : SUBSET Voters, root : SUBSET Voters]
    BY DEF NothingShared
  <2>3. 0 \in Heights
    BY DEF Heights
  <2> QED BY <1>4, <1>5, <1>6, <2>1, <2>2, <2>3 DEF RoundInit, RoundTypeOK, CensusInv
<1>8. WaitInv /\ StartInv
  BY DEF RoundInit, WaitInit, WaitInv, StartInv
<1>9. SharedInv /\ BallotInv
  BY <1>a DEF RoundInit, SharedInv, BallotInv, Ballots, Counting
<1>10. ChainInv
  <2>1. NextBlock \in Nat
    BY <1>5, NextBlockIsAhead DEF Heights
  <2> QED BY <2>1 DEF RoundInit, ChainInv, EndedWithAllVotes
<1> QED BY <1>5, <1>6, <1>7, <1>8, <1>9, <1>10 DEF RoundInv

LEMMA RoundSame == RoundInv /\ UNCHANGED allVars => RoundInv'
<1> SUFFICES ASSUME RoundInv, UNCHANGED allVars PROVE RoundInv'
  OBVIOUS
<1>1. /\ UNCHANGED <<view, phase, goal>> /\ UNCHANGED registerVars
      /\ UNCHANGED <<start, since, keysAt, ended, enrolled>>
      /\ UNCHANGED <<kind, config, again, saved, op, left, secret, shared, voter, box>>
  BY DEF allVars, waitVars, roundVars, processVars, programVars
<1>2. Submit' = Submit /\ Launch' = Launch /\ Program' = Program /\ Op' = Op
  BY <1>1, SameKind, SamePlace
<1>3. CensusInv'
  BY <1>1, CensusSame DEF RoundInv
<1>4. RoundTypeOK' /\ WithinLag(view)'
  BY <1>1, <1>2, <1>3 DEF RoundInv, RoundTypeOK, WaitTypeOK, WithinLag, CensusInv
<1>5. WaitInv' /\ StartInv' /\ SharedInv' /\ BallotInv'
  BY <1>1, <1>2
     DEF RoundInv, WaitInv, Reached, StartInv, SharedInv, KeysEarly, AllEnrolledEarly,
         BallotInv, Ballot
<1>6. ChainInv'
  BY <1>1, SameNextBlock DEF RoundInv, ChainInv, EndedWithAllVotes
<1> QED BY <1>3, <1>4, <1>5, <1>6 DEF RoundInv

\* A part of the invariant holds on when what it is about does not change.
LEMMA WaitSame ==
    RoundInv /\ UNCHANGED <<view, phase, goal, op, kind, again, config, start>>
    => WaitTypeOK' /\ WithinLag(view)' /\ WaitInv' /\ StartInv'
<1> SUFFICES ASSUME RoundInv, UNCHANGED <<view, phase, goal, op, kind, again, config, start>>
             PROVE  WaitTypeOK' /\ WithinLag(view)' /\ WaitInv' /\ StartInv'
  OBVIOUS
<1>1. Op' = Op
  BY SamePlace
<1>2. WaitTypeOK' /\ WithinLag(view)'
  BY DEF RoundInv, RoundTypeOK, WaitTypeOK, WithinLag
<1>3. WaitInv'
  BY <1>1 DEF RoundInv, WaitInv, Reached
<1>4. StartInv'
  BY DEF RoundInv, StartInv
<1> QED BY <1>2, <1>3, <1>4

LEMMA SharedSame ==
    /\ RoundInv
    /\ UNCHANGED <<op, kind, again, config, view, start, keysAt, enrolled, left, shared>>
    => SharedInv'
<1> SUFFICES ASSUME RoundInv,
                    UNCHANGED <<op, kind, again, config, view, start, keysAt, enrolled,
                                left, shared>>
             PROVE  SharedInv'
  OBVIOUS
<1>1. Op' = Op /\ Submit' = Submit /\ Launch' = Launch
  BY SameKind, SamePlace
<1>2. KeysEarly' = KeysEarly /\ AllEnrolledEarly' = AllEnrolledEarly
  BY <1>1 DEF KeysEarly, AllEnrolledEarly
<1> QED BY <1>1, <1>2 DEF RoundInv, SharedInv

LEMMA BallotSame ==
    RoundInv /\ UNCHANGED <<op, kind, again, config, secret, voter, box>> => BallotInv'
<1> SUFFICES ASSUME RoundInv, UNCHANGED <<op, kind, again, config, secret, voter, box>>
             PROVE  BallotInv'
  OBVIOUS
<1>1. Op' = Op /\ Submit' = Submit
  BY SameKind, SamePlace
<1> QED BY <1>1 DEF RoundInv, BallotInv, Ballot

LEMMA ChainSame == RoundInv /\ UNCHANGED <<view, ended, box>> => ChainInv'
BY SameNextBlock DEF RoundInv, ChainInv, EndedWithAllVotes

\* The program goes on, from anywhere but the votes.
LEMMA MovesOn ==
    ASSUME RoundInv, NextOp, Op \notin {"failed", "done", "submit"},
           Op = "started" => phase = "resolved",
           phase' = "idle", view' = view, goal' \in Heights, CensusInv',
           {since', ended'} \subseteq Heights, enrolled' \in [Voters -> Heights],
           secret' \in [Voters -> BOOLEAN], saved' \in BOOLEAN,
           secret' = secret \/ Op = "register",
           ended' = ended \/ (ended' = NextBlock /\ Op \in Counting),
           UNCHANGED <<start, keysAt, kind, config, again, shared, voter, box>>
    PROVE  RoundInv'
<1>1. /\ ProgramKnown /\ op \in DOMAIN Program /\ config \in BOOLEAN
      /\ view \in [Gateways -> Nat] /\ start \in Nat
  BY RoundIsTyped, AtOperation DEF ProgramKnown
<1>2. /\ op' \in 0..(Len(Program') + 1)
      /\ left' \in {1, Attempts}
      /\ Op' = "submit" => Op = "started" /\ left' = 1
      /\ Op' \in Counting \cup {"done"} => Op \in Counting
  BY <1>1, GoesOn
<1>3. Submit' = Submit /\ Launch' = Launch
  BY SameKind
<1>4. RoundTypeOK'
  <2>1. left' \in 0..(Attempts + Len(Submit.reads) + 1)
    BY <1>2, RoundIsTyped, ConstantsAreTyped
  <2> QED BY <1>2, <1>3, <2>1 DEF RoundInv, RoundTypeOK, WaitTypeOK, CensusInv
<1>5. WithinLag(view)' /\ WaitInv' /\ StartInv'
  BY DEF RoundInv, WithinLag, WaitInv, StartInv
<1>6. SharedInv'
  <2> SUFFICES ASSUME Op' = "submit"
               PROVE  /\ left' \in 1..(Len(Submit.reads) + 1)
                      /\ 1..(left' - 1) = {}
                      /\ \A g \in Gateways : view[g] + 2 * MaxLag >= start
    BY <1>3 DEF SharedInv
  <2>1. PICK h \in Gateways : view[h] + MaxLag >= start
    BY <1>2 DEF RoundInv, WaitInv, Reached
  <2>2. \A g \in Gateways : view[g] + 2 * MaxLag >= start
    BY <1>1, <2>1, ConstantsAreTyped DEF RoundInv, WithinLag
  <2> QED BY <1>2, <2>2, RoundIsTyped
<1>7. BallotInv'
  <2>1. Op = "register" => ~again
    <3>1. Op = Program[op]
      BY <1>1 DEF Op
    <3>2. /\ DOMAIN Program = 1..Len(Program)
          /\ \A i \in 1..Len(Program) : Program[i] = "register" => ~again
      BY RoundIsTyped DEF ProgramInOrder
    <3>3. op \in DOMAIN Program
      BY <1>1
    <3> QED BY <3>1, <3>2, <3>3
  <2> QED BY <1>2, <1>3, <2>1 DEF RoundInv, BallotInv, Ballot
<1>8. ChainInv'
  <2>1. CASE ended' = ended
    BY <2>1, ChainSame
  <2>2. CASE ended' = NextBlock /\ Op \in Counting
    <3>1. NextBlock' = NextBlock /\ \A b \in Ballots : box'[b] <= NextBlock'
      BY SameNextBlock DEF RoundInv, ChainInv
    <3>2. ASSUME NEW v \in Voters
          PROVE  \E i \in {0, 1} : box'[<<v, i>>] \in 1..ended'
      <4>1. PICK i \in {0, 1} : Ballot(v) = <<v, i>>
        BY DEF Ballot
      <4>2. box[<<v, i>>] # 0
        BY <2>2, <4>1 DEF RoundInv, BallotInv
      <4>3. box[<<v, i>>] \in Nat /\ box[<<v, i>>] <= NextBlock /\ NextBlock \in Nat
        BY NextBlockIsAhead, ConstantsAreTyped
           DEF RoundInv, RoundTypeOK, ChainInv, Ballots, Heights
      <4> QED BY <2>2, <4>2, <4>3
    <3> QED BY <3>1, <3>2 DEF ChainInv, EndedWithAllVotes
  <2> QED BY <2>1, <2>2
<1> QED BY <1>4, <1>5, <1>6, <1>7, <1>8 DEF RoundInv, CensusInv

\* The program stays where it is.  What may change then: the census, the chain
\* by what is published next, and the program by what is not looked at.
LEMMA StaysAt ==
    ASSUME RoundInv, CensusInv', UNCHANGED <<op, kind, again, config>>,
           left' \in 0..(Attempts + Len(Submit.reads) + 1),
           WaitTypeOK', WithinLag(view)', WaitInv', StartInv', SharedInv', BallotInv',
           {start', since', keysAt'} \subseteq Heights, ended' = ended,
           enrolled' \in [Voters -> Heights],
           secret' \in [Voters -> BOOLEAN], saved' = saved,
           shared' \in [keys : BOOLEAN, inputs : SUBSET Voters, root : SUBSET Voters],
           voter' \in [Voters -> {"todo", "proved", "sent", "checked"}],
           box' \in [Ballots -> Heights],
           ChainInv' \/ UNCHANGED <<view, box>>
    PROVE  RoundInv'
BY SameKind, SamePlace, ChainSame DEF RoundInv, RoundTypeOK, CensusInv

-----------------------------------------------------------------------------
(***************************************************************************)
(* The steps of a round.                                                   *)
(***************************************************************************)

\* Outside of the waits no wait is going on.
LEMMA IdleElsewhere == RoundInv /\ Op \notin Waits => phase = "idle"
BY DEF RoundInv, WaitInv

\* The steps up to the votes, and those of the chain.
LEMMA StepsBeforeVotes ==
    ASSUME RoundInv,
           \/ EnsureEntityMetadata \/ RegisterCensus \/ CensusReady
           \/ \E g \in Gateways : ChooseStart(g)
           \/ CreateProcess \/ PublishKeys
           \/ \E v \in Voters : RegisterVoterKey(v)
    PROVE  RoundInv'
<1>c. MaxLag \in Nat /\ MaxHeight \in Nat /\ StartDelay \in Nat /\ StartDelay < MaxHeight
  BY ConstantsAreTyped
<1>0. /\ WaitTypeOK /\ CensusTypeOK /\ goal \in Heights
      /\ {start, since, ended} \subseteq Heights
      /\ enrolled \in [Voters -> Heights] /\ secret \in [Voters -> BOOLEAN]
      /\ saved \in BOOLEAN /\ config \in BOOLEAN
  BY DEF RoundInv, RoundTypeOK, WaitTypeOK
<1>1. CASE EnsureEntityMetadata
  <2>1. CensusInv' /\ phase = "idle"
    BY <1>1, CensusSame, IdleElsewhere DEF EnsureEntityMetadata, RoundInv, Waits
  <2> QED
    BY <1>0, <1>1, <2>1, MovesOn DEF EnsureEntityMetadata, waitVars, processVars
<1>2. CASE RegisterCensus
  <2>1. CensusInv'
    BY <1>2, CensusStep DEF RegisterCensus, RoundInv
  <2>2. /\ UNCHANGED <<view, phase, goal>>
        /\ UNCHANGED <<start, since, keysAt, ended, enrolled>>
        /\ UNCHANGED <<kind, config, again, saved, op, left, secret, shared, voter, box>>
    BY <1>2 DEF RegisterCensus, waitVars, roundVars, processVars, programVars
  <2>3. WaitTypeOK' /\ WithinLag(view)' /\ WaitInv' /\ StartInv' /\ SharedInv' /\ BallotInv'
    BY <2>2, WaitSame, SharedSame, BallotSame
  <2> QED BY <2>1, <2>2, <2>3, StaysAt DEF RoundInv, RoundTypeOK
<1>3. CASE CensusReady
  <2>1. /\ CensusTypeOK' /\ StepsInOrder'
        /\ step' = "asks"
    BY <1>0, <1>3, ConstantsAreTyped DEF CensusReady, To, CensusTypeOK, StepsInOrder
  <2>2. CensusInv'
    BY <2>1 DEF CensusInv, CopyInv, ReadyIsStored
  <2>3. phase = "idle"
    BY <1>3, IdleElsewhere DEF CensusReady, Waits
  <2> QED BY <1>0, <1>3, <2>2, <2>3, MovesOn DEF CensusReady, waitVars, processVars
<1>4. ASSUME NEW g \in Gateways, ChooseStart(g) PROVE RoundInv'
  <2>1. CensusInv' /\ phase = "idle"
    BY <1>4, CensusSame, IdleElsewhere DEF ChooseStart, RoundInv, Waits
  <2>2. /\ UNCHANGED <<view, phase, goal, since, keysAt, ended, enrolled, box>>
        /\ UNCHANGED <<kind, config, again, saved, op, left, secret, shared, voter>>
    BY <1>4 DEF ChooseStart, waitVars, programVars
  <2>3. Submit' = Submit /\ Launch' = Launch /\ Program' = Program /\ Op' = Op
    BY <2>2, SameKind, SamePlace
  <2>4. view[g] \in Nat /\ view[g] <= MaxLag
    BY <1>4, RoundIsTyped DEF ChooseStart, RoundInv, StartInv
  <2>5. start' \in Heights /\ start' <= MaxLag + StartDelay
    <3>1. start' = Plus(view[g], StartDelay)
      BY <1>4 DEF ChooseStart
    <3>2. Plus(view[g], StartDelay) \in Heights /\ start' <= view[g] + StartDelay
      BY <1>c, <2>4, <3>1, PlusIsHeight
    <3>3. start' \in Nat
      BY <1>c, <3>1, <3>2 DEF Heights
    <3> QED BY <1>c, <2>4, <3>1, <3>2, <3>3
  <2>6. WaitTypeOK' /\ WithinLag(view)' /\ WaitInv'
    BY <2>1, <2>2 DEF RoundInv, RoundTypeOK, WaitTypeOK, WithinLag, WaitInv
  <2>7. StartInv'
    BY <1>4, <2>2, <2>5 DEF ChooseStart, RoundInv, StartInv
  <2>8. SharedInv' /\ BallotInv'
    BY <1>4, <2>2, <2>3, BallotSame DEF ChooseStart, SharedInv
  <2> QED BY <2>1, <2>2, <2>5, <2>6, <2>7, <2>8, StaysAt DEF RoundInv, RoundTypeOK
<1>5. CASE CreateProcess
  <2>1. CensusInv' /\ phase = "idle"
    BY <1>5, CensusSame, IdleElsewhere DEF CreateProcess, RoundInv, Waits
  <2>2. since' \in Heights
    <3>1. Top \in Nat /\ NextBlock \in Nat
      BY <1>0, <1>c, NextBlockIsAhead DEF Heights
    <3>2. Plus(Top, OracleBlocks) \in Heights
      BY <3>1, ConstantsAreTyped, PlusIsHeight
    <3> QED BY <1>5, <1>c, <3>1, <3>2 DEF CreateProcess, Heights
  <2> QED BY <1>0, <1>5, <2>1, <2>2, MovesOn DEF CreateProcess, waitVars
<1>6. CASE PublishKeys
  <2>1. CensusInv'
    BY <1>6, CensusSame DEF PublishKeys, RoundInv
  <2>2. /\ UNCHANGED <<view, phase, goal, start, since, ended, enrolled, box>>
        /\ UNCHANGED <<kind, config, again, saved, op, left, secret, shared, voter>>
    BY <1>6 DEF PublishKeys, waitVars, programVars
  <2>3. Submit' = Submit /\ Launch' = Launch /\ Program' = Program /\ Op' = Op
    BY <2>2, SameKind, SamePlace
  <2>4. keysAt' = NextBlock /\ keysAt' \in Heights
    BY <1>0, <1>6, NextBlockIsAhead DEF PublishKeys
  <2>5. SharedInv'
    <3> SUFFICES ASSUME Op = "submit" PROVE ~(keysAt' + 2 * MaxLag <= start)
      BY <2>2, <2>3 DEF RoundInv, SharedInv, KeysEarly, AllEnrolledEarly
    <3>1. PICK g \in Gateways : view[g] + 2 * MaxLag >= start
      BY ConstantsAreTyped DEF RoundInv, SharedInv
    <3>2. view[g] \in Nat /\ start \in Nat /\ keysAt' \in Nat
      BY <2>4, RoundIsTyped
    <3>3. start <= MaxLag + StartDelay
      BY DEF RoundInv, StartInv
    <3>4. view[g] < keysAt' \/ keysAt' = MaxHeight
      BY <1>0, <2>4, NextBlockIsAhead
    <3>5. CASE view[g] < keysAt'
      BY <1>c, <3>1, <3>2, <3>5, AheadIsLater
    <3>6. CASE keysAt' = MaxHeight
      BY <1>c, <3>2, <3>3, <3>6
    <3> QED BY <3>4, <3>5, <3>6
  <2>6. WaitTypeOK' /\ WithinLag(view)' /\ WaitInv' /\ StartInv' /\ BallotInv'
    BY <2>2, WaitSame, BallotSame
  <2> QED BY <2>1, <2>2, <2>4, <2>5, <2>6, StaysAt DEF RoundInv, RoundTypeOK
<1>7. ASSUME NEW v \in Voters, RegisterVoterKey(v) PROVE RoundInv'
  <2>1. CensusInv' /\ phase = "idle"
    BY <1>7, CensusSame, IdleElsewhere DEF RegisterVoterKey, RoundInv, Waits
  <2>2. /\ enrolled' \in [Voters -> Heights] /\ secret' \in [Voters -> BOOLEAN]
    BY <1>0, <1>7, NextBlockIsAhead DEF RegisterVoterKey
  <2>3. CASE NextOp
    BY <1>0, <1>7, <2>1, <2>2, <2>3, MovesOn DEF RegisterVoterKey, waitVars
  <2>4. CASE UNCHANGED <<op, left>>
    <3>1. Submit' = Submit /\ Launch' = Launch /\ Program' = Program /\ Op' = Op
      BY <1>7, <2>4, SameKind, SamePlace DEF RegisterVoterKey
    <3>2. WaitTypeOK' /\ WithinLag(view)' /\ WaitInv' /\ StartInv'
      BY <1>7, <2>4, WaitSame DEF RegisterVoterKey, waitVars
    <3>4. ~again
      BY <1>7, AtOperation, ProgramOrder, RoundIsTyped DEF RegisterVoterKey, ProgramInOrder
    <3>5. BallotInv'
      BY <1>7, <3>1, <3>4 DEF RegisterVoterKey, RoundInv, BallotInv, Ballot
    <3>3. SharedInv'
      BY <1>7, <3>1 DEF RegisterVoterKey, SharedInv
    <3> QED
      BY <1>7, <2>1, <2>2, <2>4, <3>2, <3>3, <3>5, StaysAt
         DEF RegisterVoterKey, waitVars, RoundInv, RoundTypeOK
  <2> QED BY <1>7, <2>3, <2>4 DEF RegisterVoterKey
<1> QED BY <1>1, <1>2, <1>3, <1>4, <1>5, <1>6, <1>7

\* The waits, and what follows them.
LEMMA StepsOfWaits ==
    ASSUME RoundInv,
           \/ \E g \in Gateways : \/ BeginWait(g) \/ Grow(g) \/ LookForProcess(g)
                                 \/ LookForStart(g) \/ AfterWait(g)
           \/ WaitEnds
    PROVE  RoundInv'
<1>c. MaxLag \in Nat /\ MaxHeight \in Nat /\ Attempts \in Nat /\ Gateways # {}
  BY ConstantsAreTyped
<1>0. /\ WaitTypeOK /\ view \in [Gateways -> Heights] /\ goal \in Heights
      /\ {start, since, keysAt, ended} \subseteq Heights /\ start \in Nat
      /\ enrolled \in [Voters -> Heights] /\ secret \in [Voters -> BOOLEAN]
      /\ saved \in BOOLEAN /\ 0 \in Heights /\ Heights = 0..MaxHeight
      /\ \A g \in Gateways : view[g] \in Nat
  BY <1>c DEF RoundInv, RoundTypeOK, WaitTypeOK, Heights
<1>1. ASSUME NEW g \in Gateways, BeginWait(g) PROVE RoundInv'
  <2>1. /\ UNCHANGED <<view, start, since, keysAt, ended, enrolled, box>>
        /\ UNCHANGED <<kind, config, again, saved, op, left, secret, shared, voter>>
        /\ UNCHANGED registerVars
        /\ phase' = "waiting"
        /\ Op \in Waits
    BY <1>1 DEF BeginWait, Begin, Waits, roundVars, processVars, programVars
  <2>2. Op' = Op
    BY <2>1, SamePlace
  <2>3. goal' \in Heights
    <3>1. ASSUME NEW n \in Nat, NEW h \in Heights PROVE Plus(h, n) \in Heights
      <4>1. h \in Nat
        BY <1>c DEF Heights
      <4> QED BY <4>1, PlusIsHeight
    <3>2. Top \in Heights /\ NextBlock \in Heights /\ MaxHeight \in Heights
      BY <1>c, <1>0, NextBlockIsAhead
    <3> QED BY <1>0, <1>1, <3>1, <3>2 DEF BeginWait, Begin
  <2>4. Op = "started" => goal' = start
    BY <1>1 DEF BeginWait, Begin
  <2>5. WaitTypeOK' /\ WithinLag(view)' /\ StartInv'
    BY <2>1, <2>3 DEF RoundInv, RoundTypeOK, WaitTypeOK, WithinLag, StartInv
  <2>6. WaitInv'
    BY <2>1, <2>2, <2>4 DEF WaitInv
  <2>7. CensusInv' /\ SharedInv' /\ BallotInv'
    BY <2>1, CensusSame, SharedSame, BallotSame DEF RoundInv
  <2> QED BY <2>1, <2>5, <2>6, <2>7, StaysAt DEF RoundInv, RoundTypeOK
<1>2. CASE WaitEnds
  <2>1. /\ UNCHANGED <<view, goal, start, since, keysAt, ended, enrolled, box>>
        /\ UNCHANGED <<kind, config, again, saved, op, left, secret, shared, voter>>
        /\ UNCHANGED registerVars
        /\ phase = "waiting"
        /\ (phase' = "resolved" /\ Reached) \/ phase' = "rejected"
    BY <1>2 DEF WaitEnds, Resolve, Reject, roundVars, processVars, programVars
  <2>2. Op' = Op
    BY <2>1, SamePlace
  <2>3. WaitTypeOK' /\ WithinLag(view)' /\ StartInv'
    BY <2>1 DEF RoundInv, RoundTypeOK, WaitTypeOK, WithinLag, StartInv
  <2>4. WaitInv'
    BY <2>1, <2>2 DEF RoundInv, WaitInv, Reached
  <2>5. CensusInv' /\ SharedInv' /\ BallotInv'
    BY <2>1, CensusSame, SharedSame, BallotSame DEF RoundInv
  <2> QED BY <2>1, <2>3, <2>4, <2>5, StaysAt DEF RoundInv, RoundTypeOK
<1>3. ASSUME NEW g \in Gateways, Grow(g) PROVE RoundInv'
  <2>1. /\ UNCHANGED <<phase, goal, start, since, keysAt, ended, enrolled, box>>
        /\ UNCHANGED <<kind, config, again, saved, op, left, secret, shared, voter>>
        /\ UNCHANGED registerVars
        /\ start # 0
    BY <1>3 DEF Grow, NewBlock, roundVars, processVars, programVars
  <2>2. /\ view' \in [Gateways -> Heights]
        /\ \A h \in Gateways : view[h] <= view'[h] /\ view'[h] \in Nat
    BY <1>c, <1>0, <1>3 DEF Grow, NewBlock
  <2>3. Op' = Op /\ Submit' = Submit /\ Launch' = Launch
    BY <2>1, SamePlace, SameKind
  <2>4. WaitTypeOK' /\ WithinLag(view)'
    BY <1>3, <2>1, <2>2 DEF Grow, NewBlock, RoundInv, RoundTypeOK, WaitTypeOK, WithinLag
  <2>5. StartInv'
    BY <2>1 DEF RoundInv, StartInv
  <2>6. Reached => Reached'
    <3> SUFFICES ASSUME NEW h \in Gateways, view[h] + MaxLag >= goal
                 PROVE  view'[h] + MaxLag >= goal
      BY <2>1 DEF Reached
    <3>1. goal \in Nat /\ view[h] \in Nat /\ view'[h] \in Nat /\ view[h] <= view'[h]
      BY <1>0, <2>2
    <3> QED BY <1>c, <3>1
  <2>7. WaitInv'
    BY <2>1, <2>3, <2>6 DEF RoundInv, WaitInv
  <2>8. SharedInv'
    <3>1. Op = "submit" => \A h \in Gateways : view'[h] + 2 * MaxLag >= start
      BY <1>c, <1>0, <2>2 DEF RoundInv, SharedInv
    <3>2. KeysEarly' = KeysEarly /\ AllEnrolledEarly' = AllEnrolledEarly
      BY <2>1, <2>3 DEF KeysEarly, AllEnrolledEarly
    <3> QED BY <2>1, <2>3, <3>1, <3>2 DEF RoundInv, SharedInv
  <2>9. CensusInv' /\ BallotInv'
    BY <2>1, CensusSame, BallotSame DEF RoundInv
  <2>10. ChainInv'
    <3>1. NextBlock <= NextBlock' /\ NextBlock \in Nat /\ NextBlock' \in Nat
      <4>1. NextBlock <= NextBlock'
        BY <1>0, <2>2, <2>4, NextBlockGrows
      <4>2. NextBlock \in Heights /\ NextBlock' \in Heights
        BY <1>0, <2>4, NextBlockIsAhead, NextBlockIsTyped
      <4> QED BY <1>c, <4>1, <4>2 DEF Heights
    <3>2. \A b \in Ballots : box[b] \in Nat
      BY <1>0 DEF RoundInv, RoundTypeOK
    <3>3. \A b \in Ballots : box'[b] <= NextBlock'
      BY <2>1, <3>1, <3>2 DEF RoundInv, ChainInv
    <3> QED BY <2>1, <3>3 DEF RoundInv, ChainInv, EndedWithAllVotes
  <2> QED BY <2>1, <2>4, <2>5, <2>7, <2>8, <2>9, <2>10, StaysAt DEF RoundInv, RoundTypeOK
<1>4. ASSUME NEW g \in Gateways, LookForProcess(g) PROVE RoundInv'
  <2>1. CensusInv' /\ phase' = "idle" /\ goal' = 0 /\ view' = view
    BY <1>4, CensusSame DEF LookForProcess, ResetWaiter, RoundInv
  <2>2. CASE NextOp /\ saved' = TRUE
    BY <1>0, <1>4, <2>1, <2>2, MovesOn DEF LookForProcess, processVars
  <2>3. CASE left > 0 /\ left' = left - 1 /\ UNCHANGED <<op, saved>>
    <3>1. Op' = Op /\ Op = "present"
      BY <1>4, <2>3, SamePlace DEF LookForProcess
    <3>2. WaitTypeOK' /\ WithinLag(view)' /\ WaitInv' /\ StartInv'
      BY <1>0, <1>4, <2>1
         DEF LookForProcess, processVars, RoundInv, WaitTypeOK, WithinLag, WaitInv, StartInv
    <3>3. SharedInv' /\ BallotInv'
      BY <1>4, <2>3, <3>1, BallotSame DEF LookForProcess, SharedInv
    <3>4. left' \in 0..(Attempts + Len(Submit.reads) + 1)
      <4>1. Len(Submit.reads) \in Nat /\ left \in 0..(Attempts + Len(Submit.reads) + 1)
        BY RoundIsTyped DEF RoundInv, RoundTypeOK
      <4> QED BY <1>c, <2>3, <4>1
    <3> QED
      BY <1>0, <1>4, <2>1, <2>3, <3>2, <3>3, <3>4, StaysAt
         DEF LookForProcess, processVars, RoundInv, RoundTypeOK
  <2> QED BY <1>4, <2>2, <2>3 DEF LookForProcess
<1>5. ASSUME NEW g \in Gateways, LookForStart(g) PROVE RoundInv'
  <2>1. CensusInv' /\ phase' = "idle" /\ goal' = 0 /\ view' = view
    BY <1>5, CensusSame DEF LookForStart, ResetWaiter, RoundInv
  <2> QED BY <1>0, <1>5, <2>1, MovesOn DEF LookForStart, processVars
<1>6. ASSUME NEW g \in Gateways, AfterWait(g) PROVE RoundInv'
  <2>1. CensusInv' /\ phase' = "idle" /\ goal' = 0 /\ view' = view
    BY <1>6, CensusSame DEF AfterWait, ResetWaiter, RoundInv
  <2> QED BY <1>0, <1>6, <2>1, MovesOn DEF AfterWait, processVars
<1> QED BY <1>1, <1>2, <1>3, <1>4, <1>5, <1>6

\* What is read for the voters, and the votes.
LEMMA StepsOfVotes ==
    ASSUME RoundInv,
           \/ \E g \in Gateways : ReadShared(g)
           \/ \E v \in Voters : Prove(v)
           \/ \E g \in Gateways, v \in Voters :
                 SendEnvelope(v, g) \/ EnvelopeAnswerLost(v, g) \/ CheckEnvelope(v, g)
    PROVE  RoundInv'
<1>c. MaxLag \in Nat /\ MaxHeight \in Nat /\ Attempts \in Nat
  BY ConstantsAreTyped
<1>0. /\ WaitTypeOK /\ view \in [Gateways -> Heights] /\ goal \in Heights
      /\ {start, since, keysAt, ended} \subseteq Heights
      /\ enrolled \in [Voters -> Heights] /\ secret \in [Voters -> BOOLEAN]
      /\ shared \in [keys : BOOLEAN, inputs : SUBSET Voters, root : SUBSET Voters]
      /\ voter \in [Voters -> {"todo", "proved", "sent", "checked"}]
      /\ box \in [Ballots -> Heights] /\ left \in Nat
      /\ Submit.reads = IF Submit.ballot = "secret"
                        THEN <<"inputs", "root", "keys">> ELSE <<"keys">>
  BY RoundIsTyped, <1>c DEF RoundInv, RoundTypeOK, WaitTypeOK
<1>1. ASSUME NEW g \in Gateways, ReadShared(g) PROVE RoundInv'
  <2>1. /\ UNCHANGED <<view, phase, goal, start, since, keysAt, ended, enrolled, box>>
        /\ UNCHANGED <<kind, config, again, saved, op, secret, voter>>
        /\ UNCHANGED registerVars
        /\ Op = "submit" /\ left <= Len(Submit.reads) /\ left' = left + 1
    BY <1>1 DEF ReadShared, waitVars, processVars
  <2>2. Op' = Op /\ Submit' = Submit /\ Launch' = Launch
    BY <2>1, SamePlace, SameKind
  <2>3. /\ Launch.sealed \in BOOLEAN /\ Submit.ballot = "secret" => ~Launch.sealed
    BY SubmitIsKnown, RoundIsTyped DEF ProgramKnown
  <2>4. /\ left \in 1..Len(Submit.reads)
        /\ \A h \in Gateways : view[h] + 2 * MaxLag >= start
    BY <2>1, <1>0 DEF RoundInv, SharedInv
  <2>5. Submit.reads[left] \in {"keys", "inputs", "root"}
    BY <1>0, <2>4
  <2>6. KeysEarly => Visible(keysAt, g)
    <3>1. view[g] \in Nat /\ keysAt \in Nat /\ start \in Nat /\ view[g] + 2 * MaxLag >= start
      BY <2>4, RoundIsTyped
    <3> QED BY <1>c, <3>1, AheadIsLater DEF KeysEarly, Visible
  <2>7. AllEnrolledEarly => Enrolled(g) = Voters
    <3>1. ASSUME NEW v \in Voters, enrolled[v] # 0, enrolled[v] + 2 * MaxLag <= start
          PROVE  Visible(enrolled[v], g)
      <4>1. /\ view[g] \in Nat /\ enrolled[v] \in Nat /\ start \in Nat
            /\ view[g] + 2 * MaxLag >= start
        BY <1>0, <2>4, RoundIsTyped
      <4> QED BY <1>c, <3>1, <4>1, AheadIsLater DEF Visible
    <3> QED BY <3>1 DEF AllEnrolledEarly, Enrolled
  <2>8. /\ shared' \in [keys : BOOLEAN, inputs : SUBSET Voters, root : SUBSET Voters]
        /\ shared'.keys = IF Submit.reads[left] = "keys"
                          THEN Launch.sealed /\ Visible(keysAt, g) ELSE shared.keys
        /\ shared'.inputs = IF Submit.reads[left] = "inputs" THEN Enrolled(g) ELSE shared.inputs
        /\ shared'.root = IF Submit.reads[left] = "root" THEN Enrolled(g) ELSE shared.root
    <3>1. Enrolled(g) \subseteq Voters /\ (Launch.sealed /\ Visible(keysAt, g)) \in BOOLEAN
      BY DEF Enrolled
    <3>2. CASE Submit.reads[left] = "keys"
      BY <1>0, <1>1, <3>1, <3>2 DEF ReadShared
    <3>3. CASE Submit.reads[left] = "inputs"
      BY <1>0, <1>1, <3>1, <3>3 DEF ReadShared
    <3>4. CASE Submit.reads[left] = "root"
      BY <1>0, <1>1, <3>1, <3>4 DEF ReadShared
    <3> QED BY <2>5, <3>2, <3>3, <3>4
  <2>9. SharedInv'
    <3>1. KeysEarly' = KeysEarly /\ AllEnrolledEarly' = AllEnrolledEarly
      BY <2>1, <2>2 DEF KeysEarly, AllEnrolledEarly
    <3>2. left' \in 1..(Len(Submit.reads) + 1) /\ 1..(left' - 1) = 1..left
      BY <1>0, <2>1, <2>4
    <3>3. ASSUME NEW k \in 1..left
          PROVE  /\ Submit.reads[k] = "keys" /\ KeysEarly => shared'.keys
                 /\ Submit.reads[k] = "inputs" /\ AllEnrolledEarly => shared'.inputs = Voters
                 /\ Submit.reads[k] = "root" /\ AllEnrolledEarly => shared'.root = Voters
      <4>1. CASE k = left
        BY <2>6, <2>7, <2>8, <4>1 DEF KeysEarly
      <4>2. CASE k \in 1..(left - 1)
        BY <2>1, <2>6, <2>7, <2>8, <4>2 DEF RoundInv, SharedInv, KeysEarly
      <4> QED BY <2>4, <4>1, <4>2, <1>0
    <3> QED BY <2>1, <2>2, <2>4, <3>1, <3>2, <3>3 DEF SharedInv
  <2>10. left' \in 0..(Attempts + Len(Submit.reads) + 1)
    BY <1>c, <1>0, <2>1, <2>4
  <2>11. CensusInv' /\ WaitTypeOK' /\ WithinLag(view)' /\ WaitInv' /\ StartInv' /\ BallotInv'
    BY <2>1, CensusSame, WaitSame, BallotSame DEF RoundInv
  <2> QED BY <2>1, <2>8, <2>9, <2>10, <2>11, StaysAt DEF RoundInv, RoundTypeOK
<1>2. ASSUME NEW v \in Voters, Prove(v) PROVE RoundInv'
  <2>1. /\ UNCHANGED <<view, phase, goal, start, since, keysAt, ended, enrolled, box>>
        /\ UNCHANGED <<kind, config, again, saved, op, left, secret, shared>>
        /\ UNCHANGED registerVars
        /\ Op = "submit" /\ voter' = [voter EXCEPT ![v] = "proved"]
        /\ Submit.ballot = "secret" => secret[v]
    BY <1>2 DEF Prove, CanProve, Voting, waitVars, processVars
  <2>2. Op' = Op /\ Submit' = Submit
    BY <2>1, SamePlace, SameKind
  <2>3. BallotInv'
    BY <1>0, <2>1, <2>2 DEF RoundInv, BallotInv, Ballot, Counting
  <2>4. CensusInv' /\ WaitTypeOK' /\ WithinLag(view)' /\ WaitInv' /\ StartInv' /\ SharedInv'
    BY <2>1, CensusSame, WaitSame, SharedSame DEF RoundInv
  <2>5. voter' \in [Voters -> {"todo", "proved", "sent", "checked"}]
    BY <1>0, <2>1
  <2> QED BY <2>1, <2>3, <2>4, <2>5, StaysAt DEF RoundInv, RoundTypeOK
<1>3. ASSUME NEW v \in Voters, box' = BoxWith(v),
             voter' \in {voter, [voter EXCEPT ![v] = "sent"]}, Op = "submit",
             voter[v] = "proved",
             UNCHANGED <<waitVars, registerVars, processVars>>,
             UNCHANGED <<kind, config, again, saved, op, left, secret, shared>>
      PROVE  RoundInv'
  <2>1. UNCHANGED <<view, phase, goal, start, since, keysAt, ended, enrolled>>
    BY <1>3 DEF waitVars, processVars
  <2>2. Op' = Op /\ Submit' = Submit
    BY <1>3, SamePlace, SameKind
  <2>3. Ballot(v) \in Ballots /\ Ballot(v)' = Ballot(v)
    BY <1>3, <2>2 DEF Ballot, Ballots
  <2>4. /\ box' \in [Ballots -> Heights]
        /\ box'[Ballot(v)] # 0
        /\ \A b \in Ballots : box[b] # 0 => box'[b] # 0
        /\ \A b \in Ballots : box'[b] # 0 => box[b] # 0 \/ b = Ballot(v)
    BY <1>0, <1>3, <2>3, NextBlockIsAhead DEF BoxWith
  <2>5. \A w \in Voters : Ballot(w) \in Ballots /\ Ballot(w)' = Ballot(w) /\ <<w, 1>> \in Ballots
    BY <1>3, <2>2 DEF Ballot, Ballots
  <2>6. voter' \in [Voters -> {"todo", "proved", "sent", "checked"}]
    BY <1>0, <1>3
  <2>7. BallotInv'
    <3>1. \A w \in Voters : voter'[w] \in {"sent", "checked"} => box'[Ballot(w)] # 0
      BY <1>0, <1>3, <2>4, <2>5 DEF RoundInv, BallotInv
    <3>2. ASSUME NEW w \in Voters, box'[<<w, 1>>] # 0
          PROVE  Submit.ballot = "random" /\ again
      <4>1. CASE box[<<w, 1>>] # 0
        BY <4>1 DEF RoundInv, BallotInv
      <4>2. CASE <<w, 1>> = Ballot(v)
        <5>1. Submit.ballot \in {"address", "secret", "random"}
          BY SubmitIsKnown, RoundIsTyped DEF ProgramKnown
        <5>2. ~(again /\ Submit.ballot = "secret")
          BY <1>3 DEF RoundInv, BallotInv
        <5> QED BY <4>2, <5>1, <5>2 DEF Ballot
      <4> QED BY <2>4, <2>5, <3>2, <4>1, <4>2
    <3>3. ~(again /\ Submit.ballot = "secret")
      BY <1>3 DEF RoundInv, BallotInv
    <3> QED BY <1>3, <2>2, <2>5, <3>1, <3>2, <3>3 DEF BallotInv, Counting
  <2>8. CensusInv' /\ WaitTypeOK' /\ WithinLag(view)' /\ WaitInv' /\ StartInv' /\ SharedInv'
    BY <1>3, <2>1, CensusSame, WaitSame, SharedSame DEF RoundInv
  <2>9. ChainInv'
    <3>1. NextBlock' = NextBlock /\ NextBlock \in Nat
      BY <1>0, <1>c, <2>1, NextBlockIsAhead, SameNextBlock DEF Heights
    <3>2. \A b \in Ballots : box'[b] = box[b] \/ (box[b] = 0 /\ box'[b] = NextBlock)
      BY <1>0, <1>3, <2>3 DEF BoxWith
    <3>3. \A b \in Ballots : box'[b] <= NextBlock'
      BY <3>1, <3>2 DEF RoundInv, ChainInv
    <3>4. EndedWithAllVotes'
      <4> SUFFICES ASSUME ended # 0, NEW w \in Voters
                   PROVE  \E i \in {0, 1} : box'[<<w, i>>] \in 1..ended
        BY <2>1 DEF EndedWithAllVotes
      <4>1. PICK i \in {0, 1} : box[<<w, i>>] \in 1..ended
        BY DEF RoundInv, ChainInv, EndedWithAllVotes
      <4>2. <<w, i>> \in Ballots
        BY DEF Ballots
      <4>3. box'[<<w, i>>] = box[<<w, i>>]
        BY <3>2, <4>1, <4>2
      <4> QED BY <4>1, <4>3
    <3> QED BY <3>3, <3>4 DEF ChainInv
  <2> QED BY <1>3, <2>1, <2>4, <2>6, <2>7, <2>8, <2>9, StaysAt DEF RoundInv, RoundTypeOK
<1>4. ASSUME NEW g \in Gateways, NEW v \in Voters, CheckEnvelope(v, g) PROVE RoundInv'
  <2>1. /\ UNCHANGED <<view, phase, goal, start, since, keysAt, ended, enrolled, box>>
        /\ UNCHANGED <<kind, again, saved, secret, shared>>
        /\ UNCHANGED registerVars
        /\ Op = "submit" /\ voter[v] = "sent" /\ voter' = [voter EXCEPT ![v] = "checked"]
    BY <1>4 DEF CheckEnvelope, Voting, waitVars, processVars
  <2>2. voter' \in [Voters -> {"todo", "proved", "sent", "checked"}]
    BY <1>0, <2>1
  <2>3. Submit' = Submit /\ \A w \in Voters : Ballot(w)' = Ballot(w)
    BY <2>1, SameKind DEF Ballot
  <2>4. /\ \A w \in Voters : voter'[w] \in {"sent", "checked"} => box'[Ballot(w)'] # 0
        /\ \A w \in Voters : box'[<<w, 1>>] # 0 => Submit'.ballot = "random" /\ again'
        /\ ~(again' /\ Submit'.ballot = "secret")
    BY <1>0, <2>1, <2>3 DEF RoundInv, BallotInv
  <2>5. CensusInv' /\ ChainInv'
    BY <2>1, CensusSame, ChainSame DEF RoundInv
  <2>6. CASE /\ \A w \in Voters : voter'[w] = "checked"
             /\ NextOp /\ config' \in BOOLEAN
    <3>1. /\ ProgramKnown /\ op \in DOMAIN Program /\ config \in BOOLEAN
      BY <2>1, RoundIsTyped, AtOperation DEF ProgramKnown
    <3>2. /\ op' \in 0..(Len(Program') + 1)
          /\ left' \in {1, Attempts}
          /\ Op' # "submit"
      BY <2>1, <2>6, <3>1, GoesOn
    <3>3. WaitTypeOK' /\ WithinLag(view)' /\ StartInv'
      BY <2>1 DEF RoundInv, RoundTypeOK, WaitTypeOK, WithinLag, StartInv
    <3>4. WaitInv'
      BY <2>1, IdleElsewhere DEF WaitInv, Waits
    <3>5. SharedInv' /\ BallotInv'
      BY <2>4, <2>6, <3>2 DEF SharedInv, BallotInv
    <3>6. left' \in 0..(Attempts + Len(Submit.reads) + 1)
      BY <1>c, <1>0, <3>2
    <3>7. RoundTypeOK'
      BY <2>1, <2>2, <2>3, <2>5, <2>6, <3>2, <3>3, <3>6 DEF RoundInv, RoundTypeOK, CensusInv
    <3> QED BY <2>5, <3>3, <3>4, <3>5, <3>7 DEF RoundInv
  <2>7. CASE UNCHANGED <<op, left, config>>
    <3>1. Op' = Op
      BY <2>1, <2>7, SamePlace
    <3>2. BallotInv'
      BY <2>1, <2>4, <3>1 DEF BallotInv, Counting
    <3>3. WaitTypeOK' /\ WithinLag(view)' /\ WaitInv' /\ StartInv' /\ SharedInv'
      BY <2>1, <2>7, WaitSame, SharedSame
    <3> QED BY <2>1, <2>2, <2>5, <2>7, <3>2, <3>3, StaysAt DEF RoundInv, RoundTypeOK
  <2> QED BY <1>4, <2>6, <2>7 DEF CheckEnvelope
<1>5. ASSUME NEW g \in Gateways, NEW v \in Voters,
             SendEnvelope(v, g) \/ EnvelopeAnswerLost(v, g)
      PROVE  RoundInv'
  BY <1>3, <1>5 DEF SendEnvelope, EnvelopeAnswerLost, Voting, programVars
<1> QED BY <1>1, <1>2, <1>4, <1>5

\* The end of the process, of the count and of the program, and its restart.
LEMMA StepsOfEnds ==
    ASSUME RoundInv,
           \/ EndProcess \/ RoundFails \/ Restart
           \/ \E g, h \in Gateways : Tally(g, h)
    PROVE  RoundInv'
<1>c. MaxHeight \in Nat /\ Attempts \in Nat
  BY ConstantsAreTyped
<1>0. /\ WaitTypeOK /\ goal \in Heights /\ 0 \in Heights
      /\ {start, since, keysAt, ended} \subseteq Heights
      /\ enrolled \in [Voters -> Heights] /\ secret \in [Voters -> BOOLEAN]
      /\ saved \in BOOLEAN
  BY <1>c DEF RoundInv, RoundTypeOK, WaitTypeOK, Heights
<1>1. CASE EndProcess
  <2>1. CensusInv' /\ phase = "idle"
    BY <1>1, CensusSame, IdleElsewhere DEF EndProcess, RoundInv, Waits
  <2>2. ended' \in Heights /\ ended' \in {ended, NextBlock} /\ Op \in Counting
    BY <1>0, <1>1, NextBlockIsAhead DEF EndProcess, Counting
  <2> QED BY <1>0, <1>1, <2>1, <2>2, MovesOn DEF EndProcess, waitVars
<1>2. ASSUME NEW g \in Gateways, NEW h \in Gateways, Tally(g, h) PROVE RoundInv'
  <2>1. CensusInv' /\ phase = "idle"
    BY <1>2, CensusSame, IdleElsewhere DEF Tally, RoundInv, Waits
  <2> QED BY <1>0, <1>2, <2>1, MovesOn DEF Tally, waitVars, processVars
<1>3. ASSUME UNCHANGED <<registerVars, processVars, box, kind, saved>>, ForgetAll,
             again' \in BOOLEAN, again => again',
             op' \in {0, 1}, left' \in {0, 1, Attempts},
             Op' \in {"failed", "entity", "launch", "present"}
      PROVE  RoundInv'
  <2>1. /\ UNCHANGED <<view, start, since, keysAt, ended, enrolled, box, kind, saved>>
        /\ UNCHANGED registerVars
        /\ phase' = "idle" /\ goal' = 0 /\ config' = FALSE
        /\ secret' = [v \in Voters |-> FALSE]
        /\ shared' = NothingShared
        /\ voter' = [v \in Voters |-> "todo"]
    BY <1>3 DEF processVars, ForgetAll, ResetWaiter
  <2>2. CensusInv' /\ Submit' = Submit
    BY <2>1, CensusSame, SameKind DEF RoundInv
  <2>3. Len(Program') \in Nat
    BY <1>3, <2>1, RoundIsTyped, ProgramFirstNext DEF ProgramKnown, ProgramHasFirst
  <2>4. left' \in 0..(Attempts + Len(Submit.reads) + 1)
    BY <1>c, <1>3, RoundIsTyped
  <2>5. WaitTypeOK' /\ WithinLag(view)' /\ WaitInv' /\ StartInv'
    BY <1>0, <2>1 DEF RoundInv, WaitTypeOK, WithinLag, WaitInv, StartInv
  <2>6. NothingShared \in [keys : BOOLEAN, inputs : SUBSET Voters, root : SUBSET Voters]
    BY DEF NothingShared
  <2>7. RoundTypeOK'
    <3>1. op' \in 0..(Len(Program') + 1)
      BY <1>3, <2>3
    <3> QED
      BY <1>3, <2>1, <2>2, <2>4, <2>5, <2>6, <3>1 DEF RoundInv, RoundTypeOK, CensusInv
  <2>8. SharedInv' /\ BallotInv' /\ ChainInv'
    BY <1>3, <2>1, <2>2, ChainSame DEF RoundInv, SharedInv, BallotInv, Counting
  <2> QED BY <2>2, <2>5, <2>7, <2>8 DEF RoundInv
<1>4. CASE RoundFails
  <2>1. ProgramKnown'
    BY <1>4, RoundIsTyped DEF RoundFails, ForgetAll, ProgramKnown
  <2>2. 0 \notin DOMAIN Program'
    BY <2>1, ProgramFirstNext DEF ProgramHasFirst
  <2>3. Op' = "failed"
    BY <1>4, <2>2 DEF RoundFails, Op
  <2> QED BY <1>3, <1>4, <2>1, <2>3 DEF RoundFails, ProgramKnown
<1>5. CASE Restart
  <2>1. ProgramKnown'
    BY <1>5, RoundIsTyped DEF Restart, ForgetAll, ProgramKnown
  <2>2. 1 \in DOMAIN Program' /\ Program'[1] \in {"entity", "launch", "present"}
    BY <2>1, ProgramFirstNext DEF ProgramHasFirst
  <2>3. Op' \in {"entity", "launch", "present"}
    BY <1>5, <2>2 DEF Restart, Op
  <2>4. left' \in {1, Attempts}
    BY <1>5 DEF Restart, LeftAt
  <2> QED BY <1>3, <1>5, <2>1, <2>3, <2>4 DEF Restart, ProgramKnown
<1> QED BY <1>1, <1>2, <1>4, <1>5

LEMMA RoundStep == RoundInv /\ [RoundNext]_allVars => RoundInv'
<1> SUFFICES ASSUME RoundInv, [RoundNext]_allVars PROVE RoundInv'
  OBVIOUS
<1>1. CASE Progress
  BY <1>1, StepsBeforeVotes, StepsOfWaits, StepsOfVotes, StepsOfEnds DEF Progress
<1>2. CASE RegisterCensus \/ CensusReady \/ PublishKeys
  BY <1>2, StepsBeforeVotes
<1>3. CASE \E g \in Gateways : Grow(g) \/ \E v \in Voters : EnvelopeAnswerLost(v, g)
  BY <1>3, StepsOfWaits, StepsOfVotes
<1>4. CASE WaitEnds
  BY <1>4, StepsOfWaits
<1>5. CASE Restart
  BY <1>5, StepsOfEnds
<1>6. CASE RoundOver \/ UNCHANGED allVars
  BY <1>6, RoundSame DEF RoundOver
<1> QED BY <1>1, <1>2, <1>3, <1>4, <1>5, <1>6 DEF RoundNext

LEMMA RoundInvariant == RoundSpec => []RoundInv
BY RoundStart, RoundStep, PTL DEF RoundSpec

-----------------------------------------------------------------------------
(***************************************************************************)
(* The results.                                                            *)
(***************************************************************************)

\* Every state of a round is typed: the program stands at one of its
\* operations, and every height that is kept is one that is told apart.
THEOREM RoundTypeCorrect == RoundSpec => []RoundTypeOK
<1>1. RoundInv => RoundTypeOK
  BY DEF RoundInv
<1> QED BY <1>1, RoundInvariant, PTL

\* With one copy of the census, other users of the pool, repeated requests and
\* late ones cannot make the organizer end with a root or a tree that lacks a
\* claim, however many gateways and chunks there are.
THEOREM RoundOneCopyIsComplete == RoundSpec => []OneCopyIsComplete
<1>1. RoundInv => OneCopyIsComplete
  BY OneCopyIsUnique DEF RoundInv, CensusInv, CopyInv, OneCopyIsComplete
<1> QED BY <1>1, RoundInvariant, PTL

\* Where the size of the census was compared, some gateway has every claim.
THEOREM RoundReadyIsStored == RoundSpec => []ReadyIsStored
<1>1. RoundInv => ReadyIsStored
  BY DEF RoundInv, CensusInv
<1> QED BY <1>1, RoundInvariant, PTL

\* With keys two lags ahead of the start no voter packs a vote in clear text,
\* for any lag and any number of gateways.
THEOREM RoundSealedIfKeysEarly == RoundSpec => []SealedIfKeysEarly
<1>1. RoundInv => SealedIfKeysEarly
  <2> SUFFICES ASSUME RoundInv, Voting, KeysEarly PROVE shared.keys
    BY DEF SealedIfKeysEarly, KeysEarly
  <2>1. /\ Launch.sealed => Submit.ballot # "secret"
        /\ Submit.reads = IF Submit.ballot = "secret"
                          THEN <<"inputs", "root", "keys">> ELSE <<"keys">>
    BY RoundIsTyped, SubmitIsKnown DEF ProgramKnown
  <2>2. Submit.reads = <<"keys">>
    BY <2>1 DEF KeysEarly
  <2>3. Submit.reads[1] = "keys" /\ 1 \in 1..(left - 1)
    BY <2>2 DEF Voting, RoundInv, SharedInv
  <2> QED BY <2>3 DEF RoundInv, SharedInv, Voting
<1> QED BY <1>1, RoundInvariant, PTL

\* With keys of all voters two lags ahead of the start, anonymous voters prove
\* against one root that has everyone.
THEOREM RoundOneRootIfEnrolledEarly == RoundSpec => []OneRootIfEnrolledEarly
<1>1. RoundInv => OneRootIfEnrolledEarly
  <2> SUFFICES ASSUME RoundInv, Voting, Submit.ballot = "secret", AllEnrolledEarly
               PROVE  shared.root = Voters /\ shared.inputs = Voters
    BY DEF OneRootIfEnrolledEarly, AllEnrolledEarly
  <2>1. Submit.reads = <<"inputs", "root", "keys">>
    BY RoundIsTyped
  <2>2. /\ Submit.reads[1] = "inputs" /\ 1 \in 1..(left - 1)
        /\ Submit.reads[2] = "root" /\ 2 \in 1..(left - 1)
    BY <2>1 DEF Voting, RoundInv, SharedInv
  <2> QED BY <2>2 DEF RoundInv, SharedInv, Voting
<1> QED BY <1>1, RoundInvariant, PTL

\* A process is ended only with a vote of every voter in the chain by then,
\* though envelopes are counted by number, and though gateways lag and the
\* program may have started again with other wallets.
THEOREM RoundEndedWithAllVotes == RoundSpec => []EndedWithAllVotes
<1>1. RoundInv => EndedWithAllVotes
  BY DEF RoundInv, ChainInv
<1> QED BY <1>1, RoundInvariant, PTL

\* The count is what ends a program well.
LEMMA OnlyTally ==
    ASSUME RoundInv, [RoundNext]_allVars, Op = "tally", Op' = "done"
    PROVE  \E g, h \in Gateways : TallyIsRight(g, h)
<1>1. CASE UNCHANGED <<op, kind, again, config>>
  BY <1>1, SamePlace
<1>2. CASE RoundFails
  <2>1. ProgramKnown'
    BY <1>2, RoundIsTyped DEF RoundFails, ForgetAll, ProgramKnown
  <2>2. 0 \notin DOMAIN Program'
    BY <2>1, ProgramFirstNext DEF ProgramHasFirst
  <2> QED BY <1>2, <2>2 DEF RoundFails, Op
<1>3. CASE Restart
  <2>1. ProgramKnown'
    BY <1>3, RoundIsTyped DEF Restart, ForgetAll, ProgramKnown
  <2>2. 1 \in DOMAIN Program' /\ Program'[1] \in {"entity", "launch", "present"}
    BY <2>1, ProgramFirstNext DEF ProgramHasFirst
  <2> QED BY <1>3, <2>2 DEF Restart, Op
<1>4. ASSUME NEW g \in Gateways, NEW h \in Gateways, Tally(g, h)
      PROVE  TallyIsRight(g, h)
  BY <1>4 DEF Tally
<1>5. CASE Progress
  BY <1>2, <1>4, <1>5
     DEF Progress, EnsureEntityMetadata, CreateProcess, EndProcess, ChooseStart, BeginWait,
         LookForProcess, LookForStart, ReadShared, AfterWait, SendEnvelope, CheckEnvelope,
         RegisterVoterKey, Prove, Voting
<1>6. CASE \/ RegisterCensus \/ CensusReady \/ PublishKeys \/ WaitEnds \/ RoundOver
           \/ \E g \in Gateways : Grow(g) \/ \E v \in Voters : EnvelopeAnswerLost(v, g)
           \/ UNCHANGED allVars
  BY <1>1, <1>6
     DEF RegisterCensus, CensusReady, PublishKeys, WaitEnds, RoundOver, Grow,
         EnvelopeAnswerLost, roundVars, programVars, allVars
<1> QED BY <1>3, <1>5, <1>6 DEF RoundNext

\* As many ballots as voters, of which each has the one of this run: then there
\* are no others.
LEMMA NoOtherBallots ==
    ASSUME RoundTypeOK, NEW g \in Gateways, Counted(g) = Cardinality(Voters), AllShown,
           \A v \in Voters : box[<<v, 1>>] # 0
    PROVE  \A v \in Voters : box[<<v, 0>>] = 0
<1> DEFINE S == { b \in Ballots : Visible(box[b], g) }
           D == { <<v, 1>> : v \in Voters }
           f == [v \in Voters |-> <<v, 1>>]
<1>1. IsFiniteSet(Voters)
  <2>1. IsFiniteSet(1..Chunks)
    BY ConstantsAreTyped, FS_Interval
  <2> QED BY <2>1, ConstantsAreTyped, FS_Subset
<1>2. IsFiniteSet(S)
  <2>1. IsFiniteSet({0, 1})
    <3>1. IsFiniteSet({0}) /\ {0, 1} = {0} \cup {1}
      BY FS_Singleton
    <3> QED BY <3>1, FS_AddElement
  <2>2. IsFiniteSet(Ballots)
    BY <1>1, <2>1, FS_Product DEF Ballots
  <2>3. S \in SUBSET Ballots
    OBVIOUS
  <2> QED BY <2>2, <2>3, FS_Subset
<1>3. D \in SUBSET S
  BY DEF AllShown, Ballots
<1>4. f \in Bijection(Voters, D)
  BY DEF Bijection, Injection, Surjection, IsInjective
<1>5. Cardinality(D) = Cardinality(Voters)
  BY <1>1, <1>4, FS_Bijection DEF ExistsBijection
<1>6. Cardinality(S) = Cardinality(Voters)
  BY DEF Counted
<1> HIDE DEF S, D, f
<1>7. S = D
  BY <1>2, <1>3, <1>5, <1>6, FS_Subset
<1>8. ASSUME NEW v \in Voters, box[<<v, 0>>] # 0 PROVE FALSE
  <2>1. <<v, 0>> \in S
    BY <1>8 DEF S, AllShown, Ballots
  <2>2. <<v, 0>> \notin D
    BY DEF D
  <2> QED BY <1>7, <2>1, <2>2
<1> QED BY <1>8

\* A round ends well with exactly one ballot of every voter, though results and
\* number of envelopes come from gateways that may lag.
THEOREM RoundDoneIsExact == RoundSpec => DoneIsExact
<1>1. RoundInv /\ [RoundNext]_allVars =>
        [/\ Op = "tally" /\ Op' = "done"
         /\ again /\ Submit.ballot = "random" => AllShown
         => ExactlyOne]_allVars
  <2> SUFFICES ASSUME RoundInv, [RoundNext]_allVars, Op = "tally", Op' = "done",
                      again /\ Submit.ballot = "random" => AllShown
               PROVE  ExactlyOne
    OBVIOUS
  <2>1. PICK g \in Gateways : Counted(g) = Cardinality(Voters)
    BY OnlyTally DEF TallyIsRight
  <2>2. \A v \in Voters : box[Ballot(v)] # 0
    BY DEF RoundInv, BallotInv, Counting
  <2>3. CASE again /\ Submit.ballot = "random"
    <3>1. \A v \in Voters : box[<<v, 1>>] # 0
      BY <2>2, <2>3 DEF Ballot
    <3>2. \A v \in Voters : box[<<v, 0>>] = 0
      BY <2>1, <2>3, <3>1, NoOtherBallots DEF RoundInv
    <3>3. \A v \in Voters : { i \in {0, 1} : box[<<v, i>>] # 0 } = {1}
      BY <3>1, <3>2
    <3> QED BY <3>3, FS_Singleton DEF ExactlyOne
  <2>4. CASE ~(again /\ Submit.ballot = "random")
    <3>0. ~(again /\ Submit.ballot = "secret")
      <4>1. \A v \in Voters : voter[v] = "checked"
        BY DEF RoundInv, BallotInv, Counting
      <4> QED BY <4>1, RoundAssumption DEF RoundAssumption, RoundInv, BallotInv
    <3>1. \A v \in Voters : box[<<v, 0>>] # 0
      <4>1. Submit.ballot \in {"address", "secret", "random"}
        BY SubmitIsKnown, RoundIsTyped DEF ProgramKnown
      <4> QED BY <2>2, <2>4, <3>0, <4>1 DEF Ballot
    <3>2. \A v \in Voters : box[<<v, 1>>] = 0
      BY <2>4 DEF RoundInv, BallotInv
    <3>3. \A v \in Voters : { i \in {0, 1} : box[<<v, i>>] # 0 } = {0}
      BY <3>1, <3>2
    <3> QED BY <3>3, FS_Singleton DEF ExactlyOne
  <2> QED BY <2>3, <2>4
<1> QED BY <1>1, RoundInvariant, PTL DEF RoundSpec, DoneIsExact

=============================================================================
