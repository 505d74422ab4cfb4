----------------------- MODULE GatewayDiscoveryProofs -----------------------
(***************************************************************************)
(* Theorems about GatewayDiscovery, for any nodes, any size of a batch,    *)
(* any number of rounds, and any number of runs at a time.                 *)
(*                                                                         *)
(* A run that says that there are no gateways has to have tried each node  *)
(* of a kind.  The invariant accounts for every node of a kind that still  *)
(* falls short: its check is pending, or it waits in the queue of the      *)
(* round, or it was discarded, or it has timed out in each round so far.   *)
(***************************************************************************)
EXTENDS GatewayDiscovery, FiniteSetTheorems, WellFoundedInduction, TLAPS

Checking(r) == phase[r] = "checking"
Kinds == {Dvote, Web3}
OfKind(q, kind) == IF kind = Dvote THEN q.dvote ELSE q.web3
QueueOf(r, kind) == OfKind(queue[r], kind)
Short(r, kind) == Cardinality(found[r] \cap kind) < Min(r)

\* A run that has no nodes yet has checked none.
FreshInv(r) ==
    phase[r] \in {"idle", "bootnodes"} =>
        /\ used[r].min = 0 /\ round[r] = 1 /\ found[r] = {}
        /\ \A n \in Nodes : late[r][n] = "unchecked" /\ misses[r][n] = 0

\* A pending check is the first of its node in the round.
BatchInv(r) ==
    /\ batch[r] # {} => Checking(r) /\ launched[r]
    /\ \A n \in batch[r] : /\ n \notin found[r]
                           /\ late[r][n] = "no"
                           /\ misses[r][n] = round[r] - 1

\* Where each node of a kind is, as long as the kind falls short.
Waiting(r, kind, n) ==
    /\ n \in QueueOf(r, kind)
    /\ late[r][n] \in {"unchecked", "yes"}
    /\ misses[r][n] = round[r] - 1
Through(r, kind, n) ==
    /\ n \notin QueueOf(r, kind)
    /\ late[r][n] = "no" \/ (late[r][n] = "yes" /\ misses[r][n] = round[r])
QueueInv(r) ==
    \A kind \in Kinds : Checking(r) /\ Short(r, kind) =>
        /\ \A n \in kind \ found[r] :
              n \in batch[r] \/ Waiting(r, kind, n) \/ Through(r, kind, n)
        /\ QueueOf(r, kind) \cap (found[r] \cup batch[r]) = {}
        /\ ~launched[r] => QueueOf(r, kind) = {}

\* A batch is counted in before its nodes are found.
CollectInv(r) ==
    phase[r] \in {"checking", "done"} =>
        \A kind \in Kinds :
            Cardinality((found[r] \cup batch[r]) \cap kind) < Min(r) + Parallel

ExhaustInv(r) ==
    phase[r] = "failed" /\ Min(r) > 0 =>
        \E kind \in Kinds :
            /\ Short(r, kind)
            /\ \A n \in kind \ found[r] : late[r][n] = "no" \/ misses[r][n] = Rounds

PairInv(r) ==
    phase[r] = "done" =>
        /\ {pairs[r][i][1] : i \in DOMAIN pairs[r]} = FoundDvote(r)
        /\ {pairs[r][i][2] : i \in DOMAIN pairs[r]} = FoundWeb3(r)

RunInv(r) ==
    /\ phase[r] # "idle" => owner \in Runs
    /\ FreshInv(r) /\ BatchInv(r) /\ QueueInv(r)
    /\ CollectInv(r) /\ ExhaustInv(r) /\ PairInv(r)

DiscoveryInv == TypeOK /\ \A r \in Runs : RunInv(r)

-----------------------------------------------------------------------------
(***************************************************************************)
(* Nodes, and the first of them.                                           *)
(***************************************************************************)

LEMMA LeastExists ==
    ASSUME NEW n \in Nat, NEW S \in SUBSET (0..n), S # {}
    PROVE  \E h \in S : \A k \in S : h <= k
<1> DEFINE Below(h) == 0..h
           All == { Below(h) : h \in S }
<1>1. IsFiniteSet(0..n)
  BY FS_Interval
<1>2. IsWellFoundedOn(StrictSubsetOrdering(0..n), SUBSET (0..n))
  BY <1>1, FS_StrictSubsetOrderingWellFounded, FS_FiniteSubsetsOfFinite
<1>3. \A h \in S : Below(h) \in SUBSET (0..n)
  OBVIOUS
<1> HIDE DEF Below
<1>4. All \in SUBSET SUBSET (0..n) /\ All # {}
  BY <1>3
<1> HIDE DEF All
<1>5. \E x \in All : \A y \in All : <<y, x>> \notin StrictSubsetOrdering(0..n)
  BY <1>2, <1>4, WFMin
<1>6. PICK h \in S : \A y \in All : <<y, Below(h)>> \notin StrictSubsetOrdering(0..n)
  BY <1>5 DEF All
<1>7. SUFFICES ASSUME NEW k \in S, k < h PROVE FALSE
  BY <1>6
<1>8. Below(k) \subseteq Below(h) /\ h \in Below(h) /\ h \notin Below(k)
  BY <1>7 DEF Below
<1>9. Below(k) \in All /\ Below(h) \in SUBSET (0..n) /\ Below(k) \in SUBSET (0..n)
  BY <1>3 DEF All
<1>10. <<Below(k), Below(h)>> \in StrictSubsetOrdering(0..n)
  BY <1>8, <1>9 DEF StrictSubsetOrdering
<1> QED BY <1>6, <1>9, <1>10

LEMMA GreatestExists ==
    ASSUME NEW n \in Nat, NEW S \in SUBSET (0..n), S # {}
    PROVE  \E h \in S : \A k \in S : k <= h
<1> DEFINE R == { n - h : h \in S }
<1>0. \A h \in S : n - h \in 0..n
  OBVIOUS
<1>1. R \in SUBSET (0..n) /\ R # {}
  BY <1>0, Zenon
<1>2. \E m \in R : \A k \in R : m <= k
  BY <1>1, LeastExists
<1>3. PICK h \in S : \A k \in R : n - h <= k
  BY <1>2
<1>4. \A k \in S : n - h <= n - k
  BY <1>3
<1> QED BY <1>4

\* What a batch takes: some nodes of the queue, if it has any, and no more than
\* may be tested in parallel.
LEMMA FirstOfQueue ==
    ASSUME NEW S, NEW list \in Seq(S), NEW q,
           q \subseteq {list[i] : i \in DOMAIN list}
    PROVE  /\ First(list, q) \subseteq q
           /\ IsFiniteSet(First(list, q)) /\ Cardinality(First(list, q)) <= Parallel
           /\ q # {} => First(list, q) # {}
<1> DEFINE Before(i) == {j \in 1..(i - 1) : list[j] \in q}
           I == {i \in 1..Len(list) : list[i] \in q /\ Cardinality(Before(i)) < Parallel}
<1>0. /\ Parallel \in Nat \ {0} /\ Len(list) \in Nat /\ DOMAIN list = 1..Len(list)
  BY DiscoveryAssumption DEF DiscoveryAssumption
<1>1. First(list, q) = {list[i] : i \in I}
  BY <1>0 DEF First
<1>2. First(list, q) \subseteq q
  BY <1>1
<1>3. IsFiniteSet(1..Len(list)) /\ \A i \in 1..Len(list) : IsFiniteSet(1..(i - 1))
  BY <1>0, FS_Interval
<1>4. I \in SUBSET (1..Len(list)) /\ IsFiniteSet(I)
  BY <1>3, FS_Subset
<1>5. Cardinality(I) <= Parallel
  <2>1. CASE I = {}
    <3>1. Cardinality(I) = Cardinality({})
      BY <2>1
    <3>2. 0 <= Parallel
      BY <1>0
    <3> HIDE DEF I
    <3> QED BY <3>1, <3>2, FS_EmptySet
  <2>2. CASE I # {}
    <3>1. I \in SUBSET (0..Len(list))
      BY <1>0
    <3> HIDE DEF I
    <3>2. PICK h \in I : \A k \in I : k <= h
      BY <1>0, <2>2, <3>1, GreatestExists
    <3>3. h \in 1..Len(list) /\ Cardinality(Before(h)) < Parallel
      BY DEF I
    <3>4. I \ {h} \in SUBSET Before(h)
      BY <1>0, <3>2, <3>3 DEF I
    <3>5. Before(h) \in SUBSET (1..(h - 1))
      OBVIOUS
    <3> HIDE DEF Before
    <3>6. IsFiniteSet(Before(h)) /\ Cardinality(Before(h)) \in Nat
      BY <1>3, <3>3, <3>5, FS_Subset, FS_CardinalityType
    <3>7. Cardinality(I \ {h}) <= Cardinality(Before(h)) /\ Cardinality(I) \in Nat
      BY <1>4, <3>4, <3>6, FS_Subset, FS_CardinalityType
    <3>8. Cardinality(I \ {h}) = Cardinality(I) - 1
      BY <1>4, <3>2, FS_RemoveElement
    <3> QED BY <1>0, <3>3, <3>6, <3>7, <3>8
  <2> QED BY <2>1, <2>2
<1>6. IsFiniteSet(First(list, q)) /\ Cardinality(First(list, q)) <= Parallel
  <2> DEFINE f == [i \in I |-> list[i]]
  <2>1. f \in Surjection(I, First(list, q))
    BY <1>1 DEF Surjection
  <2> HIDE DEF f, I
  <2>2. IsFiniteSet(First(list, q)) /\ Cardinality(First(list, q)) <= Cardinality(I)
    BY <1>4, <2>1, FS_Surjection
  <2>3. Cardinality(First(list, q)) \in Nat /\ Cardinality(I) \in Nat
    BY <1>4, <2>2, FS_CardinalityType
  <2> QED BY <1>0, <1>5, <2>2, <2>3
<1>7. ASSUME q # {} PROVE First(list, q) # {}
  <2> DEFINE P == {i \in 1..Len(list) : list[i] \in q}
  <2>1. P \in SUBSET (0..Len(list)) /\ P # {}
    BY <1>0, <1>7
  <2> HIDE DEF P
  <2>2. PICK m \in P : \A k \in P : m <= k
    BY <1>0, <2>1, LeastExists
  <2>3. m \in 1..Len(list) /\ list[m] \in q
    BY DEF P
  <2>4. Before(m) = {}
    BY <1>0, <2>2, <2>3 DEF P
  <2>5. m \in I
    <3>1. Cardinality(Before(m)) = Cardinality({})
      BY <2>4
    <3>2. Cardinality(Before(m)) = 0
      <4> HIDE DEF Before
      <4> QED BY <3>1, FS_EmptySet
    <3> QED BY <1>0, <2>3, <3>2
  <2> QED BY <1>1, <2>5
<1> QED BY <1>2, <1>6, <1>7

LEMMA NodesAreFinite ==
    /\ IsFiniteSet(Dvote) /\ IsFiniteSet(Web3)
    /\ \A S \in SUBSET Nodes, kind \in Kinds :
          IsFiniteSet(S \cap kind) /\ Cardinality(S \cap kind) \in Nat
<1>1. ASSUME NEW list, NEW S, list \in Seq(S)
      PROVE  IsFiniteSet({list[i] : i \in DOMAIN list})
  <2>1. Len(list) \in Nat /\ DOMAIN list = 1..Len(list)
    BY <1>1
  <2>2. IsFiniteSet(1..Len(list))
    BY <2>1, FS_Interval
  <2> DEFINE f == [i \in 1..Len(list) |-> list[i]]
             T == {list[i] : i \in DOMAIN list}
  <2>3. f \in Surjection(1..Len(list), T)
    BY <2>1 DEF Surjection
  <2> HIDE DEF f, T
  <2>4. IsFiniteSet(T)
    BY <2>2, <2>3, FS_Surjection
  <2> QED BY <2>4 DEF T
<1>2. IsFiniteSet(Dvote) /\ IsFiniteSet(Web3)
  BY <1>1, DiscoveryAssumption DEF DiscoveryAssumption, Dvote, Web3
<1>3. ASSUME NEW S \in SUBSET Nodes, NEW kind \in Kinds
      PROVE  IsFiniteSet(S \cap kind) /\ Cardinality(S \cap kind) \in Nat
  <2>1. IsFiniteSet(kind) /\ S \cap kind \in SUBSET kind
    BY <1>2 DEF Kinds
  <2> QED BY <2>1, FS_Subset, FS_CardinalityType
<1> QED BY <1>2, <1>3

-----------------------------------------------------------------------------
(***************************************************************************)
(* What the launch of a batch does.                                        *)
(***************************************************************************)

Queues == [dvote : SUBSET Dvote, web3 : SUBSET Web3]

LEMMA KindsAreApart ==
    /\ Dvote \cap Web3 = {} /\ Nodes = Dvote \cup Web3
    /\ \A q \in Queues :
          /\ OfKind(q, Dvote) = q.dvote /\ OfKind(q, Web3) = q.web3
          /\ \A kind \in Kinds : OfKind(q, kind) \subseteq kind
<1>1. Dvote \cap Web3 = {}
  BY DiscoveryAssumption DEF DiscoveryAssumption
<1>2. ASSUME NEW q \in Queues
      PROVE  OfKind(q, Dvote) = q.dvote /\ OfKind(q, Web3) = q.web3
  <2>1. CASE Dvote = Web3
    BY <1>1, <2>1 DEF Queues, OfKind
  <2>2. CASE Dvote # Web3
    BY <2>2 DEF Queues, OfKind
  <2> QED BY <2>1, <2>2
<1>3. ASSUME NEW q \in Queues, NEW kind \in Kinds PROVE OfKind(q, kind) \subseteq kind
  BY <1>2 DEF Kinds, Queues
<1> QED BY <1>1, <1>2, <1>3 DEF Nodes

LEMMA TakenOfKind ==
    ASSUME NEW count, NEW min
    PROVE  /\ \A q \in SUBSET Dvote :
                 LET T == Taken(DvoteNodes, q, count, min)
                 IN  /\ T \subseteq q /\ IsFiniteSet(T) /\ Cardinality(T) <= Parallel
                     /\ ~(count < min) => T = {}
                     /\ count < min /\ q # {} => T # {}
           /\ \A q \in SUBSET Web3 :
                 LET T == Taken(Web3Nodes, q, count, min)
                 IN  /\ T \subseteq q /\ IsFiniteSet(T) /\ Cardinality(T) <= Parallel
                     /\ ~(count < min) => T = {}
                     /\ count < min /\ q # {} => T # {}
<1>1. Cardinality({}) <= Parallel /\ IsFiniteSet({})
  BY FS_EmptySet, DiscoveryAssumption DEF DiscoveryAssumption
<1>2. ASSUME NEW q \in SUBSET Dvote
      PROVE  LET T == Taken(DvoteNodes, q, count, min)
             IN  /\ T \subseteq q /\ IsFiniteSet(T) /\ Cardinality(T) <= Parallel
                 /\ ~(count < min) => T = {}
                 /\ count < min /\ q # {} => T # {}
  <2>1. DvoteNodes \in Seq(Dvote) /\ q \subseteq {DvoteNodes[i] : i \in DOMAIN DvoteNodes}
    BY DiscoveryAssumption DEF DiscoveryAssumption, Dvote
  <2>2. /\ First(DvoteNodes, q) \subseteq q /\ IsFiniteSet(First(DvoteNodes, q))
        /\ Cardinality(First(DvoteNodes, q)) <= Parallel
        /\ q # {} => First(DvoteNodes, q) # {}
    BY <2>1, FirstOfQueue
  <2> QED BY <1>1, <2>2 DEF Taken
<1>3. ASSUME NEW q \in SUBSET Web3
      PROVE  LET T == Taken(Web3Nodes, q, count, min)
             IN  /\ T \subseteq q /\ IsFiniteSet(T) /\ Cardinality(T) <= Parallel
                 /\ ~(count < min) => T = {}
                 /\ count < min /\ q # {} => T # {}
  <2>1. Web3Nodes \in Seq(Web3) /\ q \subseteq {Web3Nodes[i] : i \in DOMAIN Web3Nodes}
    BY DiscoveryAssumption DEF DiscoveryAssumption, Web3
  <2>2. /\ First(Web3Nodes, q) \subseteq q /\ IsFiniteSet(First(Web3Nodes, q))
        /\ Cardinality(First(Web3Nodes, q)) <= Parallel
        /\ q # {} => First(Web3Nodes, q) # {}
    BY <2>1, FirstOfQueue
  <2> QED BY <1>1, <2>2 DEF Taken
<1> QED BY <1>2, <1>3

\* What a launch leaves of queue q and puts into the batch.
TakesFrom(r, q, min) ==
    \A kind \in Kinds :
        /\ OfKind(queue'[r], kind) = OfKind(q, kind) \ batch'[r]
        /\ batch'[r] \cap kind \subseteq OfKind(q, kind)
        /\ IsFiniteSet(batch'[r] \cap kind)
        /\ Cardinality(batch'[r] \cap kind) <= Parallel
        /\ ~(Cardinality(found[r] \cap kind) < min) => batch'[r] \cap kind = {}
        /\ Cardinality(found[r] \cap kind) < min /\ OfKind(q, kind) # {} =>
              batch'[r] \cap kind # {}

\* Of each kind that falls short, and of no other, a batch takes nodes of the
\* queue: some if there are any, and no more than may be tested in parallel.
LEMMA LaunchTakes ==
    ASSUME TypeOK, NEW r \in Runs, NEW q \in Queues, NEW min \in Nat,
           Launch(r, q, min), owner \in Runs
    PROVE  /\ queue' \in [Runs -> Queues] /\ batch' \in [Runs -> SUBSET Nodes]
           /\ launched' \in [Runs -> BOOLEAN] /\ asked' \in [Runs -> BOOLEAN]
           /\ late' \in [Runs -> [Nodes -> {"unchecked", "no", "yes"}]]
           /\ launched'[r] = (batch'[r] # {})
           /\ \A n \in Nodes : late'[r][n] = IF n \in batch'[r] THEN "no" ELSE late[r][n]
           /\ TakesFrom(r, q, min)
<1> DEFINE d == Taken(DvoteNodes, q.dvote, Cardinality(FoundDvote(r)), min)
           w == Taken(Web3Nodes, q.web3, Cardinality(FoundWeb3(r)), min)
<1>1. /\ q.dvote \in SUBSET Dvote /\ q.web3 \in SUBSET Web3
      /\ Dvote \cap Web3 = {} /\ Nodes = Dvote \cup Web3
  BY KindsAreApart DEF Queues
<1>2. /\ d \subseteq q.dvote /\ IsFiniteSet(d) /\ Cardinality(d) <= Parallel
      /\ ~(Cardinality(FoundDvote(r)) < min) => d = {}
      /\ Cardinality(FoundDvote(r)) < min /\ q.dvote # {} => d # {}
  BY <1>1, TakenOfKind
<1>3. /\ w \subseteq q.web3 /\ IsFiniteSet(w) /\ Cardinality(w) <= Parallel
      /\ ~(Cardinality(FoundWeb3(r)) < min) => w = {}
      /\ Cardinality(FoundWeb3(r)) < min /\ q.web3 # {} => w # {}
  BY <1>1, TakenOfKind
<1>4. /\ queue' = [queue EXCEPT ![r] = [dvote |-> q.dvote \ d, web3 |-> q.web3 \ w]]
      /\ batch' = [batch EXCEPT ![r] = d \cup w]
      /\ launched' = [launched EXCEPT ![r] = d \cup w # {}]
      /\ late' = [late EXCEPT ![r] = [n \in Nodes |-> IF n \in d \cup w THEN "no"
                                                     ELSE late[r][n]]]
      /\ asked' = [asked EXCEPT ![r] = @ \/ (w # {} /\ Params[owner].ens)]
  BY DEF Launch
<1> HIDE DEF d, w
<1>5. /\ queue \in [Runs -> Queues] /\ batch \in [Runs -> SUBSET Nodes]
      /\ launched \in [Runs -> BOOLEAN] /\ asked \in [Runs -> BOOLEAN]
      /\ late \in [Runs -> [Nodes -> {"unchecked", "no", "yes"}]]
      /\ Params[owner].ens \in BOOLEAN
  BY DiscoveryAssumption DEF TypeOK, Queues, DiscoveryAssumption
<1>6. /\ queue'[r] = [dvote |-> q.dvote \ d, web3 |-> q.web3 \ w]
      /\ batch'[r] = d \cup w /\ launched'[r] = (d \cup w # {})
      /\ \A n \in Nodes : late'[r][n] = IF n \in d \cup w THEN "no" ELSE late[r][n]
  BY <1>4, <1>5
<1>7. batch'[r] \cap Dvote = d /\ batch'[r] \cap Web3 = w
  BY <1>1, <1>2, <1>3, <1>6
<1>8. /\ queue' \in [Runs -> Queues]
  <2>1. [dvote |-> q.dvote \ d, web3 |-> q.web3 \ w] \in Queues
    BY <1>1 DEF Queues
  <2> QED BY <1>4, <1>5, <2>1
<1>9. batch' \in [Runs -> SUBSET Nodes] /\ launched' \in [Runs -> BOOLEAN]
  BY <1>1, <1>2, <1>3, <1>4, <1>5
<1>10. late' \in [Runs -> [Nodes -> {"unchecked", "no", "yes"}]]
  <2>1. [n \in Nodes |-> IF n \in d \cup w THEN "no" ELSE late[r][n]]
          \in [Nodes -> {"unchecked", "no", "yes"}]
    BY <1>5
  <2> QED BY <1>4, <1>5, <2>1
<1>11. asked' \in [Runs -> BOOLEAN]
  BY <1>4, <1>5
<1>12. /\ OfKind(q, Dvote) = q.dvote /\ OfKind(q, Web3) = q.web3
       /\ OfKind(queue'[r], Dvote) = q.dvote \ d /\ OfKind(queue'[r], Web3) = q.web3 \ w
  <2>1. queue'[r] \in Queues
    BY <1>8
  <2>2. OfKind(queue'[r], Dvote) = queue'[r].dvote /\ OfKind(queue'[r], Web3) = queue'[r].web3
    BY <2>1, KindsAreApart
  <2>3. OfKind(q, Dvote) = q.dvote /\ OfKind(q, Web3) = q.web3
    BY KindsAreApart
  <2>4. queue'[r].dvote = q.dvote \ d /\ queue'[r].web3 = q.web3 \ w
    BY <1>6
  <2> QED BY <2>2, <2>3, <2>4
<1>13. ASSUME NEW kind \in Kinds
       PROVE
                 /\ OfKind(queue'[r], kind) = OfKind(q, kind) \ batch'[r]
                 /\ batch'[r] \cap kind \subseteq OfKind(q, kind)
                 /\ IsFiniteSet(batch'[r] \cap kind)
                 /\ Cardinality(batch'[r] \cap kind) <= Parallel
                 /\ ~(Cardinality(found[r] \cap kind) < min) => batch'[r] \cap kind = {}
                 /\ Cardinality(found[r] \cap kind) < min /\ OfKind(q, kind) # {} =>
                       batch'[r] \cap kind # {}
  <2>1. CASE kind = Dvote
    <3>1. batch'[r] \cap kind = d /\ OfKind(q, kind) = q.dvote
      BY <1>7, <1>12, <2>1
    <3>2. OfKind(queue'[r], kind) = q.dvote \ (d \cup w)
      BY <1>1, <1>3, <1>12, <2>1
    <3>3. found[r] \cap kind = FoundDvote(r)
      BY <2>1 DEF FoundDvote
    <3> QED BY <1>2, <1>6, <3>1, <3>2, <3>3
  <2>2. CASE kind = Web3
    <3>1. batch'[r] \cap kind = w /\ OfKind(q, kind) = q.web3
      BY <1>7, <1>12, <2>2
    <3>2. OfKind(queue'[r], kind) = q.web3 \ (d \cup w)
      BY <1>1, <1>2, <1>12, <2>2
    <3>3. found[r] \cap kind = FoundWeb3(r)
      BY <2>2 DEF FoundWeb3
    <3> QED BY <1>3, <1>6, <3>1, <3>2, <3>3
  <2> QED BY <2>1, <2>2 DEF Kinds
<1>14. TakesFrom(r, q, min)
  BY <1>13 DEF TakesFrom
<1> QED BY <1>6, <1>8, <1>9, <1>10, <1>11, <1>14

\* What has to be so when a batch is launched from queue q in round n.
Ready(r, q, min, n) ==
    \A kind \in Kinds :
        /\ Cardinality(found[r] \cap kind) < min + Parallel
        /\ Cardinality(found[r] \cap kind) < min =>
              /\ OfKind(q, kind) \cap found[r] = {}
              /\ \A m \in OfKind(q, kind) : /\ late[r][m] \in {"unchecked", "yes"}
                                           /\ misses[r][m] = n - 1
              /\ \A m \in kind \ (found[r] \cup OfKind(q, kind)) :
                    late[r][m] = "no" \/ (late[r][m] = "yes" /\ misses[r][m] = n)

\* Then the nodes are accounted for afterwards, and no node is launched again
\* in its round.
LEMMA LaunchKeeps ==
    ASSUME TypeOK, NEW r \in Runs, NEW q \in Queues, NEW min \in Nat,
           Launch(r, q, min), owner \in Runs, owner' = owner,
           phase'[r] = "checking", used'[r].min = min,
           found' = found, misses' = misses, Ready(r, q, min, round'[r])
    PROVE  /\ RunInv(r)'
           /\ \A n \in batch'[r] : /\ n \notin found[r] /\ late[r][n] # "no"
                                   /\ misses[r][n] = round'[r] - 1
<1>1. /\ batch'[r] \in SUBSET Nodes
      /\ launched'[r] = (batch'[r] # {})
      /\ \A n \in Nodes : late'[r][n] = IF n \in batch'[r] THEN "no" ELSE late[r][n]
  BY LaunchTakes
<1>2. /\ \A kind \in Kinds :
            /\ OfKind(queue'[r], kind) = OfKind(q, kind) \ batch'[r]
            /\ batch'[r] \cap kind \subseteq OfKind(q, kind)
            /\ IsFiniteSet(batch'[r] \cap kind)
            /\ Cardinality(batch'[r] \cap kind) <= Parallel
            /\ ~(Cardinality(found[r] \cap kind) < min) => batch'[r] \cap kind = {}
            /\ Cardinality(found[r] \cap kind) < min /\ OfKind(q, kind) # {} =>
                  batch'[r] \cap kind # {}
      /\ \A kind \in Kinds : OfKind(q, kind) \subseteq kind /\ kind \subseteq Nodes
  <2>1. \A kind \in Kinds : OfKind(q, kind) \subseteq kind /\ kind \subseteq Nodes
    BY KindsAreApart DEF Kinds
  <2>2. TakesFrom(r, q, min)
    BY LaunchTakes
  <2> QED BY <2>1, <2>2 DEF TakesFrom
<1>3. ASSUME NEW n \in batch'[r]
      PROVE  \E kind \in Kinds : /\ n \in OfKind(q, kind)
                                 /\ Cardinality(found[r] \cap kind) < min
  <2>1. PICK kind \in Kinds : n \in kind
    BY <1>1, KindsAreApart DEF Kinds
  <2> QED BY <1>2, <2>1
<1>4. ASSUME NEW n \in batch'[r]
      PROVE  /\ n \notin found[r] /\ late[r][n] # "no"
             /\ misses[r][n] = round'[r] - 1
  BY <1>3 DEF Ready
<1>5. FreshInv(r)' /\ ExhaustInv(r)' /\ PairInv(r)'
  BY DEF FreshInv, ExhaustInv, PairInv
<1>6. BatchInv(r)'
  BY <1>1, <1>4 DEF BatchInv, Checking
<1>7. QueueInv(r)'
  <2> SUFFICES ASSUME NEW kind \in Kinds, Cardinality(found[r] \cap kind) < min
               PROVE  /\ \A n \in kind \ found[r] :
                            n \in batch'[r] \/ Waiting(r, kind, n)' \/ Through(r, kind, n)'
                      /\ OfKind(queue'[r], kind) \cap (found[r] \cup batch'[r]) = {}
                      /\ ~launched'[r] => OfKind(queue'[r], kind) = {}
    BY DEF QueueInv, QueueOf, Short, Min
  <2>1. ASSUME NEW n \in kind \ found[r], n \notin batch'[r]
        PROVE  Waiting(r, kind, n)' \/ Through(r, kind, n)'
    <3>1. late'[r][n] = late[r][n] /\ (n \in OfKind(queue'[r], kind) <=> n \in OfKind(q, kind))
      <4>1. n \in Nodes /\ OfKind(queue'[r], kind) = OfKind(q, kind) \ batch'[r]
        BY <1>2, <2>1
      <4>2. late'[r][n] = late[r][n]
        BY <1>1, <2>1, <4>1
      <4> QED BY <2>1, <4>1, <4>2
    <3>2. CASE n \in OfKind(q, kind)
      BY <3>1, <3>2 DEF Ready, Waiting, QueueOf
    <3>3. CASE n \notin OfKind(q, kind)
      BY <2>1, <3>1, <3>3 DEF Ready, Through, QueueOf
    <3> QED BY <3>2, <3>3
  <2>2. OfKind(queue'[r], kind) \cap (found[r] \cup batch'[r]) = {}
    <3>1. OfKind(q, kind) \cap found[r] = {}
      BY DEF Ready
    <3>2. OfKind(queue'[r], kind) = OfKind(q, kind) \ batch'[r]
      BY <1>2
    <3> QED BY <3>1, <3>2
  <2>3. ~launched'[r] => OfKind(queue'[r], kind) = {}
    BY <1>1, <1>2
  <2> QED BY <2>1, <2>2, <2>3
<1>8. CollectInv(r)'
  <2> SUFFICES ASSUME NEW kind \in Kinds
               PROVE  Cardinality((found[r] \cup batch'[r]) \cap kind) < min + Parallel
    BY DEF CollectInv, Min
  <2> DEFINE F == found[r] \cap kind
             T == batch'[r] \cap kind
  <2>1. found[r] \in SUBSET Nodes /\ (found[r] \cup batch'[r]) \cap kind = F \cup T
    BY DEF TypeOK
  <2>2. IsFiniteSet(F) /\ Cardinality(F) \in Nat /\ IsFiniteSet(T) /\ Cardinality(T) \in Nat
    BY <1>1, <2>1, NodesAreFinite
  <2>3. /\ Cardinality(F) < min + Parallel /\ Cardinality(T) <= Parallel
        /\ ~(Cardinality(F) < min) => T = {}
    BY <1>2 DEF Ready
  <2> HIDE DEF F, T
  <2>4. CASE T = {}
    BY <2>1, <2>3, <2>4
  <2>5. CASE Cardinality(F) < min
    <3>1. Cardinality(F \cup T) = Cardinality(F) + Cardinality(T) - Cardinality(F \cap T)
      BY <2>2, FS_Union
    <3>2. F \cap T \in SUBSET F
      OBVIOUS
    <3>3. Cardinality(F \cap T) \in Nat
      BY <2>2, <3>2, FS_Subset, FS_CardinalityType
    <3>4. Parallel \in Nat
      BY DiscoveryAssumption DEF DiscoveryAssumption
    <3>5. Cardinality(F \cup T) < min + Parallel
      BY <2>2, <2>3, <2>5, <3>1, <3>3, <3>4
    <3> QED BY <2>1, <3>5
  <2> QED BY <2>3, <2>4, <2>5
<1> QED BY <1>4, <1>5, <1>6, <1>7, <1>8 DEF RunInv

-----------------------------------------------------------------------------
(***************************************************************************)
(* What the pairing of the lists does.                                     *)
(***************************************************************************)

\* Each node that was found is in a pair, and no other node is.
LEMMA PairingCovers ==
    ASSUME NEW D \in SUBSET Dvote, NEW W \in SUBSET Web3,
           Cardinality(D) \in Nat, Cardinality(W) \in Nat,
           NEW dvote \in Orders(D), NEW web3 \in Orders(W),
           NEW p \in Pairings(dvote, web3)
    PROVE  /\ p \in Seq(Dvote \X Web3)
           /\ {p[i][1] : i \in DOMAIN p} = D
           /\ {p[i][2] : i \in DOMAIN p} = W
<1>1. /\ dvote \in [1..Cardinality(D) -> D] /\ web3 \in [1..Cardinality(W) -> W]
      /\ \A n \in D : \E i \in 1..Cardinality(D) : dvote[i] = n
      /\ \A n \in W : \E i \in 1..Cardinality(W) : web3[i] = n
  BY DEF Orders
<1>2. Len(dvote) = Cardinality(D) /\ Len(web3) = Cardinality(W)
  BY <1>1
<1>3. PICK length \in Nat :
        /\ Len(dvote) <= length /\ Len(web3) <= length
        /\ p \in [1..length -> Dvote \X Web3]
        /\ \A i \in 1..length :
              /\ p[i][1] \in (IF i <= Len(dvote) THEN {dvote[i]}
                              ELSE {dvote[j] : j \in DOMAIN dvote})
              /\ p[i][2] \in (IF i <= Len(web3) THEN {web3[i]}
                              ELSE {web3[j] : j \in DOMAIN web3})
  <2> DEFINE L == IF Len(dvote) > Len(web3) THEN Len(dvote) ELSE Len(web3)
  <2>1. /\ p \in [1..L -> Dvote \X Web3]
        /\ \A i \in 1..L :
              /\ p[i][1] \in (IF i <= Len(dvote) THEN {dvote[i]}
                              ELSE {dvote[j] : j \in DOMAIN dvote})
              /\ p[i][2] \in (IF i <= Len(web3) THEN {web3[i]}
                              ELSE {web3[j] : j \in DOMAIN web3})
    BY DEF Pairings
  <2>2. L \in Nat /\ Len(dvote) <= L /\ Len(web3) <= L
    BY <1>2
  <2> HIDE DEF L
  <2> QED BY <2>1, <2>2
<1>4. DOMAIN p = 1..length /\ p \in Seq(Dvote \X Web3)
  BY <1>3
<1>5. \A i \in 1..length : p[i][1] \in D /\ p[i][2] \in W
  <2> TAKE i \in 1..length
  <2>1. {dvote[j] : j \in DOMAIN dvote} \subseteq D /\ {web3[j] : j \in DOMAIN web3} \subseteq W
    BY <1>1
  <2>2. i <= Len(dvote) => dvote[i] \in D
    BY <1>1, <1>2
  <2>3. i <= Len(web3) => web3[i] \in W
    BY <1>1, <1>2
  <2> QED BY <1>3, <2>1, <2>2, <2>3
<1>6. ASSUME NEW n \in D PROVE \E i \in 1..length : p[i][1] = n
  <2>1. PICK i \in 1..Cardinality(D) : dvote[i] = n
    BY <1>1
  <2>2. i \in 1..length /\ i <= Len(dvote)
    BY <1>2, <1>3
  <2>3. p[i][1] \in {dvote[i]}
    BY <1>3, <2>2
  <2> QED BY <2>1, <2>2, <2>3
<1>7. ASSUME NEW n \in W PROVE \E i \in 1..length : p[i][2] = n
  <2>1. PICK i \in 1..Cardinality(W) : web3[i] = n
    BY <1>1
  <2>2. i \in 1..length /\ i <= Len(web3)
    BY <1>2, <1>3
  <2>3. p[i][2] \in {web3[i]}
    BY <1>3, <2>2
  <2> QED BY <2>1, <2>2, <2>3
<1> QED BY <1>4, <1>5, <1>6, <1>7

-----------------------------------------------------------------------------
(***************************************************************************)
(* Types.                                                                  *)
(***************************************************************************)

LEMMA FoundTyped ==
    ASSUME TypeOK, NEW r \in Runs
    PROVE  /\ FoundDvote(r) \in SUBSET Dvote /\ FoundWeb3(r) \in SUBSET Web3
           /\ Cardinality(FoundDvote(r)) \in Nat /\ Cardinality(FoundWeb3(r)) \in Nat
<1>1. found[r] \in SUBSET Nodes
  BY DEF TypeOK
<1> QED BY <1>1, NodesAreFinite DEF FoundDvote, FoundWeb3, Kinds

LEMMA DiscoveryStart == Init => DiscoveryInv
<1> SUFFICES ASSUME Init PROVE DiscoveryInv
  OBVIOUS
<1>1. TypeOK
  BY DiscoveryAssumption
  DEF Init, TypeOK, DiscoveryAssumption, NothingUsed, Environments, Archives
<1>2. ASSUME NEW r \in Runs PROVE RunInv(r)
  <2>1. /\ phase[r] = "idle" /\ used[r].min = 0 /\ round[r] = 1 /\ found[r] = {}
        /\ batch[r] = {}
        /\ \A n \in Nodes : late[r][n] = "unchecked" /\ misses[r][n] = 0
    BY DEF Init, NothingUsed
  <2> QED BY <2>1 DEF RunInv, FreshInv, BatchInv, QueueInv, CollectInv, ExhaustInv,
                      PairInv, Checking
<1> QED BY <1>1, <1>2 DEF DiscoveryInv

LEMMA RoundQueueTyped == \A r \in Runs : RoundQueue(r) \in Queues
BY DEF RoundQueue, Queues

LEMMA LaunchTyped ==
    ASSUME TypeOK, NEW r \in Runs, NEW q \in Queues, NEW min \in Nat,
           Launch(r, q, min), owner \in Runs
    PROVE  /\ queue' \in [Runs -> [dvote : SUBSET Dvote, web3 : SUBSET Web3]]
           /\ batch' \in [Runs -> SUBSET Nodes]
           /\ launched' \in [Runs -> BOOLEAN] /\ asked' \in [Runs -> BOOLEAN]
           /\ late' \in [Runs -> [Nodes -> {"unchecked", "no", "yes"}]]
BY LaunchTakes DEF Queues

LEMMA TypeStep ==
    ASSUME TypeOK, NEW r \in Runs, phase[r] # "idle" => owner \in Runs, RunNext(r)
    PROVE  TypeOK'
<1>1. CASE Start(r)
  BY <1>1 DEF TypeOK, Start, Active
<1>2. CASE BootnodesFail(r) \/ BootnodesTooFew(r)
  BY <1>2 DEF TypeOK, BootnodesFail, BootnodesTooFew, Active
<1>3. CASE BootnodesArrive(r)
  <2>1. /\ owner \in Runs /\ Params[owner].min \in Nat
        /\ Launch(r, RoundQueue(r), Params[owner].min)
    BY <1>3, DiscoveryAssumption DEF BootnodesArrive, DiscoveryAssumption
  <2>2. phase' \in [Runs -> {"idle", "done", "failed"} \cup Active]
    BY <1>3 DEF TypeOK, BootnodesArrive, Active
  <2>3. used' \in [Runs -> [env : Environments, min : Nat, archive : Archives]]
    <3>1. /\ used' = [used EXCEPT ![r] = [[@ EXCEPT !.env = Params[owner].env]
                                            EXCEPT !.min = Params[owner].min]]
          /\ used \in [Runs -> [env : Environments, min : Nat, archive : Archives]]
          /\ Params[owner].env \in Environments
      BY <1>3, <2>1 DEF TypeOK, BootnodesArrive, Environments
    <3>2. [[used[r] EXCEPT !.env = Params[owner].env] EXCEPT !.min = Params[owner].min]
            \in [env : Environments, min : Nat, archive : Archives]
      BY <2>1, <3>1
    <3> QED BY <3>1, <3>2
  <2> QED BY <1>3, <2>1, <2>2, <2>3, LaunchTyped, RoundQueueTyped DEF TypeOK, BootnodesArrive
<1>4. ASSUME NEW n \in Nodes, CheckPasses(r, n) \/ CheckDiscards(r, n) \/ CheckTimesOut(r, n)
      PROVE  TypeOK'
  <2>1. batch' \in [Runs -> SUBSET Nodes]
    <3>1. batch' = [batch EXCEPT ![r] = @ \ {n}] /\ batch \in [Runs -> SUBSET Nodes]
      BY <1>4 DEF TypeOK, CheckPasses, CheckDiscards, CheckTimesOut, Settles
    <3> QED BY <3>1
  <2>2. found' \in [Runs -> SUBSET Nodes]
    <3>1. /\ found' = found \/ found' = [found EXCEPT ![r] = @ \cup {n}]
          /\ found \in [Runs -> SUBSET Nodes]
      BY <1>4 DEF TypeOK, CheckPasses, CheckDiscards, CheckTimesOut
    <3> QED BY <3>1
  <2>3. late' \in [Runs -> [Nodes -> {"unchecked", "no", "yes"}]]
    <3>1. /\ \/ late' = late
             \/ late' = [late EXCEPT ![r] = [@ EXCEPT ![n] = "yes"]]
          /\ late \in [Runs -> [Nodes -> {"unchecked", "no", "yes"}]]
      BY <1>4 DEF TypeOK, CheckPasses, CheckDiscards, CheckTimesOut
    <3>2. [late[r] EXCEPT ![n] = "yes"] \in [Nodes -> {"unchecked", "no", "yes"}]
      BY <3>1
    <3> QED BY <3>1, <3>2
  <2>4. misses' \in [Runs -> [Nodes -> 0..Rounds]]
    <3>1. CASE UNCHANGED misses
      BY <3>1 DEF TypeOK
    <3>2. CASE CheckTimesOut(r, n)
      BY <3>2, DiscoveryAssumption DEF TypeOK, CheckTimesOut, DiscoveryAssumption
    <3> QED BY <1>4, <3>1, <3>2 DEF CheckPasses, CheckDiscards
  <2> QED BY <1>4, <2>1, <2>2, <2>3, <2>4
          DEF TypeOK, CheckPasses, CheckDiscards, CheckTimesOut, Settles
<1>5. CASE NextBatch(r)
  <2>1. owner \in Runs /\ Min(r) \in Nat /\ queue[r] \in Queues /\ Launch(r, queue[r], Min(r))
    BY <1>5 DEF NextBatch, BatchSettled, TypeOK, Queues, Min
  <2> QED BY <1>5, <2>1, LaunchTyped DEF TypeOK, NextBatch
<1>6. CASE NextRound(r)
  <2>1. /\ owner \in Runs /\ Min(r) \in Nat /\ RoundQueue(r) \in Queues
        /\ Launch(r, RoundQueue(r), Min(r))
    BY <1>6, RoundQueueTyped DEF NextRound, BatchSettled, TypeOK, Min
  <2>2. round' \in [Runs -> 1..Rounds]
    BY <1>6, DiscoveryAssumption DEF TypeOK, NextRound, DiscoveryAssumption
  <2> QED BY <1>6, <2>1, <2>2, LaunchTyped DEF TypeOK, NextRound
<1>7. CASE GiveUp(r)
  BY <1>7 DEF TypeOK, GiveUp
<1>8. CASE Finish(r)
  <2>1. phase' \in [Runs -> {"idle", "done", "failed"} \cup Active]
    BY <1>8 DEF TypeOK, Finish
  <2>2. used' \in [Runs -> [env : Environments, min : Nat, archive : Archives]]
    <3>1. /\ owner \in Runs
          /\ used' = [used EXCEPT ![r] = [@ EXCEPT !.archive = Params[owner].archive]]
          /\ used \in [Runs -> [env : Environments, min : Nat, archive : Archives]]
      BY <1>8 DEF TypeOK, Finish, BatchSettled
    <3>2. [used[r] EXCEPT !.archive = Params[owner].archive]
            \in [env : Environments, min : Nat, archive : Archives]
      BY <3>1 DEF Archives
    <3> QED BY <3>1, <3>2
  <2>3. pairs' \in [Runs -> Seq(Dvote \X Web3)]
    <3>1. PICK dvote \in Orders(FoundDvote(r)), web3 \in Orders(FoundWeb3(r)) :
            \E p \in Pairings(dvote, web3) : pairs' = [pairs EXCEPT ![r] = p]
      BY <1>8 DEF Finish
    <3>2. PICK p \in Pairings(dvote, web3) : pairs' = [pairs EXCEPT ![r] = p]
      BY <3>1
    <3>3. p \in Seq(Dvote \X Web3)
      BY FoundTyped, PairingCovers
    <3> QED BY <3>2, <3>3 DEF TypeOK
  <2> QED BY <1>8, <2>1, <2>2, <2>3 DEF TypeOK, Finish
<1> QED BY <1>1, <1>2, <1>3, <1>4, <1>5, <1>6, <1>7, <1>8 DEF RunNext, Control

-----------------------------------------------------------------------------
(***************************************************************************)
(* A step of one run and the nodes of the others.  Only the static fields  *)
(* are shared, and no part of the invariant depends on what they hold.     *)
(***************************************************************************)

Untouched(s) ==
    /\ phase'[s] = phase[s] /\ used'[s] = used[s] /\ round'[s] = round[s]
    /\ queue'[s] = queue[s] /\ batch'[s] = batch[s] /\ launched'[s] = launched[s]
    /\ late'[s] = late[s] /\ found'[s] = found[s] /\ pairs'[s] = pairs[s]
    /\ misses'[s] = misses[s]

LEMMA UntouchedKeeps ==
    ASSUME NEW s \in Runs, RunInv(s), Untouched(s), owner \in Runs => owner' \in Runs
    PROVE  RunInv(s)'
<1>1. phase'[s] # "idle" => owner' \in Runs
  BY DEF RunInv, Untouched
<1>2. FreshInv(s)'
  BY DEF RunInv, Untouched, FreshInv
<1>3. BatchInv(s)'
  BY DEF RunInv, Untouched, BatchInv, Checking
<1>4. QueueInv(s)'
  BY DEF RunInv, Untouched, QueueInv, Checking, Short, Min, Waiting, Through, QueueOf
<1>5. CollectInv(s)'
  BY DEF RunInv, Untouched, CollectInv, Min
<1>6. ExhaustInv(s)'
  BY DEF RunInv, Untouched, ExhaustInv, Short, Min
<1>7. PairInv(s)'
  BY DEF RunInv, Untouched, PairInv, FoundDvote, FoundWeb3
<1> QED BY <1>1, <1>2, <1>3, <1>4, <1>5, <1>6, <1>7 DEF RunInv

LEMMA OthersUntouched ==
    ASSUME TypeOK, NEW r \in Runs, NEW s \in Runs, s # r, RunNext(r)
    PROVE  Untouched(s) /\ (owner \in Runs => owner' \in Runs)
<1>1. CASE Start(r)
  BY <1>1 DEF TypeOK, Start, Untouched
<1>2. CASE BootnodesFail(r) \/ BootnodesTooFew(r) \/ GiveUp(r)
  BY <1>2 DEF TypeOK, BootnodesFail, BootnodesTooFew, GiveUp, Untouched
<1>3. ASSUME NEW q, NEW min, Launch(r, q, min)
      PROVE  /\ queue'[s] = queue[s] /\ batch'[s] = batch[s] /\ late'[s] = late[s]
             /\ launched'[s] = launched[s]
  BY <1>3 DEF TypeOK, Launch
<1>4. CASE BootnodesArrive(r)
  BY <1>3, <1>4 DEF TypeOK, BootnodesArrive, Untouched
<1>5. CASE NextBatch(r)
  BY <1>3, <1>5 DEF TypeOK, NextBatch, Untouched
<1>6. CASE NextRound(r)
  BY <1>3, <1>6 DEF TypeOK, NextRound, Untouched
<1>7. CASE Finish(r)
  BY <1>7 DEF TypeOK, Finish, Untouched
<1>8. ASSUME NEW n \in Nodes, CheckPasses(r, n) \/ CheckDiscards(r, n) \/ CheckTimesOut(r, n)
      PROVE  Untouched(s) /\ owner' = owner
  BY <1>8 DEF TypeOK, CheckPasses, CheckDiscards, CheckTimesOut, Settles, Untouched
<1> QED BY <1>1, <1>2, <1>4, <1>5, <1>6, <1>7, <1>8 DEF RunNext, Control

-----------------------------------------------------------------------------
(***************************************************************************)
(* A step of a run and its own nodes.  First the three launches: where the *)
(* nodes stand is what the launch asks for.                                *)
(***************************************************************************)

LEMMA FirstLaunch ==
    ASSUME TypeOK, NEW r \in Runs, RunInv(r), BootnodesArrive(r)
    PROVE  /\ owner \in Runs /\ Params[owner].min \in Nat
           /\ Ready(r, RoundQueue(r), Params[owner].min, round'[r])
<1>1. /\ owner \in Runs /\ Params[owner].min \in Nat \ {0} /\ Parallel \in Nat \ {0}
      /\ RoundQueue(r) \in Queues
  BY RoundQueueTyped, DiscoveryAssumption
  DEF BootnodesArrive, RunInv, DiscoveryAssumption
<1>2. /\ round'[r] = 1 /\ found[r] = {}
      /\ \A n \in Nodes : late[r][n] = "unchecked" /\ misses[r][n] = 0
  BY DEF BootnodesArrive, RunInv, FreshInv
<1>3. \A kind \in Kinds : OfKind(RoundQueue(r), kind) = kind /\ kind \subseteq Nodes
  <2>1. \A kind \in Kinds : /\ OfKind(RoundQueue(r), kind) = {n \in kind : ToCheck(r, n)}
                            /\ kind \subseteq Nodes
    BY <1>1, KindsAreApart DEF Kinds, RoundQueue
  <2>2. \A n \in Nodes : ToCheck(r, n)
    BY <1>2 DEF ToCheck
  <2> QED BY <2>1, <2>2
<1>4. \A kind \in Kinds : Cardinality(found[r] \cap kind) = 0
  <2>1. \A kind \in Kinds : found[r] \cap kind = {}
    BY <1>2
  <2> QED BY <2>1, FS_EmptySet
<1>5. Ready(r, RoundQueue(r), Params[owner].min, 1)
  <2> SUFFICES ASSUME NEW kind \in Kinds
               PROVE  /\ Cardinality(found[r] \cap kind) < Params[owner].min + Parallel
                      /\ OfKind(RoundQueue(r), kind) \cap found[r] = {}
                      /\ \A m \in OfKind(RoundQueue(r), kind) :
                            late[r][m] \in {"unchecked", "yes"} /\ misses[r][m] = 1 - 1
                      /\ kind \ (found[r] \cup OfKind(RoundQueue(r), kind)) = {}
    BY DEF Ready
  <2>1. Cardinality(found[r] \cap kind) < Params[owner].min + Parallel
    BY <1>1, <1>4
  <2> QED BY <1>2, <1>3, <2>1
<1> QED BY <1>1, <1>2, <1>5

\* Between two batches of a round the queue holds just the nodes whose turn has
\* not come.
LEMMA NextLaunch ==
    ASSUME TypeOK, NEW r \in Runs, RunInv(r), NextBatch(r)
    PROVE  /\ owner \in Runs /\ Min(r) \in Nat /\ queue[r] \in Queues
           /\ Ready(r, queue[r], Min(r), round'[r])
<1>1. /\ owner \in Runs /\ Min(r) \in Nat /\ queue[r] \in Queues
      /\ batch[r] = {} /\ Checking(r) /\ round'[r] = round[r]
  BY DEF NextBatch, BatchSettled, RunInv, TypeOK, Queues, Min, Checking
<1>2. ASSUME NEW kind \in Kinds
      PROVE  Cardinality(found[r] \cap kind) < Min(r) + Parallel
  <2>1. found[r] \cup batch[r] = found[r]
    BY <1>1
  <2> QED BY <1>1, <2>1 DEF RunInv, CollectInv, Checking
<1>3. ASSUME NEW kind \in Kinds, Short(r, kind)
      PROVE  /\ OfKind(queue[r], kind) \cap found[r] = {}
             /\ \A m \in OfKind(queue[r], kind) :
                   late[r][m] \in {"unchecked", "yes"} /\ misses[r][m] = round[r] - 1
             /\ \A m \in kind \ (found[r] \cup OfKind(queue[r], kind)) :
                   late[r][m] = "no" \/ (late[r][m] = "yes" /\ misses[r][m] = round[r])
  <2>1. /\ \A n \in kind \ found[r] : Waiting(r, kind, n) \/ Through(r, kind, n)
        /\ QueueOf(r, kind) \cap found[r] = {}
    BY <1>1, <1>3 DEF RunInv, QueueInv
  <2>2. OfKind(queue[r], kind) \subseteq kind
    BY <1>1, KindsAreApart
  <2> QED BY <2>1, <2>2 DEF Waiting, Through, QueueOf
<1> QED BY <1>1, <1>2, <1>3 DEF Ready, Short

\* At the end of a round the nodes to check are those that timed out in it.
LEMMA RoundLaunch ==
    ASSUME TypeOK, NEW r \in Runs, RunInv(r), NextRound(r)
    PROVE  /\ owner \in Runs /\ Min(r) \in Nat
           /\ Ready(r, RoundQueue(r), Min(r), round'[r])
<1>1. /\ owner \in Runs /\ Min(r) \in Nat /\ RoundQueue(r) \in Queues
      /\ batch[r] = {} /\ Checking(r) /\ ~launched[r]
      /\ round[r] \in Nat /\ round'[r] = round[r] + 1
  BY RoundQueueTyped DEF NextRound, BatchSettled, RunInv, TypeOK, Min, Checking
<1>2. ASSUME NEW kind \in Kinds
      PROVE  Cardinality(found[r] \cap kind) < Min(r) + Parallel
  <2>1. found[r] \cup batch[r] = found[r]
    BY <1>1
  <2> QED BY <1>1, <2>1 DEF RunInv, CollectInv, Checking
<1>3. \A kind \in Kinds : OfKind(RoundQueue(r), kind) = {n \in kind : ToCheck(r, n)}
  BY <1>1, KindsAreApart DEF Kinds, RoundQueue
<1>4. ASSUME NEW kind \in Kinds, Short(r, kind)
      PROVE  /\ OfKind(RoundQueue(r), kind) \cap found[r] = {}
             /\ \A m \in OfKind(RoundQueue(r), kind) :
                   /\ late[r][m] \in {"unchecked", "yes"}
                   /\ misses[r][m] = (round[r] + 1) - 1
             /\ \A m \in kind \ (found[r] \cup OfKind(RoundQueue(r), kind)) :
                   late[r][m] = "no"
  <2>1. \A n \in kind \ found[r] :
           late[r][n] = "no" \/ (late[r][n] = "yes" /\ misses[r][n] = round[r])
    BY <1>1, <1>4 DEF RunInv, QueueInv, Waiting, Through
  <2>2. \A n \in kind : n \in OfKind(RoundQueue(r), kind) <=> ToCheck(r, n)
    BY <1>3
  <2>3. OfKind(RoundQueue(r), kind) \subseteq kind
    BY <1>3
  <2>4. (round[r] + 1) - 1 = round[r]
    BY <1>1
  <2> QED BY <2>1, <2>2, <2>3, <2>4 DEF ToCheck
<1> QED BY <1>1, <1>2, <1>4 DEF Ready, Short

\* No step launches a check of a node that its run has found, discarded, or
\* checked in this round.
LEMMA LaunchStep ==
    ASSUME TypeOK, NEW r \in Runs, RunInv(r),
           BootnodesArrive(r) \/ NextBatch(r) \/ NextRound(r)
    PROVE  /\ RunInv(r)'
           /\ \A n \in batch'[r] : /\ n \notin found[r] /\ late[r][n] # "no"
                                   /\ misses[r][n] = round'[r] - 1
<1>1. CASE BootnodesArrive(r)
  <2>1. /\ Launch(r, RoundQueue(r), Params[owner].min) /\ owner' = owner
        /\ found' = found /\ misses' = misses
        /\ phase'[r] = "checking" /\ used'[r].min = Params[owner].min
    BY <1>1 DEF BootnodesArrive, TypeOK
  <2>2. /\ owner \in Runs /\ Params[owner].min \in Nat
        /\ Ready(r, RoundQueue(r), Params[owner].min, round'[r])
        /\ RoundQueue(r) \in Queues
    BY <1>1, FirstLaunch, RoundQueueTyped
  <2> QED BY <2>1, <2>2, LaunchKeeps
<1>2. CASE NextBatch(r)
  <2>1. /\ Launch(r, queue[r], Min(r)) /\ owner' = owner
        /\ found' = found /\ misses' = misses
        /\ phase'[r] = "checking" /\ used'[r].min = Min(r)
    BY <1>2 DEF NextBatch, BatchSettled, Min
  <2>2. /\ owner \in Runs /\ Min(r) \in Nat /\ queue[r] \in Queues
        /\ Ready(r, queue[r], Min(r), round'[r])
    BY <1>2, NextLaunch
  <2> QED BY <2>1, <2>2, LaunchKeeps
<1>3. CASE NextRound(r)
  <2>1. /\ Launch(r, RoundQueue(r), Min(r)) /\ owner' = owner
        /\ found' = found /\ misses' = misses
        /\ phase'[r] = "checking" /\ used'[r].min = Min(r)
    BY <1>3 DEF NextRound, BatchSettled, Min
  <2>2. /\ owner \in Runs /\ Min(r) \in Nat /\ RoundQueue(r) \in Queues
        /\ Ready(r, RoundQueue(r), Min(r), round'[r])
    BY <1>3, RoundLaunch, RoundQueueTyped
  <2> QED BY <2>1, <2>2, LaunchKeeps
<1> QED BY <1>1, <1>2, <1>3

-----------------------------------------------------------------------------
(***************************************************************************)
(* The end of a check, and the end of a run.                               *)
(***************************************************************************)

LEMMA SettleStep ==
    ASSUME TypeOK, NEW r \in Runs, RunInv(r), NEW n \in Nodes,
           CheckPasses(r, n) \/ CheckDiscards(r, n) \/ CheckTimesOut(r, n)
    PROVE  RunInv(r)'
<1>1. /\ n \in batch[r] /\ batch'[r] = batch[r] \ {n}
      /\ phase'[r] = phase[r] /\ used'[r] = used[r] /\ round'[r] = round[r]
      /\ queue'[r] = queue[r] /\ launched'[r] = launched[r] /\ owner' = owner
  BY DEF TypeOK, CheckPasses, CheckDiscards, CheckTimesOut, Settles
<1>2. /\ Checking(r) /\ launched[r] /\ owner \in Runs
      /\ \A m \in batch[r] : m \notin found[r] /\ late[r][m] = "no"
                             /\ misses[r][m] = round[r] - 1
  BY <1>1 DEF RunInv, BatchInv, Checking
<1>3. \/ found'[r] = found[r] \cup {n} /\ late'[r] = late[r] /\ misses'[r] = misses[r]
      \/ found'[r] = found[r] /\ late'[r] = late[r] /\ misses'[r] = misses[r]
      \/ /\ found'[r] = found[r] /\ late'[r][n] = "yes" /\ misses'[r][n] = round[r]
         /\ \A m \in Nodes \ {n} : late'[r][m] = late[r][m] /\ misses'[r][m] = misses[r][m]
  <2>1. CASE CheckPasses(r, n)
    BY <2>1 DEF TypeOK, CheckPasses
  <2>2. CASE CheckDiscards(r, n)
    BY <2>2 DEF CheckDiscards
  <2>3. CASE CheckTimesOut(r, n)
    <3>1. /\ late \in [Runs -> [Nodes -> {"unchecked", "no", "yes"}]]
          /\ misses \in [Runs -> [Nodes -> 0..Rounds]]
          /\ round[r] \in 1..Rounds /\ Rounds \in Nat
      BY DiscoveryAssumption DEF TypeOK, DiscoveryAssumption
    <3>2. misses[r][n] = round[r] - 1 /\ misses[r][n] # Rounds
      BY <1>1, <1>2, <3>1
    <3>3. /\ found' = found /\ late' = [late EXCEPT ![r] = [@ EXCEPT ![n] = "yes"]]
          /\ misses' = [misses EXCEPT ![r] = [@ EXCEPT ![n] = misses[r][n] + 1]]
      BY <2>3, <3>1, <3>2 DEF CheckTimesOut
    <3>4. misses[r][n] + 1 = round[r]
      BY <3>1, <3>2
    <3> QED BY <3>1, <3>3, <3>4
  <2> QED BY <2>1, <2>2, <2>3
<1>4. \A m \in Nodes \ {n} : late'[r][m] = late[r][m] /\ misses'[r][m] = misses[r][m]
  BY <1>3
<1>5. batch[r] \in SUBSET Nodes /\ found[r] \in SUBSET Nodes /\ found'[r] \in SUBSET Nodes
  BY <1>3 DEF TypeOK
<1>6. FreshInv(r)' /\ ExhaustInv(r)' /\ PairInv(r)'
  BY <1>1, <1>2 DEF FreshInv, ExhaustInv, PairInv, Checking
<1>7. BatchInv(r)'
  <2>1. \A m \in batch'[r] : m \in batch[r] /\ m \in Nodes \ {n} /\ m \notin found'[r]
    BY <1>1, <1>2, <1>3, <1>5
  <2>2. Checking(r)'
    BY <1>1, <1>2 DEF Checking
  <2> QED BY <1>1, <1>2, <1>4, <2>1, <2>2 DEF BatchInv
<1>8. ASSUME NEW kind \in Kinds, Short(r, kind)'
      PROVE  Short(r, kind)
  <2>1. found[r] \cap kind \in SUBSET (found'[r] \cap kind)
    BY <1>3
  <2>2. /\ IsFiniteSet(found'[r] \cap kind) /\ Cardinality(found'[r] \cap kind) \in Nat
        /\ Cardinality(found[r] \cap kind) \in Nat
    BY <1>5, NodesAreFinite
  <2>3. Cardinality(found[r] \cap kind) <= Cardinality(found'[r] \cap kind)
    BY <2>1, <2>2, FS_Subset
  <2>4. Min(r) \in Nat /\ Min(r)' = Min(r)
    BY <1>1 DEF TypeOK, Min
  <2> QED BY <1>8, <2>2, <2>3, <2>4 DEF Short
<1>9. QueueInv(r)'
  <2> SUFFICES ASSUME NEW kind \in Kinds, Short(r, kind)
               PROVE  /\ \A m \in kind \ found'[r] :
                            \/ m \in batch'[r] \/ Waiting(r, kind, m)' \/ Through(r, kind, m)'
                      /\ QueueOf(r, kind)' \cap (found'[r] \cup batch'[r]) = {}
                      /\ ~launched'[r] => QueueOf(r, kind)' = {}
    BY <1>8 DEF QueueInv
  <2>1. /\ \A m \in kind \ found[r] :
              m \in batch[r] \/ Waiting(r, kind, m) \/ Through(r, kind, m)
        /\ QueueOf(r, kind) \cap (found[r] \cup batch[r]) = {}
    BY <1>2 DEF RunInv, QueueInv
  <2>2. QueueOf(r, kind)' = QueueOf(r, kind) /\ n \notin QueueOf(r, kind)
    BY <1>1, <2>1 DEF QueueOf
  <2>3. ASSUME NEW m \in kind \ found'[r], m # n
        PROVE  m \in batch'[r] \/ Waiting(r, kind, m)' \/ Through(r, kind, m)'
    <3>1. m \in Nodes \ {n} /\ m \in kind \ found[r]
      BY <1>3, <2>3, KindsAreApart DEF Kinds
    <3>2. late'[r][m] = late[r][m] /\ misses'[r][m] = misses[r][m]
      BY <1>4, <3>1
    <3> QED BY <1>1, <2>1, <2>2, <2>3, <3>1, <3>2 DEF Waiting, Through
  <2>4. ASSUME n \in kind \ found'[r]
        PROVE  Through(r, kind, n)'
    <3>1. late'[r][n] = "no" \/ (late'[r][n] = "yes" /\ misses'[r][n] = round'[r])
      BY <1>1, <1>2, <1>3, <2>4
    <3> QED BY <2>2, <3>1 DEF Through
  <2>5. QueueOf(r, kind)' \cap (found'[r] \cup batch'[r]) = {}
    BY <1>1, <1>3, <2>1, <2>2
  <2> QED BY <1>1, <1>2, <2>3, <2>4, <2>5
<1>10. CollectInv(r)'
  <2> SUFFICES ASSUME NEW kind \in Kinds
               PROVE  Cardinality((found'[r] \cup batch'[r]) \cap kind) < Min(r) + Parallel
    BY <1>1 DEF CollectInv, Min
  <2> DEFINE C == (found[r] \cup batch[r]) \cap kind
             D == (found'[r] \cup batch'[r]) \cap kind
  <2>1. D \in SUBSET C /\ IsFiniteSet(C) /\ Cardinality(C) \in Nat /\ Cardinality(D) \in Nat
    <3>1. found[r] \cup batch[r] \in SUBSET Nodes /\ found'[r] \cup batch'[r] \in SUBSET Nodes
      BY <1>1, <1>5
    <3>2. D \in SUBSET C
      BY <1>1, <1>3
    <3> QED BY <3>1, <3>2, NodesAreFinite
  <2>2. Cardinality(C) < Min(r) + Parallel
    BY <1>2 DEF RunInv, CollectInv, Checking
  <2>3. Min(r) \in Nat /\ Parallel \in Nat
    BY DiscoveryAssumption DEF TypeOK, Min, DiscoveryAssumption
  <2> HIDE DEF C, D
  <2>4. Cardinality(D) <= Cardinality(C)
    BY <2>1, FS_Subset
  <2>5. Cardinality(D) < Min(r) + Parallel
    BY <2>1, <2>2, <2>3, <2>4
  <2> QED BY <2>5 DEF D
<1> QED BY <1>1, <1>2, <1>6, <1>7, <1>9, <1>10 DEF RunInv

LEMMA StartStep ==
    ASSUME TypeOK, NEW r \in Runs, RunInv(r),
           Start(r) \/ BootnodesFail(r) \/ BootnodesTooFew(r)
    PROVE  RunInv(r)'
<1>1. /\ phase[r] \in {"idle", "bootnodes"} /\ phase'[r] \in {"bootnodes", "failed"}
      /\ used'[r] = used[r] /\ round'[r] = round[r] /\ found'[r] = found[r]
      /\ late'[r] = late[r] /\ misses'[r] = misses[r] /\ batch'[r] = batch[r]
      /\ owner' \in Runs
  BY DEF TypeOK, RunInv, Start, BootnodesFail, BootnodesTooFew
<1>2. FreshInv(r)
  BY DEF RunInv
<1>3. FreshInv(r)' /\ Min(r)' = 0
  BY <1>1, <1>2 DEF FreshInv, Min
<1>4. batch'[r] = {}
  BY <1>1 DEF RunInv, BatchInv, Checking
<1> QED BY <1>1, <1>3, <1>4
    DEF RunInv, BatchInv, QueueInv, CollectInv, ExhaustInv, PairInv, Checking

LEMMA GiveUpStep ==
    ASSUME TypeOK, NEW r \in Runs, RunInv(r), GiveUp(r)
    PROVE  RunInv(r)'
<1>1. /\ Checking(r) /\ batch[r] = {} /\ ~launched[r] /\ round[r] = Rounds /\ owner \in Runs
      /\ phase'[r] = "failed" /\ used'[r] = used[r] /\ found'[r] = found[r]
      /\ late'[r] = late[r] /\ misses'[r] = misses[r] /\ batch'[r] = {} /\ owner' = owner
  BY DEF TypeOK, RunInv, GiveUp, BatchSettled, Checking
<1>2. PICK kind \in Kinds : Short(r, kind)
  <2>1. /\ Cardinality(FoundDvote(r)) \in Nat /\ Cardinality(FoundWeb3(r)) \in Nat
        /\ Min(r) \in Nat /\ ~Enough(r)
    BY FoundTyped DEF GiveUp, TypeOK, Min
  <2>2. \/ Cardinality(found[r] \cap Dvote) < Min(r)
        \/ Cardinality(found[r] \cap Web3) < Min(r)
    BY <2>1 DEF Enough, FoundDvote, FoundWeb3
  <2> QED BY <2>2 DEF Short, Kinds
<1>3. \A n \in kind \ found[r] : late[r][n] = "no" \/ misses[r][n] = Rounds
  BY <1>1, <1>2 DEF RunInv, QueueInv, Waiting, Through
<1>4. ExhaustInv(r)'
  <2>1. Short(r, kind)'
    BY <1>1, <1>2 DEF Short, Min
  <2> QED BY <1>1, <1>3, <2>1 DEF ExhaustInv
<1> QED BY <1>1, <1>4
    DEF RunInv, FreshInv, BatchInv, QueueInv, CollectInv, PairInv, Checking

LEMMA FinishStep ==
    ASSUME TypeOK, NEW r \in Runs, RunInv(r), Finish(r)
    PROVE  RunInv(r)'
<1>1. /\ Checking(r) /\ batch[r] = {} /\ owner \in Runs
      /\ phase'[r] = "done" /\ Min(r)' = Min(r) /\ found'[r] = found[r]
      /\ batch'[r] = batch[r] /\ owner' = owner
  BY DEF TypeOK, RunInv, Finish, BatchSettled, Checking, Min
<1>2. PairInv(r)'
  <2>1. PICK dvote \in Orders(FoundDvote(r)), web3 \in Orders(FoundWeb3(r)) :
          \E p \in Pairings(dvote, web3) : pairs' = [pairs EXCEPT ![r] = p]
    BY DEF Finish
  <2>2. PICK p \in Pairings(dvote, web3) : pairs' = [pairs EXCEPT ![r] = p]
    BY <2>1
  <2>3. {p[i][1] : i \in DOMAIN p} = FoundDvote(r) /\ {p[i][2] : i \in DOMAIN p} = FoundWeb3(r)
    BY FoundTyped, PairingCovers
  <2>4. pairs'[r] = p
    BY <2>2 DEF TypeOK
  <2> QED BY <1>1, <2>3, <2>4 DEF PairInv, FoundDvote, FoundWeb3
<1>3. CollectInv(r)'
  BY <1>1 DEF RunInv, CollectInv, Checking
<1> QED BY <1>1, <1>2, <1>3 DEF RunInv, FreshInv, BatchInv, QueueInv, ExhaustInv, Checking

-----------------------------------------------------------------------------
(***************************************************************************)
(* The invariant, and the results.                                         *)
(***************************************************************************)

LEMMA OwnStep ==
    ASSUME TypeOK, NEW r \in Runs, RunInv(r), RunNext(r)
    PROVE  RunInv(r)'
BY StartStep, LaunchStep, SettleStep, GiveUpStep, FinishStep DEF RunNext, Control

LEMMA DiscoveryStep == DiscoveryInv /\ [Next]_vars => DiscoveryInv'
<1> SUFFICES ASSUME DiscoveryInv, [Next]_vars PROVE DiscoveryInv'
  OBVIOUS
<1>1. TypeOK /\ \A r \in Runs : RunInv(r)
  BY DEF DiscoveryInv
<1>2. ASSUME NEW r \in Runs, RunNext(r) PROVE DiscoveryInv'
  <2>1. phase[r] # "idle" => owner \in Runs
    BY <1>1 DEF RunInv
  <2>2. TypeOK'
    BY <1>1, <1>2, <2>1, TypeStep
  <2>3. RunInv(r)'
    BY <1>1, <1>2, OwnStep
  <2>4. ASSUME NEW s \in Runs, s # r PROVE RunInv(s)'
    BY <1>1, <1>2, <2>4, OthersUntouched, UntouchedKeeps
  <2> QED BY <2>2, <2>3, <2>4 DEF DiscoveryInv
<1>3. CASE UNCHANGED vars
  <2>1. TypeOK'
    BY <1>1, <1>3 DEF TypeOK, vars
  <2>2. ASSUME NEW s \in Runs PROVE RunInv(s)'
    <3>1. Untouched(s) /\ owner' = owner
      BY <1>3 DEF Untouched, vars
    <3> QED BY <1>1, <3>1, UntouchedKeeps
  <2> QED BY <2>1, <2>2 DEF DiscoveryInv
<1> QED BY <1>2, <1>3 DEF Next, Finished

LEMMA DiscoveryInvariant == Spec => []DiscoveryInv
BY DiscoveryStart, DiscoveryStep, PTL DEF Spec

-----------------------------------------------------------------------------
(***************************************************************************)
(* How much a run may still do.                                            *)
(***************************************************************************)

LEMMA SetsOfNodesAreFinite ==
    /\ IsFiniteSet(Nodes) /\ Cardinality(Nodes) \in Nat
    /\ \A S \in SUBSET Nodes : /\ IsFiniteSet(S) /\ Cardinality(S) \in Nat
                               /\ Cardinality(S) <= Cardinality(Nodes)
<1>1. IsFiniteSet(Nodes)
  BY NodesAreFinite, KindsAreApart, FS_Union
<1> QED BY <1>1, FS_Subset, FS_CardinalityType

\* The nodes of a queue, of either kind.
InQueue(q) == q.dvote \cup q.web3

\* What a batch takes is not in the queue any more.
LEMMA LaunchTakesOff ==
    ASSUME TypeOK, NEW r \in Runs, NEW q \in Queues, NEW min \in Nat,
           Launch(r, q, min), owner \in Runs
    PROVE  /\ batch'[r] \in SUBSET Nodes /\ InQueue(q) \in SUBSET Nodes
           /\ InQueue(queue'[r]) \in SUBSET Nodes
           /\ Cardinality(InQueue(queue'[r])) + Cardinality(batch'[r])
                = Cardinality(InQueue(q))
           /\ launched'[r] = (batch'[r] # {})
<1>1. /\ queue'[r] \in Queues /\ batch'[r] \in SUBSET Nodes
      /\ launched'[r] = (batch'[r] # {}) /\ TakesFrom(r, q, min)
  BY LaunchTakes
<1>2. \A p \in Queues : /\ InQueue(p) = OfKind(p, Dvote) \cup OfKind(p, Web3)
                        /\ InQueue(p) \in SUBSET Nodes
  BY KindsAreApart DEF InQueue, Queues
<1>3. /\ OfKind(queue'[r], Dvote) = OfKind(q, Dvote) \ batch'[r]
      /\ OfKind(queue'[r], Web3) = OfKind(q, Web3) \ batch'[r]
      /\ batch'[r] \cap Dvote \subseteq OfKind(q, Dvote)
      /\ batch'[r] \cap Web3 \subseteq OfKind(q, Web3)
  BY <1>1 DEF TakesFrom, Kinds
<1>4. InQueue(queue'[r]) = InQueue(q) \ batch'[r] /\ batch'[r] \subseteq InQueue(q)
  <2>1. batch'[r] \subseteq Dvote \cup Web3
    BY <1>1, KindsAreApart
  <2> QED BY <1>1, <1>2, <1>3, <2>1
<1> DEFINE Q == InQueue(q)
           B == batch'[r]
<1>5. IsFiniteSet(Q) /\ IsFiniteSet(B) /\ Q \cap B = B
  BY <1>1, <1>2, <1>4, SetsOfNodesAreFinite
<1>6. Cardinality(Q \ B) = Cardinality(Q) - Cardinality(B)
  <2> HIDE DEF Q, B
  <2>1. Cardinality(Q \ B) = Cardinality(Q) - Cardinality(Q \cap B)
    BY <1>5, FS_Difference
  <2> QED BY <1>5, <2>1
<1>7. Cardinality(Q) \in Nat /\ Cardinality(B) \in Nat
  BY <1>5, FS_CardinalityType
<1>8. Cardinality(Q \ B) + Cardinality(B) = Cardinality(Q)
  <2> HIDE DEF Q, B
  <2> QED BY <1>6, <1>7
<1> QED BY <1>1, <1>2, <1>4, <1>8

\* A round less is worth more than all that one round may do.
LEMMA RoundsLess ==
    ASSUME NEW R \in Nat, NEW n \in Nat, n < R, NEW W \in Nat
    PROVE  (R - n) * W = (R - (n + 1)) * W + W
<1>1. R - (n + 1) \in Nat
  OBVIOUS
<1>2. \A k \in Nat : (k + 1) * W = k * W + W
  OBVIOUS
<1>3. R - n = (R - (n + 1)) + 1
  OBVIOUS
<1> QED BY <1>1, <1>2, <1>3

LEMMA RunAdvances ==
    ASSUME TypeOK, NEW r \in Runs, RunInv(r), RunNext(r),
           phase[r] = "checking", phase'[r] = "checking"
    PROVE  StepsLeft(r)' < StepsLeft(r)
<1> DEFINE N == Cardinality(Nodes)
           Left(n, q, b, l) == (Rounds - n) * (2 * N + 2) + 2 * q + b + (IF l THEN 1 ELSE 0)
           waiting == Cardinality(InQueue(queue[r]))
           taken == Cardinality(batch'[r])
<1>1. /\ N \in Nat /\ Rounds \in Nat /\ round[r] \in 1..Rounds
      /\ waiting \in Nat /\ Cardinality(batch[r]) \in Nat /\ launched[r] \in BOOLEAN
      /\ queue[r] \in Queues /\ InQueue(queue[r]) \in SUBSET Nodes
      /\ owner \in Runs /\ Min(r) \in Nat
  <2>1. queue[r] \in Queues /\ batch[r] \in SUBSET Nodes /\ round[r] \in 1..Rounds
        /\ launched[r] \in BOOLEAN /\ Min(r) \in Nat
    BY DEF TypeOK, Queues, Min
  <2>2. InQueue(queue[r]) \in SUBSET Nodes
    BY <2>1, KindsAreApart DEF InQueue, Queues
  <2>3. Rounds \in Nat
    BY DiscoveryAssumption DEF DiscoveryAssumption
  <2>4. owner \in Runs
    BY DEF RunInv
  <2> QED BY <2>1, <2>2, <2>3, <2>4, SetsOfNodesAreFinite
<1>2. StepsLeft(r) = Left(round[r], waiting, Cardinality(batch[r]), launched[r])
  BY DEF StepsLeft, InQueue
<1>3. StepsLeft(r)' = Left(round'[r], Cardinality(InQueue(queue'[r])), taken, launched'[r])
  BY DEF StepsLeft, InQueue
<1>4. \A n \in 1..Rounds : (Rounds - n) * (2 * N + 2) \in Int
  BY <1>1
<1>5. CASE NextBatch(r)
  <2>1. /\ Launch(r, queue[r], Min(r)) /\ round'[r] = round[r]
        /\ batch[r] = {} /\ launched[r]
    BY <1>5 DEF NextBatch, BatchSettled
  <2>2. /\ Cardinality(InQueue(queue'[r])) + taken = waiting
        /\ launched'[r] = (batch'[r] # {})
        /\ batch'[r] \in SUBSET Nodes /\ InQueue(queue'[r]) \in SUBSET Nodes
    BY <1>1, <2>1, LaunchTakesOff
  <2>3. /\ taken \in Nat /\ Cardinality(InQueue(queue'[r])) \in Nat
        /\ batch'[r] # {} => taken # 0
        /\ Cardinality(batch[r]) = 0
    BY <2>1, <2>2, SetsOfNodesAreFinite, FS_EmptySet
  <2>4. Left(round[r], Cardinality(InQueue(queue'[r])), taken, launched'[r])
          < Left(round[r], waiting, Cardinality(batch[r]), launched[r])
    <3> DEFINE P == (Rounds - round[r]) * (2 * N + 2)
               w == Cardinality(InQueue(queue'[r]))
    <3>1. P \in Int
      BY <1>1, <1>4
    <3>2. /\ w \in Nat /\ taken \in Nat /\ waiting \in Nat /\ w + taken = waiting
          /\ launched'[r] => taken # 0
      BY <1>1, <2>2, <2>3
    <3> HIDE DEF P, w, waiting, taken
    <3>3. P + 2 * w + taken + (IF launched'[r] THEN 1 ELSE 0) < P + 2 * waiting + 0 + 1
      BY <3>1, <3>2
    <3> QED BY <2>1, <2>3, <3>3 DEF P, w
  <2> QED BY <1>2, <1>3, <2>1, <2>4
<1>6. CASE NextRound(r)
  <2>1. /\ Launch(r, RoundQueue(r), Min(r)) /\ round'[r] = round[r] + 1 /\ round[r] < Rounds
        /\ batch[r] = {} /\ ~launched[r]
    BY <1>6 DEF NextRound, BatchSettled, TypeOK
  <2>2. /\ Cardinality(InQueue(queue'[r])) + taken = Cardinality(InQueue(RoundQueue(r)))
        /\ InQueue(RoundQueue(r)) \in SUBSET Nodes
        /\ batch'[r] \in SUBSET Nodes /\ InQueue(queue'[r]) \in SUBSET Nodes
    BY <1>1, <2>1, LaunchTakesOff, RoundQueueTyped
  <2>3. /\ taken \in Nat /\ Cardinality(InQueue(queue'[r])) \in Nat
        /\ Cardinality(InQueue(queue'[r])) + taken <= N
        /\ Cardinality(batch[r]) = 0
    BY <2>1, <2>2, SetsOfNodesAreFinite, FS_EmptySet
  <2>4. (Rounds - round[r]) * (2 * N + 2) = (Rounds - (round[r] + 1)) * (2 * N + 2) + (2 * N + 2)
    <3> HIDE DEF N
    <3>1. 2 * N + 2 \in Nat /\ round[r] \in Nat
      BY <1>1
    <3> QED BY <1>1, <2>1, <3>1, RoundsLess
  <2>5. Left(round[r] + 1, Cardinality(InQueue(queue'[r])), taken, launched'[r])
          < Left(round[r], waiting, Cardinality(batch[r]), launched[r])
    <3> DEFINE P == (Rounds - (round[r] + 1)) * (2 * N + 2)
               O == (Rounds - round[r]) * (2 * N + 2)
               w == Cardinality(InQueue(queue'[r]))
    <3>1. P \in Int /\ O = P + (2 * N + 2)
      BY <1>1, <1>4, <2>1, <2>4
    <3> HIDE DEF P, O, w, waiting, taken, N
    <3>2. P + 2 * w + taken + (IF launched'[r] THEN 1 ELSE 0) < O + 2 * waiting + 0 + 0
      BY <1>1, <2>3, <3>1 DEF w
    <3> QED BY <2>1, <2>3, <3>2 DEF P, O, w
  <2> QED BY <1>2, <1>3, <2>1, <2>5
<1>7. ASSUME NEW n \in Nodes, CheckPasses(r, n) \/ CheckDiscards(r, n) \/ CheckTimesOut(r, n)
      PROVE  StepsLeft(r)' < StepsLeft(r)
  <2>1. /\ n \in batch[r] /\ batch'[r] = batch[r] \ {n} /\ round'[r] = round[r]
        /\ queue'[r] = queue[r] /\ launched'[r] = launched[r]
    BY <1>7 DEF TypeOK, CheckPasses, CheckDiscards, CheckTimesOut, Settles
  <2>2. taken = Cardinality(batch[r]) - 1
    <3>1. IsFiniteSet(batch[r])
      BY SetsOfNodesAreFinite DEF TypeOK
    <3> QED BY <2>1, <3>1, FS_RemoveElement
  <2>3. Left(round[r], waiting, taken, launched[r])
          < Left(round[r], waiting, Cardinality(batch[r]), launched[r])
    <3> DEFINE P == (Rounds - round[r]) * (2 * N + 2)
               b == Cardinality(batch[r])
    <3>1. P \in Int /\ b \in Nat /\ taken = b - 1
      BY <1>1, <1>4, <2>2
    <3> HIDE DEF P, b, waiting, taken
    <3>2. P + 2 * waiting + taken + (IF launched[r] THEN 1 ELSE 0)
            < P + 2 * waiting + b + (IF launched[r] THEN 1 ELSE 0)
      BY <1>1, <3>1
    <3> QED BY <3>2 DEF P, b
  <2> QED BY <1>2, <1>3, <2>1, <2>3
<1>8. ~(Start(r) \/ BootnodesFail(r) \/ BootnodesTooFew(r) \/ BootnodesArrive(r))
  BY DEF Start, BootnodesFail, BootnodesTooFew, BootnodesArrive
<1>9. ~(GiveUp(r) \/ Finish(r))
  BY DEF GiveUp, Finish, TypeOK
<1> QED BY <1>5, <1>6, <1>7, <1>8, <1>9 DEF RunNext, Control

LEMMA RunsStepAdvances ==
    ASSUME DiscoveryInv, [Next]_vars, NEW r \in Runs,
           phase[r] = "checking", phase'[r] = "checking", ChecksOf(r)' # ChecksOf(r)
    PROVE  StepsLeft(r)' < StepsLeft(r)
<1>1. TypeOK /\ RunInv(r)
  BY DEF DiscoveryInv
<1>2. CASE RunNext(r)
  BY <1>1, <1>2, RunAdvances
<1>3. ASSUME NEW s \in Runs, s # r, RunNext(s) PROVE FALSE
  <2>1. Untouched(r)
    BY <1>1, <1>3, OthersUntouched
  <2> QED BY <2>1 DEF Untouched, ChecksOf
<1>4. CASE Finished \/ UNCHANGED vars
  BY <1>4 DEF Finished, vars, ChecksOf
<1> QED BY <1>2, <1>3, <1>4 DEF Next

-----------------------------------------------------------------------------
\* Every state of the discovery is typed, for any number of runs at a time:
\* static fields that another run has overwritten break the parameters of a
\* run, and never the shape of its lists.
THEOREM DiscoveryTypeCorrect == Spec => []TypeOK
<1>1. DiscoveryInv => TypeOK
  BY DEF DiscoveryInv
<1> QED BY <1>1, DiscoveryInvariant, PTL

\* The pool that a run returns has each healthy node that the run found, and no
\* other, however long the two lists are.
THEOREM DiscoveryPoolCoversFound == Spec => []PoolCoversFound
<1>1. DiscoveryInv => PoolCoversFound
  BY DEF DiscoveryInv, RunInv, PairInv, PoolCoversFound
<1> QED BY <1>1, DiscoveryInvariant, PTL

\* Of neither kind more nodes are collected than the minimum and the rest of one
\* batch.
THEOREM DiscoveryNoOverCollect == Spec => []NoOverCollect
<1>1. DiscoveryInv => NoOverCollect
  <2> SUFFICES ASSUME DiscoveryInv, NEW r \in Runs, phase[r] \in {"checking", "done"}
               PROVE  \A kind \in Kinds : Cardinality(found[r] \cap kind) < Min(r) + Parallel
    BY DEF NoOverCollect, FoundDvote, FoundWeb3, Kinds
  <2> TAKE kind \in Kinds
  <2> DEFINE F == found[r] \cap kind
             C == (found[r] \cup batch[r]) \cap kind
  <2>1. found[r] \in SUBSET Nodes /\ found[r] \cup batch[r] \in SUBSET Nodes
    BY DEF DiscoveryInv, TypeOK
  <2>2. IsFiniteSet(C) /\ Cardinality(C) \in Nat /\ Cardinality(F) \in Nat /\ F \in SUBSET C
    BY <2>1, NodesAreFinite
  <2>3. Cardinality(C) < Min(r) + Parallel
    BY DEF DiscoveryInv, RunInv, CollectInv
  <2>4. Min(r) \in Nat /\ Parallel \in Nat
    BY DiscoveryAssumption DEF DiscoveryInv, TypeOK, Min, DiscoveryAssumption
  <2> HIDE DEF C, F
  <2>5. Cardinality(F) <= Cardinality(C)
    BY <2>2, FS_Subset
  <2>6. Cardinality(F) < Min(r) + Parallel
    BY <2>2, <2>3, <2>4, <2>5
  <2> QED BY <2>6 DEF F
<1> QED BY <1>1, DiscoveryInvariant, PTL

\* "No working gateways found" is said only after each node of a kind that falls
\* short has passed, been discarded, or timed out in every round.
THEOREM DiscoveryFailureIsExhaustive == Spec => []FailureIsExhaustive
<1>1. DiscoveryInv => FailureIsExhaustive
  BY DEF DiscoveryInv, RunInv, ExhaustInv, Short, Kinds, FailureIsExhaustive
<1> QED BY <1>1, DiscoveryInvariant, PTL

\* No check is launched of a node that its run has found or discarded, nor twice
\* in one round.
THEOREM DiscoveryNoRecheck == Spec => NoRecheck
<1>1. DiscoveryInv /\ [Next]_vars =>
        [\A r \in Runs : \A n \in batch'[r] \ batch[r] :
            /\ n \notin found[r]
            /\ late[r][n] # "no"
            /\ misses[r][n] < round'[r]]_vars
  <2> SUFFICES ASSUME DiscoveryInv, Next,
                      NEW r \in Runs, NEW n \in batch'[r] \ batch[r]
               PROVE  n \notin found[r] /\ late[r][n] # "no" /\ misses[r][n] < round'[r]
    BY Zenon
  <2>1. TypeOK /\ RunInv(r)
    BY DEF DiscoveryInv
  <2>2. PICK s \in Runs : RunNext(s)
    BY DEF Next, Finished, vars
  <2>3. s = r
    BY <2>1, <2>2, OthersUntouched DEF Untouched
  <2>4. ASSUME NEW m \in Nodes, Settles(r, m) PROVE FALSE
    BY <2>1, <2>4 DEF Settles, TypeOK
  <2>5. BootnodesArrive(r) \/ NextBatch(r) \/ NextRound(r)
    BY <2>2, <2>3, <2>4 DEF RunNext, Control, Start, BootnodesFail, BootnodesTooFew, GiveUp,
                            Finish, CheckPasses, CheckDiscards, CheckTimesOut
  <2>6. n \notin found[r] /\ late[r][n] # "no" /\ misses[r][n] = round'[r] - 1
    BY <2>1, <2>5, LaunchStep
  <2>7. round'[r] \in Nat
    <3>1. phase[r] # "idle" => owner \in Runs
      BY <2>1 DEF RunInv
    <3>2. TypeOK'
      BY <2>1, <2>2, <2>3, <3>1, TypeStep
    <3> QED BY <3>2, DiscoveryAssumption DEF TypeOK, DiscoveryAssumption
  <2> QED BY <2>6, <2>7
<1> QED BY <1>1, DiscoveryInvariant, PTL DEF Spec, NoRecheck

\* A run goes on for no more steps than it has nodes and rounds for, whatever the
\* verdicts are and whatever other runs do.
THEOREM DiscoveryAlwaysAdvances == Spec => RunsAdvance
<1>1. DiscoveryInv /\ [Next]_vars =>
        [\A r \in Runs :
            /\ phase[r] = "checking" /\ phase'[r] = "checking"
            /\ ChecksOf(r)' # ChecksOf(r)
            => StepsLeft(r)' < StepsLeft(r)]_vars
  BY RunsStepAdvances
<1> QED BY <1>1, DiscoveryInvariant, PTL DEF Spec, RunsAdvance
=============================================================================
