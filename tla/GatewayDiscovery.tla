-------------------------- MODULE GatewayDiscovery --------------------------
(***************************************************************************)
(* GatewayDiscovery.run of packages/client/src/gateway-discovery.ts: fetch *)
(* the boot nodes, check the DVote and Web3 nodes in small parallel        *)
(* batches, in rounds of growing timeout, until there are enough of each,  *)
(* and pair them.                                                          *)
(*                                                                         *)
(* The parameters of a run are kept in static fields of the class, all     *)
(* written when a run starts and read again after each await.  As they     *)
(* change together, one variable stands for them: the run that wrote them  *)
(* last (owner).                                                           *)
(*                                                                         *)
(* The nodes of the boot nodes are shuffled; every check may have any      *)
(* verdict, so that a shuffle is a renaming and the lists keep one order.  *)
(***************************************************************************)
EXTENDS Naturals, Sequences, FiniteSets

CONSTANTS
    Runs,           \* calls of GatewayDiscovery.run
    NoRun,          \* the static fields have not been written
    Params,         \* Params[r]: environment, numberOfGateways,
                    \* resolveEnsDomains and archiveIpnsId of run r
    DvoteNodes,     \* the DVote nodes of the network, without duplicates
    Web3Nodes,      \* the Web3 nodes of the network, without duplicates
    ListedDvote,    \* numbers of DVote entries, duplicates included, that the
                    \* boot nodes may list
    Parallel,       \* PARALLEL_GATEWAY_TESTS
    Rounds,         \* number of timeouts: t, 2t, 4t, 16t
    MaxActive       \* runs that the application has open at a time

Dvote == {DvoteNodes[i] : i \in DOMAIN DvoteNodes}
Web3 == {Web3Nodes[i] : i \in DOMAIN Web3Nodes}
Nodes == Dvote \cup Web3

ASSUME DiscoveryAssumption ==
    /\ NoRun \notin Runs
    /\ \A r \in Runs : Params[r].min \in Nat \ {0} /\ Params[r].ens \in BOOLEAN
    /\ DvoteNodes \in Seq(Dvote) /\ Web3Nodes \in Seq(Web3)
    /\ Dvote \cap Web3 = {}
    /\ Len(DvoteNodes) = Cardinality(Dvote)
    /\ Len(Web3Nodes) = Cardinality(Web3)
    /\ ListedDvote \subseteq Nat
    /\ Parallel \in Nat \ {0}
    /\ Rounds \in Nat \ {0}

VARIABLES
    owner,      \* the run whose parameters the static fields hold
    phase,      \* phase[r]: where run r stands
    used,       \* used[r]: the parameters that run r has taken so far
    round,      \* round[r]: index of the timeout of the round
    queue,      \* queue[r]: nodes of the round not launched yet, of each kind
    batch,      \* batch[r]: nodes whose check is pending
    launched,   \* launched[r]: testDvote or testWeb3 was not empty
    late,       \* late[r][n]: hasTimeOutLastRequest of node n
    asked,      \* asked[r]: some check resolved the ENS resolver
    found,      \* found[r]: dvoteGateways and web3Gateways
    pairs,      \* pairs[r]: the list that the promise of run r resolves to
    misses      \* history: misses[r][n], rounds in which n timed out

vars == <<owner, phase, used, round, queue, batch, launched, late, asked,
          found, pairs, misses>>

Active == {"bootnodes", "checking"}
Environments == {"none"} \cup {Params[r].env : r \in Runs}
Archives == {"none"} \cup {Params[r].archive : r \in Runs}
NothingUsed == [env |-> "none", min |-> 0, archive |-> "none"]

FoundDvote(r) == found[r] \cap Dvote
FoundWeb3(r) == found[r] \cap Web3
Min(r) == used[r].min
Enough(r) ==
    Cardinality(FoundDvote(r)) >= Min(r) /\ Cardinality(FoundWeb3(r)) >= Min(r)

TypeOK ==
    /\ owner \in Runs \cup {NoRun}
    /\ phase \in [Runs -> {"idle", "done", "failed"} \cup Active]
    /\ used \in [Runs -> [env : Environments, min : Nat, archive : Archives]]
    /\ round \in [Runs -> 1..Rounds]
    /\ queue \in [Runs -> [dvote : SUBSET Dvote, web3 : SUBSET Web3]]
    /\ batch \in [Runs -> SUBSET Nodes]
    /\ launched \in [Runs -> BOOLEAN]
    /\ late \in [Runs -> [Nodes -> {"unchecked", "no", "yes"}]]
    /\ asked \in [Runs -> BOOLEAN]
    /\ found \in [Runs -> SUBSET Nodes]
    /\ pairs \in [Runs -> Seq(Dvote \X Web3)]
    /\ misses \in [Runs -> [Nodes -> 0..Rounds]]

Init ==
    /\ owner = NoRun
    /\ phase = [r \in Runs |-> "idle"]
    /\ used = [r \in Runs |-> NothingUsed]
    /\ round = [r \in Runs |-> 1]
    /\ queue = [r \in Runs |-> [dvote |-> {}, web3 |-> {}]]
    /\ batch = [r \in Runs |-> {}]
    /\ launched = [r \in Runs |-> FALSE]
    /\ late = [r \in Runs |-> [n \in Nodes |-> "unchecked"]]
    /\ asked = [r \in Runs |-> FALSE]
    /\ found = [r \in Runs |-> {}]
    /\ pairs = [r \in Runs |-> <<>>]
    /\ misses = [r \in Runs |-> [n \in Nodes |-> 0]]

-----------------------------------------------------------------------------
OpenRuns == {r \in Runs : phase[r] \in Active}

\* run(): the static fields are overwritten and the boot nodes requested.
Start(r) ==
    /\ phase[r] = "idle"
    /\ Cardinality(OpenRuns) < MaxActive
    /\ owner' = r
    /\ phase' = [phase EXCEPT ![r] = "bootnodes"]
    /\ UNCHANGED <<used, round, queue, batch, launched, late, asked, found,
                   pairs, misses>>

\* No boot node answers, or none in time; or the JSON lacks the network.
BootnodesFail(r) ==
    /\ phase[r] = "bootnodes"
    /\ phase' = [phase EXCEPT ![r] = "failed"]
    /\ UNCHANGED <<owner, used, round, queue, batch, launched, late, asked,
                   found, pairs, misses>>

\* The first nodes of the queue, in the order of the list.
First(list, q) ==
    {list[i] : i \in {i \in DOMAIN list :
                        /\ list[i] \in q
                        /\ Cardinality({j \in 1..(i - 1) : list[j] \in q}) < Parallel}}

\* Mutant of Taken: a kind that has enough nodes is tested further.
TakenAlways(list, q, count, min) == First(list, q)

\* splice(0, PARALLEL_GATEWAY_TESTS) of a kind that still lacks nodes.
Taken(list, q, count, min) == IF count < min THEN First(list, q) ELSE {}

\* selectActiveNodes: checkStatus of a batch taken from queue q.  It clears
\* hasTimeOutLastRequest, and asks for ENS as the static field says now.
Launch(r, q, min) ==
    LET testDvote == Taken(DvoteNodes, q.dvote, Cardinality(FoundDvote(r)), min)
        testWeb3 == Taken(Web3Nodes, q.web3, Cardinality(FoundWeb3(r)), min)
        tested == testDvote \cup testWeb3
    IN  /\ queue' = [queue EXCEPT ![r] = [dvote |-> q.dvote \ testDvote,
                                         web3 |-> q.web3 \ testWeb3]]
        /\ batch' = [batch EXCEPT ![r] = tested]
        /\ launched' = [launched EXCEPT ![r] = tested # {}]
        /\ late' = [late EXCEPT
                      ![r] = [n \in Nodes |->
                                IF n \in tested THEN "no" ELSE late[r][n]]]
        /\ asked' = [asked EXCEPT
                       ![r] = @ \/ (testWeb3 # {} /\ Params[owner].ens)]

\* Mutants of ToCheck: hasTimeOutLastRequest ignored, or taken for a failure.
ToCheckAgain(r, n) == n \notin found[r]
ToCheckOnce(r, n) == n \notin found[r] /\ late[r][n] = "unchecked"

\* The nodes to check in a round: those unchecked or that timed out.
ToCheck(r, n) == n \notin found[r] /\ late[r][n] \in {"unchecked", "yes"}
RoundQueue(r) ==
    [dvote |-> {n \in Dvote : ToCheck(r, n)}, web3 |-> {n \in Web3 : ToCheck(r, n)}]

\* The boot nodes are too few for the minimum of the static field.
BootnodesTooFew(r) ==
    /\ phase[r] = "bootnodes"
    /\ \E listed \in ListedDvote : listed < Params[owner].min
    /\ phase' = [phase EXCEPT ![r] = "failed"]
    /\ UNCHANGED <<owner, used, round, queue, batch, launched, late, asked,
                   found, pairs, misses>>

\* digestNetwork builds the nodes with the environment of the static field;
\* filterHealthyNodes takes the minimum and begins the first round.
BootnodesArrive(r) ==
    /\ phase[r] = "bootnodes"
    /\ \E listed \in ListedDvote :
          listed >= Len(DvoteNodes) /\ listed >= Params[owner].min
    /\ phase' = [phase EXCEPT ![r] = "checking"]
    /\ used' = [used EXCEPT ![r].env = Params[owner].env,
                            ![r].min = Params[owner].min]
    /\ Launch(r, RoundQueue(r), Params[owner].min)
    /\ UNCHANGED <<owner, round, found, pairs, misses>>

-----------------------------------------------------------------------------
\* The check of node n of run r settles.
Settles(r, n) ==
    /\ n \in batch[r]
    /\ batch' = [batch EXCEPT ![r] = @ \ {n}]
    /\ UNCHANGED <<owner, phase, used, round, queue, launched, asked, pairs>>

\* The node answers and nothing discards it: a Web3 node needs a resolver
\* address if the static field asks for one now, and a DVote node nothing.  Any
\* batch of the run that asked for addresses may have left it one.
CheckPasses(r, n) ==
    /\ Settles(r, n)
    /\ n \in Web3 /\ Params[owner].ens => asked[r]
    /\ found' = [found EXCEPT ![r] = @ \cup {n}]
    /\ UNCHANGED <<late, misses>>

\* The node answers with an error or is syncing, or a Web3 node has no
\* resolver address or fewer than five peers.
CheckDiscards(r, n) ==
    /\ Settles(r, n)
    /\ UNCHANGED <<late, found, misses>>

\* promiseWithTimeout: hasTimeOutLastRequest is set.
CheckTimesOut(r, n) ==
    /\ Settles(r, n)
    /\ late' = [late EXCEPT ![r][n] = "yes"]
    /\ misses' = [misses EXCEPT ![r][n] = IF @ = Rounds THEN @ ELSE @ + 1]
    /\ UNCHANGED found

-----------------------------------------------------------------------------
BatchSettled(r) == phase[r] = "checking" /\ batch[r] = {}

\* Mutant of NextRound: the next timeout is read and not shifted.
NextRoundSame(r) ==
    /\ BatchSettled(r)
    /\ ~Enough(r)
    /\ ~launched[r]
    /\ round[r] < Rounds
    /\ Launch(r, RoundQueue(r), Min(r))
    /\ UNCHANGED <<owner, phase, used, round, found, pairs, misses>>

\* The inner loop goes on: something was tested and there are not enough.
NextBatch(r) ==
    /\ BatchSettled(r)
    /\ ~Enough(r)
    /\ launched[r]
    /\ Launch(r, queue[r], Min(r))
    /\ UNCHANGED <<owner, phase, used, round, found, pairs, misses>>

\* The round is over without enough nodes: the next timeout.
NextRound(r) ==
    /\ BatchSettled(r)
    /\ ~Enough(r)
    /\ ~launched[r]
    /\ round[r] < Rounds
    /\ round' = [round EXCEPT ![r] = @ + 1]
    /\ Launch(r, RoundQueue(r), Min(r))
    /\ UNCHANGED <<owner, phase, used, found, pairs, misses>>

\* The last round is over: "No working gateways found".
GiveUp(r) ==
    /\ BatchSettled(r)
    /\ ~Enough(r)
    /\ ~launched[r]
    /\ round[r] = Rounds
    /\ phase' = [phase EXCEPT ![r] = "failed"]
    /\ UNCHANGED <<owner, used, round, queue, batch, launched, late, asked,
                   found, pairs, misses>>

\* The lists that an order of the metrics of the nodes of a set may give.
Orders(S) ==
    {s \in [1..Cardinality(S) -> S] : \A n \in S : \E i \in DOMAIN s : s[i] = n}

\* Mutant of Pairings: as long as the shorter list.
PairingsShort(dvote, web3) ==
    LET length == IF Len(dvote) < Len(web3) THEN Len(dvote) ELSE Len(web3)
    IN  {[i \in 1..length |-> <<dvote[i], web3[i]>>]}

\* createNodePairs: as long as the longer list, the shorter one completed
\* with nodes of it taken at random.
Pairings(dvote, web3) ==
    LET length == IF Len(dvote) > Len(web3) THEN Len(dvote) ELSE Len(web3)
    IN  {p \in [1..length -> Dvote \X Web3] :
            \A i \in 1..length :
                /\ p[i][1] \in (IF i <= Len(dvote) THEN {dvote[i]}
                                ELSE {dvote[j] : j \in DOMAIN dvote})
                /\ p[i][2] \in (IF i <= Len(web3) THEN {web3[i]}
                                ELSE {web3[j] : j \in DOMAIN web3})}

\* Enough nodes: sort, set the archive id of the static field, and pair.  The
\* nodes have passed their checks, so that one is ready (NO_CANDIDATES_READY).
Finish(r) ==
    /\ BatchSettled(r)
    /\ Enough(r)
    /\ phase' = [phase EXCEPT ![r] = "done"]
    /\ used' = [used EXCEPT ![r].archive = Params[owner].archive]
    /\ \E dvote \in Orders(FoundDvote(r)), web3 \in Orders(FoundWeb3(r)) :
          \E p \in Pairings(dvote, web3) : pairs' = [pairs EXCEPT ![r] = p]
    /\ UNCHANGED <<owner, round, queue, batch, launched, late, asked, found,
                   misses>>

\* Every run has ended.
Finished ==
    /\ \A r \in Runs : phase[r] \in {"done", "failed"}
    /\ UNCHANGED vars

Control(r) ==
    NextBatch(r) \/ NextRound(r) \/ GiveUp(r) \/ Finish(r)

RunNext(r) ==
    \/ Start(r)
    \/ BootnodesFail(r) \/ BootnodesTooFew(r) \/ BootnodesArrive(r)
    \/ Control(r)
    \/ \E n \in Nodes :
          CheckPasses(r, n) \/ CheckDiscards(r, n) \/ CheckTimesOut(r, n)

Next == Finished \/ \E r \in Runs : RunNext(r)

Spec == Init /\ [][Next]_vars

\* The continuations run, and every wait has a timer.
Fairness ==
    \A r \in Runs :
        /\ WF_vars(Control(r))
        /\ WF_vars(BootnodesFail(r))
        /\ \A n \in Nodes : WF_vars(CheckTimesOut(r, n))

FairSpec == Spec /\ Fairness

-----------------------------------------------------------------------------
(***************************************************************************)
(* Properties                                                              *)
(***************************************************************************)

\* No healthy node that was found is lost when the lists are paired, and none
\* gets in that did not pass its check.
PoolCoversFound ==
    \A r \in Runs : phase[r] = "done" =>
        /\ {pairs[r][i][1] : i \in DOMAIN pairs[r]} = FoundDvote(r)
        /\ {pairs[r][i][2] : i \in DOMAIN pairs[r]} = FoundWeb3(r)

\* A kind that has enough nodes is not tested further while the other kind
\* still is: at most the rest of one batch comes on top of the minimum.
NoOverCollect ==
    \A r \in Runs : phase[r] \in {"checking", "done"} =>
        /\ Cardinality(FoundDvote(r)) < Min(r) + Parallel
        /\ Cardinality(FoundWeb3(r)) < Min(r) + Parallel

\* "No working gateways found" means that some kind falls short although each
\* of its nodes passed, was discarded, or timed out in every round: none was
\* left out by the batches, by the rounds, or because the other kind was done.
FailureIsExhaustive ==
    \A r \in Runs : phase[r] = "failed" /\ Min(r) > 0 =>
        \E kind \in {Dvote, Web3} :
            /\ Cardinality(found[r] \cap kind) < Min(r)
            /\ \A n \in kind \ found[r] :
                  late[r][n] = "no" \/ misses[r][n] = Rounds

\* A check is launched only for a node that has not been checked or that
\* timed out, and only once in a round.
NoRecheck ==
    [][\A r \in Runs : \A n \in batch'[r] \ batch[r] :
          /\ n \notin found[r]
          /\ late[r][n] # "no"
          /\ misses[r][n] < round'[r]]_vars

\* The environment, the archive and the number of nodes of run r's parameters.
Delivers(r) ==
    /\ used[r].env = Params[r].env
    /\ used[r].archive = Params[r].archive
    /\ Cardinality(FoundDvote(r)) >= Params[r].min
    /\ Cardinality(FoundWeb3(r)) >= Params[r].min

\* A run delivers what its own parameters ask for ("@param params The gateway
\* parameters for running the discovery process", gateway-discovery.ts:56).
ParametersRespected ==
    \A r \in Runs : phase[r] = "done" => Delivers(r)

\* What a run that checks may still do: a launch and a verdict for each node and
\* an empty batch in every round to come, and what is left of the one at hand.
StepsLeft(r) ==
    (Rounds - round[r]) * (2 * Cardinality(Nodes) + 2)
    + 2 * Cardinality(queue[r].dvote \cup queue[r].web3) + Cardinality(batch[r])
    + (IF launched[r] THEN 1 ELSE 0)

\* The two loops of a run cannot go round without an end: whatever the verdicts
\* are, each step of them leaves less to do.
ChecksOf(r) ==
    <<round[r], queue[r], batch[r], launched[r], late[r], found[r], misses[r]>>
RunsAdvance ==
    [][\A r \in Runs :
          /\ phase[r] = "checking" /\ phase'[r] = "checking"
          /\ ChecksOf(r)' # ChecksOf(r)
          => StepsLeft(r)' < StepsLeft(r)]_vars

\* Every run ends, though nodes and boot nodes never answer.
RunEnds ==
    \A r \in Runs : (phase[r] \in Active) ~> (phase[r] \in {"done", "failed"})
=============================================================================
