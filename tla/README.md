# Formal models of dvote-js

dvote-js is the TypeScript client of the Vocdoni voting platform. It finds
gateways, routes requests to them, and implements on top the calls by which
applications create processes, manage censuses, vote and read results. The
packages hold no server: what is hard in them is what happens between two
`await`s of several calls that share a gateway, a pool of gateways, or the
static fields of a class, while gateways fail, answer late, or lag behind.

This directory holds TLA+ models of those parts, TLC configurations that check
them on small instances, and TLAPS proofs of what holds on every instance.
Paths below are relative to `src/packages/`; those that begin with `example/`
are relative to `src/`.

## How the code runs, and how that is modelled

JavaScript runs one callback at a time, so an action stands for the code
between two points at which it yields: from a call, a reply, a timer or the
continuation of a promise up to the next `await`. What such a stretch reads and
writes is one step, whatever it calls. Everything else interleaves freely.
A `.then` of a promise that is already settled is a microtask: it runs before
replies and timers, but not before other microtasks.

Two facts about the environment shape every model:

* `promiseWithTimeout` (`common/src/timeout.ts`) rejects when its timer fires
  and cancels nothing. A request that the client gave up may be executed later,
  and its answer may arrive late.
* Each request through a pool goes to whichever gateway is active when it is
  made. Two requests of one operation may be answered by different gateways.

Messages, signatures, URIs and payloads are abstracted to what the control
flow tells apart: the class of the method, the class of the error, whether an
answer was an answer. Cryptography is not modelled.

## Components

| component (sources) | state | operations | what is hard | correct means |
|---|---|---|---|---|
| Gateway pool (`client/src/gateway-pool.ts`) | list of gateways, `errorCount` | `sendRequest`, `shift`, `refresh`, `discover` | all calls in flight share list and counter; retries; refresh below running calls | retries end, and not before the list was tried; requests that must not be repeated are not; answers are answers |
| DVote client (`client/src/gateway-dvote.ts`) | status, weight, `hasTimeOutLastRequest` | `sendRequest`, `checkStatus`, `supportsMethod` | late answers, abandoned copies | an answer belongs to its request |
| Web3 client (`client/src/gateway-web3.ts`) | five contract addresses and the resolver, shared `_initializingEns` | instance getters, `initEns`, `checkStatus` | getters join one resolution; a late `checkEns` writes the same field | no getter attaches to a missing address; failed resolutions are not kept |
| Single gateway (`client/src/gateway.ts`) | one client of each kind | delegates | - | - |
| Discovery (`client/src/gateway-discovery.ts`, `gateway-bootnode.ts`) | static parameters; lists, flags, rounds of a run | `run` | parameters read again after each await; nested loops over shrinking lists | fails only when no node is left to try; ends; delivers what was asked for |
| Timeouts, promise helpers (`common/src/timeout.ts`, `promise.ts`) | - | `promiseWithTimeout`, `allSettled`, `promiseAny` | abandon, not cancel | - |
| Process creation (`voting/src/voting-calls.ts`) | the contract's lists of processes | `newProcess` | the ID is read after the fact; nonces; rejection after sending | the caller learns the ID of its process |
| Results (`voting/src/voting-calls.ts`) | - | `getResults` | six requests while the process moves on; retries for the keys | what was there is returned |
| Waiters (`voting/src/util/waiters.ts`) | interval | `wait`, `waitUntil` | polls overtake each other; rejection leaves the interval | not too early; polling stops |
| Estimates (`voting/src/voting-calls.ts`) | - | `estimateBlockAtDateTimeSync`, `estimateDateAtBlockSync` | averages of five windows that are weighed, with other bounds in each function | later is later, and one undoes the other |
| Vote packaging and digests (`voting/src/voting.ts`) | - | `packageSignedEnvelope`, `packageAnonymousEnvelope`, digests of results | order of the layers, encodings of weights, positions of choices | no vote is lost or counted for another choice |
| Reads (`voting/src/voting-calls.ts`, `entity-calls.ts`) | - | the getters | a process moves to the archive meanwhile | what exists is found |
| Archive (`client/src/gateway-archive.ts`) | IPNS id, kept by each gateway of the pool | fallback of getters | which errors fall back; the id and the rotation of the pool | archived data is found, ENS is asked once |
| File API (`client/src/apis/file.ts`, `net/ipfs.ts`) | - | `fetchBytes`, `add` | fallback between sources that fail, hang or give another file | content matches the hash; the fetch ends |
| Off-chain census (`census/src/offchain-calls.ts`) | censuses on the gateways | `addCensus`, `addClaimBulk`, `publishCensus`, `getSize` | check then act; chunks that land on different gateways; a publication that is repeated | the published root covers the claims |
| On-chain census (`census/src/onchain-calls.ts`) | rolling root of registered keys | `registerVoterKey`, `generateProof` | the root moves while proofs are made | a proof is made of one root |
| Example programs (`example/*/`) | files with the process and the accounts | `main`: census, process, waits, voters, count | requests that different gateways answer; voters at the same time; a restart | everybody's vote is counted once, and sealed if it should be |
| ERC20 census, zk-SNARKs, blind signatures (`census/src`) | - | proofs | cryptography | - |
| Data models, backups, signing, hashing, encryption, wallets, contract wrappers | - | - | - | - |

They interact as follows. Applications call the voting, census and file APIs,
each of which makes a series of `sendRequest`s (and contract calls through the
instance getters) on one `IGatewayClient`: a `Gateway`, or a `GatewayPool`
that shares one list among all of them. `GatewayPool.discover` and `refresh`
call `GatewayDiscovery.run`, which calls `checkStatus` of the clients, which
sets the flags that discovery and `supportsMethod` read. The getters of the
voting API fall back to the archive, which reads files through the same pool.
The programs under `example/` drive all of it, and are the only code in the
repository that says in which order the calls of a vote are made.

`PROJECT.json` lists, for each component, what is modelled, and under "hazards"
the places where this code is hard to test, with the properties about each.

## Modules

| module | models |
|---|---|
| `RequestDelivery` | abstract: what a caller of `sendRequest` may rely on |
| `GatewayPool` | `sendRequest` over the shared pool, with timers and late executions |
| `GatewayPoolProofs` | proofs about it, that it implements `RequestDelivery`, and about a call that has the pool for itself |
| `GatewayDiscovery` | `GatewayDiscovery.run`: rounds, batches, static parameters, pairing |
| `GatewayDiscoveryProofs` | proofs about it |
| `Web3Ens` | `initEns`, the instance getters and `checkEns` |
| `Web3EnsProofs` | proofs about it |
| `NewProcess` | `newProcess` of several wallets, and the chain behind it |
| `NewProcessProofs` | proofs about it |
| `Results` | `getResults`, and the life of a process behind it |
| `ResultsProofs` | proofs about it, and about `Ballots` |
| `BlockWait` | abstract: what a caller of the waiters may rely on |
| `Waiter` | `wait` and `waitUntil` of both waiters |
| `WaiterProofs` | the proof that it implements `BlockWait`, and proofs about `BlockTimes` |
| `BlockTimes` | the estimates of blocks and dates, as operators |
| `Ballots` | packages, envelopes, their count and the digests, as operators |
| `Reads` | the getters, the archive fallback and `fetchBytes`, over a pool |
| `ReadsProofs` | proofs about it |
| `Census` | the registration of a census over a pool |
| `VotingRound` | the five example programs, from the census to the count; runs `Census` and the waits of `BlockWait` |
| `VotingRoundProofs` | proofs about it and about `Census` within it |
| `MC...` | values of the constants for TLC |

Definitions whose comment begins with "Mutant of" are plausible mistakes in the
definition they are named after. They are not part of any specification; each
shows that a property fails if the code has that mistake.

### GatewayPool

`pool` and `errorCount` are the fields of the class; `status[c]` is the promise
of call `c`. `Attempt` is `sendRequest` up to its await: `supportsMethod` of
the active gateway, then either the failover or the request. `Failover` is
`errorCount += 1` followed by the synchronous part of `shift()`: it refuses (and
resets the counter), or rotates the list and leaves a microtask that retries.
`Answer`, `UpdateError`, `TimeOut` and `OtherError` are the branches of `.then`
and `.catch`, by the class of the error and of the method. `Refresh` and
`AppShift` are the application's. `Execute` and `ExecuteLate` are the gateways:
a request is executed at most once per copy, possibly after the client's timer;
`stray` counts the copies abandoned that way. `tried` and `solo` are history.

`Recycle` reuses a call slot, so that a finite model has endlessly many calls.

The refinement maps `status` to what the caller sees (`Outcome`). Retries are
stutters of `RequestDelivery`, late executions are its `Perform`.

### GatewayDiscovery

The seven static fields are written together by each run and read by whoever
comes next: `owner` names the run whose parameters they hold. `queue` and
`batch` are the nodes left in the round and those under check: sets, because the
lists of a run keep the order of the network's list, so that a batch takes the
`First` of the queue in that order. `late` is
`hasTimeOutLastRequest`, with "unchecked" for a node never checked (whose
`isReady` is false and whose flag is undefined); `found` are the lists of
healthy nodes. Verdicts of checks are free, so the shuffle is a renaming, and
the order by metrics is any order.

### Web3Ens

Lookups of `initEns` are answered one by one; the whole fails with the first
failure, or when one of them is null. Getters that wait wake up together.
`CheckEnsReply` stores its answer at any later time.

### NewProcess

Client steps lie between awaits: check, upload, price and nonce, send, wait,
count. The chain accepts a wallet's transactions by nonce and mines them in any
order among wallets. The ID is a hash of the position, so it is modelled by
the position. `sokol` tells whether the client reads the nonce itself.

### Results and Waiter

`Results` has one call and one process. The process (blocks, status, keys,
results, archive) is external and changes at any time; each reply shows it as
it is then. In `Waiter`, gateways differ by `MaxLag` blocks at most, and the
answers to the polls of an interval arrive in any order. What the caller sees
of its promise implements `BlockWait`: `Begin` when a call is made, `Resolve`
only if some gateway, but for the lag, has the block, `Reject` at any time.

### BlockTimes and Ballots

Both are pure: operators over an input that a variable holds, so that TLC
checks them for every input of a bounded set. `MCWaiter` and `MCResults` put
them beside a component that an application uses with them (it estimates a date
and then waits; ballots are packed before results are asked for): the variable
gets a value of no interest before that component takes its first step. In
`BlockTimes` the variable is the status that the last `getBlockStatus` returned,
and `TimesSpec`, which the proofs are about, lets each reply be a new one.

`BlockTimes` has the two estimates with their windows; times are counted in
units of two seconds, in which all bounds are whole. Averages are weighed as
fractions, where the code has floating point numbers, which miss by a little:
12000 and 12000 weigh to 11999.999999999998. That shows where a quotient that
should be whole is cut or rounded up to a block, so `EstimateBlocks` is the set
of the blocks that either rounding gives: the right one and the one before. It
does not show in a date, which is cut to milliseconds and stored by a double
that is coarser, at today's timestamps, than the product is wrong.

`Ballots` packs, seals, opens, counts and digests. The sort of the keys is any
rearrangement in which no key comes before a smaller one. `PollSpec`, which the
proofs are about, takes one poll. The Vochain is external: it
opens a package from the last key index to the first (as
`voting/test/unit/voting.ts:398` does) and counts an envelope whose proof shows
the weight of the voter. A layer of encryption is a record with the key and the
content, so that a layer opens only with its key.

### Reads

Each getter is a record: what it asks first, whether the archive may answer,
and whether a file follows. `Answer` is the reply of a gateway; a process that
only the archive has makes it "No data found for this key", which is the one
error that leads to the archive (`NoData`). `Network` and `TextRecord` resolve
the archive's id, which the setter of the pool writes to every gateway of the
list (`WithId`) and a refresh forgets. `FromGateway`, `FromIpfs` and `FromHttps`
are the three attempts of `fetchBytes`; a source gives the file, another file,
or fails, and the public ones may never answer. `Fails` is any other error of a
request, which rejects. `gone` and `hard` are history: the sources that failed,
and whether something other than a missing record or file made the call fail.

### Census

Every gateway has censuses of its own: `stores[g]`. The requests are those of
`generatePublicCensusFromAccounts`, and they differ in what the pool does when
one times out: `addCensus` and `publish` are repeated on the next gateway
(`publish` is not in the list of sequential methods, which names it
`publishCensus`), `addClaimBulk` and `getRoot` are not. A repeated `addCensus`
may yet be executed by the gateway that was slow (`ExecutesLate`), so that two
gateways have a copy; other calls shift the pool (`ShiftByOther`). `Rerun` is an
application that registers the same census again after a failure: the examples
put the time into its name, so that theirs do not.

### VotingRound

A program is a sequence of operations (`Main \o Check`), one for each of the
five examples, anew or from the files of an earlier run. `op` is the one at
hand. The census is that of `Census`, instantiated over the same variables. The
waits are those of `BlockWait`, so that each may end by the lag early; that the
waiters do no worse is what `Waiter` shows. `view[g]` are the blocks that
gateway `g` has, and every request is answered by a gateway of its own. Things
that happen on the chain are the block at which they do (`since`, `keysAt`,
`enrolled`, `box`), and a gateway shows them from that block on.

`submitVotes` reads keys, and for anonymous voters the state twice, once for
all voters; these then go on one beside the other. A ballot is its nullifier: of
the address, which is the same in every run, or of a secret key or a wallet
that is made up in each run (`Ballot`). A restarted anonymous program whose
voters had registered keys has lost them, and fails. The oracle puts a process
into one of the next `OracleBlocks` blocks, and a gateway accepts envelopes once
it shows the process (`Accepts`). `EnvelopeAnswerLost` is the retry of the pool
after an answer that was lost. `RoundFails` is the rejection of `main`, possible at every await
and the only way on where a check fails; `Restart` starts the program again with
what it saved, at any point after it has saved the process.

## Runs

| run | instance | shows |
|---|---|---|
| `PoolShared` | two slots (one reused), three gateways, lists of one, three and four entries, limit 2 | the counter stays in bounds; an undisturbed call goes round the list once, without posting twice to a gateway, and only then gives up; once-only requests are executed once; calls settle; `RequestDelivery` is implemented |
| `PoolStaleCount` (violation) | two calls one after the other | finding 1 |
| `DiscoveryOne` | four DVote and two Web3 nodes, three timeouts | pairing loses nothing, batches do not over-collect, failure is exhaustive, no node is checked twice in vain, each step of the loops leaves less to do, runs end |
| `DiscoveryClobbered` (violation) | two runs that overlap | finding 2 |
| `EnsGetters` | three contracts, three getters, two status checks | no getter attaches to a missing address, addresses are set together, a failed resolution is not joined |
| `ProcessIds` | four calls, two wallets, Sokol or not | the ID is never that of an older process, and the own one if nothing else created in that list; no process without metadata; on Sokol one pending transaction per wallet |
| `ProcessIdOverlap` (violation) | two wallets | finding 3 |
| `ResultsCall` | every kind of process, the code's three retries of two blocks; ballots of two voters, two questions, values up to 2, key lists in five orders, weights 0, 16 and 300, four origins | available results are returned, missing keys are waited for, the call settles; ballots are counted for what they say |
| `ResultsArchive` (violation) | the process and the call alone | finding 4 |
| `WaitBlocks` | two gateways, lag of one block; estimates at and around every bound, with averages of 0, 4, 6 or 9 units in each window | the waiters implement `BlockWait`; polling stops, also after a rejection; estimates are in order, and the date of a block leads back to it or to the one before |
| `Reads` | two calls of any of the twelve kinds, two gateways, one refresh, URIs with and without a hash | a call is rejected only for a reason; no file is taken under a wrong hash; ENS is asked once; each answer brings a call closer to its end; calls settle |
| `VotingRound` | five programs, two voters in one chunk each, two gateways, lag of one block, an oracle of one or two blocks, one restart, one registration of the census again | a census of one copy is complete, a ready one is stored; ballots are sealed and proofs made of one root if keys and registrations were early; a process is ended with a vote of everybody; a round that is done has one of everybody; programs end |

### Bounds, and why they are enough

* Calls and gateways: a hazard of the pool needs a call that retries and
  something that rotates, resets or refuses in between. One call and one slot
  that is reused without end give that, and three gateways tell "went round"
  from "came back". The list of four is longer than the limit, so that both
  comparisons in `shift()` decide. What is proved does not depend on these
  bounds.
* `MaxStray` (abandoned copies remembered per call) and the counter of
  executions saturate: one abandoned copy and "more than once" are all that the
  properties tell apart. `MaxAppOps` bounds refreshes and shifts, of which one
  between any two steps already meets every state of a call.
* Discovery: four nodes of one kind exceed one batch (`Parallel` is 2 as in the
  code) and the minimum plus one batch; three rounds have a first, a middle
  and a last. The code has four timeouts.
* Discovery runs alone in `DiscoveryOne`: what an overlap does is shown by
  `DiscoveryClobbered`.
* Reads: one call that learns the archive's id and one that starts later, or
  that overlaps, give every order of the two; the pool of two rotates.
* Census: two chunks are a first and a last one; two gateways suffice for a
  copy that is complete and one that is not.
* Rounds: two voters are what a count, a chunk and a root that is not yet
  complete need. The start is four blocks after the creation, so that keys and
  registrations can come two lags before it, or later; the programs' 25 or 15
  blocks would add heights at which nothing happens. `waitUntilPresent` has one
  retry instead of six. One restart is followed by none, as the second would
  start from the same files.
* Estimates: each window has an average that is unknown, short, the default or
  long; dates and blocks are the bounds and their neighbours, on both sides of
  the last block. Between two bounds both functions are smooth.
* Ballots: 16 has an even number of hexadecimal digits and 300 an odd one, with
  more than one byte; 0 is the missing weight; key lists are empty, single, in order,
  reversed and mixed.
* Heights: beyond the end of the voting period plus the wait, or beyond the
  highest target, heights are not told apart by any guard, and saturate.

### Fairness

* Continuations run (`Retry`, `Control`, `Reply`): the event loop does not stop.
* Every wait on a gateway has a timer in the code, so `TimeOut`,
  `CheckTimesOut` and `BootnodesFail` are fair. That is what settles calls:
  gateways, users and the application are never assumed to do anything.
* `NewBlock` (Results) and `Advance`, `Poll`, `Arrive` (Waiter) are fair: the
  Vochain produces blocks whether or not anybody votes, an interval fires until
  it is cleared, and answered polls are handled. Without blocks both calls
  wait for ever, as the code does.
* `Reads`: a request through the pool ends in an answer or an error, which is
  what `GatewayPool` shows, and the public servers have a timer; their answers
  are not fair.
* `VotingRound`: the chain grows, waits end, and requests are answered or fail;
  that one fails is always possible, so that `RoundEnds` says that no program
  waits, or tries again, for ever.
* `EveryCallSettles` holds once the application makes no more calls. Without
  that condition it does not: see the remarks after the findings.

## What is proved

For all values of the constants that satisfy the modules' assumptions:

| theorem | states |
|---|---|
| `PoolTypeCorrect`, `PoolBudgetBounded` | the list is never empty, `errorCount` stays below its length and within the limit |
| `PoolOnceOnlyNotRepeated` | a sequential or error-skipping request is executed at most once |
| `PoolImplementsDelivery` | every behaviour of `GatewayPool` is one of `RequestDelivery` |
| `PoolSoloTriesEveryGateway`, `PoolSoloNeverReturns` | a call that has the pool for itself goes round the list once: it gives up no earlier, if the limit allows a round, and posts nowhere twice, if the list has no gateway twice |
| `EnsTypeCorrect`, `EnsNeverAttachesToNull`, `EnsAllOrNothing`, `EnsNoneJoinsEnded` | the invariants of `Web3Ens` |
| `ProcessTypeCorrect`, `ProcessNeverOlder`, `ProcessOwnWhenAlone` | the ID that `newProcess` returns is never that of an older process, and the own one if nothing else created in that list |
| `ProcessAlwaysComplete`, `ProcessOnePending` | no process without a registered entity and uploaded metadata; on Sokol one pending transaction per wallet |
| `WaiterTypeCorrect`, `WaiterImplementsBlockWait` | every behaviour of `Waiter` is one of `BlockWait` |
| `EstimatesAlwaysInOrder`, `EstimatesAlwaysRoundTrip` | on a steady chain later dates have later blocks and the other way round, for all averages, dates and blocks and whichever way quotients are rounded; with one average the date of a block leads back to it or to the one before |
| `DiscoveryTypeCorrect`, `DiscoveryPoolCoversFound`, `DiscoveryNoOverCollect` | the pairs of a run have all the healthy nodes that it found and no others; of each kind it finds fewer than the minimum plus one batch |
| `DiscoveryFailureIsExhaustive`, `DiscoveryNoRecheck` | a run fails only when each node of a kind that falls short passed, was discarded or timed out in every round; no node is checked twice in a round, nor after it passed or was discarded |
| `DiscoveryAlwaysAdvances` | each step of the two loops of a run leaves fewer launches, verdicts and empty batches to come, for any number of nodes and rounds |
| `ResultsTypeCorrect`, `ResultsAvailableIsReturned`, `ResultsPatientForKeys` | what was available when `getResults` was called is returned; the keys are given up on after all retries only |
| `ResultsCallAdvances` | each step of `getResults` leaves fewer answers and blocks to wait for, for any number of retries |
| `BallotsAlwaysCounted` | each choice gets the weight of the voters who made it, and each option of a single question the points given to it, for any voters, questions, values, keys and weights |
| `EveryKeySeals` | the keys that a package is sealed with are those of the gateway, each once, in ascending order |
| `ReadsTypeCorrect`, `ReadsRejectedWithReason`, `ReadsHashedIsVerified`, `ReadsAsksEnsOnce` | a read is rejected only for one of the reasons listed in the property; a file is never accepted under the hash of another; ENS is asked for the archive's id only when no gateway of the pool has it |
| `ReadsAlwaysAdvance` | each step of a read leaves fewer requests and sources before it, for files with any number of public servers |
| `RoundTypeCorrect`, `RoundOneCopyIsComplete`, `RoundReadyIsStored` | the census of a program: with one copy root and tree are complete, and one whose size was compared is stored |
| `RoundSealedIfKeysEarly`, `RoundOneRootIfEnrolledEarly` | keys and registrations that are two lags early reach all voters, for any lag |
| `RoundEndedWithAllVotes`, `RoundDoneIsExact` | a process is ended only when every voter has a ballot in the chain; a round that is done has one of each |

`BudgetBounded` alone is not inductive: that the new list is not empty after a
rotation needs `TypeOK`, that an awaiting call has a gateway needs `TargetInv`,
and the three are inductive together (`BudgetInv`). The step that matters is
that an increment and the comparison in `shift()` are one step, so that no other
call sees the counter in between, and that a refresh resets it.

`OnceOnlyNotRepeated` needs an account of copies (`OnceInv`): executed and
abandoned copies of a once-only request add up to at most one, it has none while
it retries, and while it is awaited the awaited copy is the only one. A
once-only call that retries has been refused by `supportsMethod`, before
anything was posted. `CopiesInv` adds that an answer is the answer of an executed
copy. With these, each step of `GatewayPool` is a step of `RequestDelivery` or
leaves its variables alone (`DeliveryMapping`).

The two action properties about a call that has the pool for itself rest on
`SoloInv`: such a call is the only one open, and the gateways it failed at are
exactly the last `errorCount` entries of the list, those that were rotated to
its end. Hence the head is new to it as long as `errorCount` is below the
length, which `BudgetInv` gives, and a refusal by `shift()` of a list within
the limit means that every entry was passed. That the head is new needs a list
without repetitions, which is a condition of `SoloNeverReturns`.

For `Web3Ens`, `SharedResolution` (who waits does so for the resolution in
flight, which has a lookup left) makes the three invariants inductive.

For `NewProcess`, `Listed` says that a list holds exactly the calls whose
transaction was mined for it, and `Progress` what a call has done by the time it
stands where it stands; together they give `NeverOlderProcess` and
`ProcessesComplete`. `OwnProcessWhenAlone` needs `AloneInv`: as long as a call
that is alone goes on, no other may still add to its list, so that once mined it
is the last. `OnePendingPerWallet` needs `SokolInv`: nonces that were read are
not ahead of the mined ones, so that a nonce the chain accepts means that
nothing of the wallet is pending.

For `Waiter`, the height that is waited for is turned into a number of blocks
with the height of one gateway and back with that of another. `WaiterInv`
follows it: the missing blocks suffice seen from every gateway, but for the lag
(`MissingSuffices`); so does the target (`TargetSuffices`); and no answer is
ahead of every gateway, however late it arrives (`AnswersAreOld`). A step that
resolves then finds a gateway that has the block, but for the lag
(`ResolvedIsReached`), and is `Resolve` of `BlockWait`.

The estimates of `BlockTimes` are fractions of a difference: x / average for the
block of a date, x * average for the date of a block. `ChainInOrder` says that a
fraction with six windows grows if it grows within each of them and the values
at the bounds between them agree. Within a window the averages of both ends are
weighed, so that the average moves while x does; `QuotientsInOrder` needs
averages of which none exceeds another by more than half, and a window that
begins no later than at twice its width; `ProductsInOrder` needs one that is as
wide as what lies below it. All bounds of the code are (`BoundsWiden`): each is
at least twice the one before. At a bound the average is that of the window that
ends there, or where one of two is unknown the longest known one, seen from
both sides (`AverageIs`). The formulas agree with each other there, although the
code compares with `>=` in one function and with `>` in the other. Rounding
keeps the order (`FloorInOrder`), also for past dates, whose differences are
rounded up and subtracted (`EstimateBlocksAre`). A slip of one block keeps it
because quotients grow strictly (`QuotientsGrow`): only a whole number slips,
and the integer part of every earlier quotient is smaller than it
(`SignedGrows`).

For `GatewayDiscovery`, each run has an invariant of its own (`RunInv`), as the
static fields are all that runs share and no part of it depends on them; a step
of one run leaves that of the others alone (`OthersUntouched`). What makes
`FailureIsExhaustive` inductive is `QueueInv`, an account of the nodes of a kind
that still falls short: each is under check, or waits in the queue of the round
and has timed out in all rounds before, or is through with the round, because it
was discarded or timed out in it. Every launch keeps the account if the queue it
takes from is right (`Ready`, `LaunchKeeps`), and the three that the code has
(the first, the next of a round, that of the next round) find it so. The round
ends when a batch is empty, which by `FirstOfQueue` means that the queue of a
kind that falls short is empty. `NoOverCollect` has to count a batch in before
its nodes answer (`CollectInv`). `BatchInv` says that a node under check was
not checked in the round before, from which `NoRecheck` follows.

For `Results`, `EndInv` says that keys are only revealed when the process has
ended, and how it may have ended; what was available stays available or moves
to the archive (`AvailableInv`). So a call that read a live process and then the
height recognises the end of it (`SeenInv`): by the status it read, or by the
height, although the status may have changed in between. It never waits for
keys that were there (`KeysInv`). `PatienceInv` counts the blocks of the rounds
of waiting, for any number of retries.

For `Ballots`, what folds compute has to be said without an induction over the
data, as no induction principle can be instantiated. The library defines a fold
as the value, at the whole set, of some function that solves a recursive
equation on its subsets. `FoldExists` shows that there is a solution, and
`FoldsAgree` that there is no other; both speak of all subsets of a finite set,
and go by a smallest one for which they fail (`SmallestBad`, from the
well-founded strict subsets). With them a sum may be taken apart at any element
(`SumTakeOut`), terms of zero may be left out (`SumLeaveOut`), and the points of
an option may be added up by value or by voter (`PointsAgree`). A rearrangement
in ascending order exists (`OrderExists`), so that `Ascending` is one. A package
that was sealed with any list of keys opens with the same list in reverse, one
layer at a time (`OpenedInReverse`). What is left is the weight: a proof shows
the weight of the voter, unless it is 0 and taken for a missing one, and then
it does not matter whether the envelope counts (`CountsOrWeightless`).

For `Reads`, `CallInv` follows a call through the fallback and the attempts of
`fetchBytes`: which sources are gone when it stands at which attempt, and that
what it accepted was verified. `ListedInv` keeps the record that the archive had
when the call began. `AsksEnsOnce` needs `IdsUniform`: all gateways of the pool
have the archive's id or none has, as the setter writes it to all of them and a
refresh replaces all; if one of them were left out, a shift would make the next
call ask again.

For `VotingRound`, `RoundInv` joins seven parts. `CensusInv` is that of `Census`:
with one copy, every claim that the organizer was told about is in it, and root
and tree are of it. `WaitInv` and `StartInv` say what a wait is worth: when it
has resolved, some gateway has its block but for the lag, and hence every
gateway but for two, which is where the condition of the two properties about
early keys and registrations comes from. `SharedInv` follows from it for what
`submitVotes` reads for all voters. `BallotInv` says which voters have a ballot
at each stage of a run, and which ballots there are at all; in a run that started
again with secret keys lost, nobody votes. `ChainInv` says that ballots are in
blocks that are there or come next, and has `EndedWithAllVotes`: a program that
counts has sent an envelope of every voter in this run, and each is in a block
no later than the next one, in which the process is ended at the earliest.
`DoneIsExact` then needs that a count which equals the number of voters leaves
no room for another ballot (`NoOtherBallots`). As programs are sequences of
operations, the proof reads off `ProgramOrder` which operations lie behind the one at hand.

`DoneIsExact` used to be an invariant, and the proof of it failed for a reason:
on an instance with more heights than the run has, TLC then found a restarted
`signed-blind` program that is told the expected number of envelopes by a
gateway that does not show a later one yet, so that a voter has two ballots in
a round that is done. It is now a property of the step that ends a round, with
the condition that a program which makes up its wallets again is shown all
ballots.

Three of the action properties are what liveness comes down to, without
fairness. `ReadsAdvance`, `RunsAdvance` and `CallAdvances` name a natural number
that each step of a read, of a discovery run and of `getResults` makes smaller:
what the call may still ask for and wait for. For a run it needs that the nodes
a batch takes are not in the queue any more (`LaunchTakesOff`), so that a node
counts twice as long as it waits and once while it is checked, and that a round
less is worth more than all that one round may do (`RoundsLess`). That the
steps are taken at all is up to fairness: this is the part that TLC checks. The
runs check the first two; `CallAdvances`, of which `CallSettles` is the
consequence that matters, and the types of all modules but that of the round are
proved only.

The proofs use what the modules assume of their constants. Gateways are finite
(`Census` counts copies, a lag needs a gateway that is ahead of the others),
the kinds of a round are among the five programs, the start lies within the
heights that are told apart, a network lists no node twice and none as both
kinds, and voters are finite while the indexes of keys and the weights are
natural numbers. TLC evaluates each assumption in the runs of its module. Averages,
blocks and heights are natural numbers (`getBlockStatus` takes no negative
ones), and dates integers.

Only model-checked is everything temporal other than safety
(`EveryCallSettles`, `RunEnds`, `CallSettles`, `PollingStops`, `ReadsSettle`,
`RoundEnds`), which TLAPS does not support under fairness. All other properties
that the passing runs check are theorems.

## Findings

Each is a behaviour of the code that disagrees with what the repository says.

1. `gateway-pool.ts:154` rethrows an error without resetting `errorCount`. The
   next call starts with the errors of the previous one and gives up early
   ("Retry with a new one, if possible", line 151).
2. `gateway-discovery.ts:73` keeps parameters in static fields. A run that
   overlaps with another delivers gateways of the other's environment.
3. `voting-calls.ts:617` computes the ID from the number of processes after the
   transaction was mined. Two wallets that create a process for one token are
   both told the later one.
4. `voting-calls.ts:989` asks for the keys without a fallback to the archive, so
   a process that is archived during the call makes it fail, though its results
   are in the archive ("Resolved from the archive if needed", line 952).

Met while modelling, and visible in the models without a run of their own:

* `gateway-pool.ts:134` resets the counter for all calls when any of them
  succeeds, so that a call that fails everywhere retries for as long as others
  succeed, though `src/CHANGELOG.md:195` speaks of a certain count. In
  `GatewayPool` this is why `EveryCallSettles` needs its condition.
* Two overlapping calls that fail at the same gateway of a list of two rotate it
  twice and both retry there (`gateway-pool.ts:150`).
* `isReady` of the Web3 client is true as soon as a status check resolved the
  ENS resolver (`gateway-web3.ts:221`).
* Empty results are returned with the status READY whatever the status read was
  (`voting-calls.ts:964`).
* `waitUntil` over a pool resolves early by the lag between two gateways
  (`waiters.ts:37`, the bound that `BlockWait` states). The programs therefore
  may begin to vote before the gateways show the start, which is why keys and
  registrations have to be two lags early in `SealedIfKeysEarly` and
  `OneRootIfEnrolledEarly`: without the condition both fail.
* A process whose keys are not there yet gives an empty list, and
  `packageVoteContent` then packs a clear vote (`voting.ts:186`).
* A census whose `addCensus` was lost and repeated may have two copies; root and
  tree may then come from the empty one. `OneCopyIsComplete` has the condition
  that this did not happen, and `getSize` at the end does not tell them apart if
  its request goes to the full copy.
* `digestSingleChoiceResults` goes by the position of a choice and not by its
  value (`voting.ts:316`), and `weight || BigInt("1")` takes 0 for a missing
  weight (`voting.ts:204`); `BallotsAreCounted` has choices whose value is their
  position, and a voter of weight 0 counts nothing either way.
* The two estimates do not undo each other (`voting-calls.ts:357`): with averages
  of 12000 ms and the chain at 10000, block 9994 has the date of 72000 ms ago,
  and that date gives block 9993, as 72000 / 11999.999999999998 is rounded up.
  `EstimatesRoundTrip` has the one block that is lost so.
* With averages that differ by a factor of two between neighbouring windows the
  estimated dates run backwards within a window; `EstimatesInOrder` is about
  chains whose averages are closer. Block 0 has no date (`voting-calls.ts:382`).
* The blind example makes up a wallet for a voter in each run, so that a restart
  in the middle of the votes leaves a voter with two ballots.

## Not modelled, and why

* Cryptography, encodings, hashes, protobuf code and proofs: libraries, without
  state or protocol in this code.
* Weights, response times and load as numbers: they only order the list, and
  the order is free in `GatewayDiscovery`.
* Contract calls other than process creation and `setStatus`: single
  transactions.
* `dump`, `dumpPlain`, `getCensusList`, `add`, `getProcessCircuitInfo` and the
  like: one request each, whose behaviour is that of `sendRequest`.
* The races of `Gateway.randomFromDefault` and `randomfromUri`: no state.
* Weights of claims, and which claims a gateway finds invalid: data of the
  census service.
* Wallets, contract wrappers, configuration and the web example: no protocol
  state.

## Plan

Done: the pool and its promise to callers, discovery, ENS resolution, process
creation, results, waiters and their promise, reads with archive and files, the
census, ballots, estimates, the round that composes them, and proofs of every
safety property of the components, with the measures by which reads, discovery
and results end. Not done:

1. `NodeSorting` (the comparator of `sortNodes` is not an order) and `JsonSlice`
   (`uint8array.ts`), as algorithms against reference definitions.
2. Theorems: that `Ended` of `Results` and the checks of a program agree for
   every kind of process; bounds on how many requests a read makes.
