----------------------------- MODULE NewProcess -----------------------------
(***************************************************************************)
(* VotingApi.newProcess (packages/voting/src/voting-calls.ts): create a    *)
(* process on the processes contract and tell the caller its ID.  The      *)
(* contract keeps one list of processes per entity (or per token, for a    *)
(* census of token holders) and the ID is a hash of the position in it,    *)
(* which the client learns after the fact, from the length of the list.    *)
(*                                                                         *)
(* The client's steps lie between its awaits.  The chain accepts the       *)
(* transactions of a wallet in the order of their nonces.                  *)
(***************************************************************************)
EXTENDS Naturals, Sequences, FiniteSets

CONSTANTS
    Creators,       \* calls of newProcess
    Entities,       \* addresses of entities and of tokens
    Wallets,
    EntityOf,       \* the list in which each call creates its process
    WalletOf,       \* the wallet that signs the transaction of each call
    Registered      \* entities with metadata, and tokens registered

ASSUME NewProcessAssumption ==
    /\ EntityOf \in [Creators -> Entities]
    /\ WalletOf \in [Creators -> Wallets]
    /\ Registered \subseteq Entities

VARIABLES
    sokol,      \* the chain is Sokol: the client reads the nonce itself
    phase,      \* phase[c]: where call c stands
    uploaded,   \* uploaded[c]: its metadata is on a gateway
    nonce,      \* nonce[c]: the nonce of its transaction
    tx,         \* tx[c]: its transaction, as the chain sees it
    accepted,   \* accepted[w]: transactions of w accepted, pending or mined
    mined,      \* mined[w]: transactions of w in a block
    processes,  \* processes[e]: the calls that created processes of e
    index,      \* index[c]: position behind the ID that call c returns
    alone       \* history: nothing else was creating in the list of c

vars == <<sokol, phase, uploaded, nonce, tx, accepted, mined, processes,
          index, alone>>

Active == {"checking", "uploading", "signing", "sending", "waiting", "counting"}

TypeOK ==
    /\ sokol \in BOOLEAN
    /\ phase \in [Creators -> {"idle", "returned", "rejected"} \cup Active]
    /\ uploaded \in [Creators -> BOOLEAN]
    /\ nonce \in [Creators -> Nat]
    /\ tx \in [Creators -> {"none", "pending", "mined", "reverted"}]
    /\ accepted \in [Wallets -> Nat]
    /\ mined \in [Wallets -> Nat]
    /\ processes \in [Entities -> Seq(Creators)]
    /\ index \in [Creators -> Nat]
    /\ alone \in [Creators -> BOOLEAN]

Init ==
    /\ sokol \in BOOLEAN
    /\ phase = [c \in Creators |-> "idle"]
    /\ uploaded = [c \in Creators |-> FALSE]
    /\ nonce = [c \in Creators |-> 0]
    /\ tx = [c \in Creators |-> "none"]
    /\ accepted = [w \in Wallets |-> 0]
    /\ mined = [w \in Wallets |-> 0]
    /\ processes = [e \in Entities |-> <<>>]
    /\ index = [c \in Creators |-> 0]
    /\ alone = [c \in Creators |-> FALSE]

\* Call c may still add a process to its list, even if it was rejected.
Creating(c) == phase[c] \in Active \/ tx[c] = "pending"

Goto(c, from, to) == phase[c] = from /\ phase' = [phase EXCEPT ![c] = to]

\* newProcess dispatches on the origin of the census; either way the entity
\* or the token is looked up first.
Start(c) ==
    /\ Goto(c, "idle", "checking")
    /\ alone' = [d \in Creators |->
          IF d = c
            THEN \A o \in Creators \ {c} : EntityOf[o] = EntityOf[c] => ~Creating(o)
            ELSE alone[d] /\ ~(EntityOf[d] = EntityOf[c] /\ Creating(d))]
    /\ UNCHANGED <<sokol, uploaded, nonce, tx, accepted, mined, processes,
                   index>>

\* "The entity is not yet registered", "The token is not yet registered".
Check(c) ==
    /\ IF EntityOf[c] \in Registered THEN Goto(c, "checking", "uploading")
                                     ELSE Goto(c, "checking", "rejected")
    /\ UNCHANGED <<sokol, uploaded, nonce, tx, accepted, mined, processes,
                   index, alone>>

\* Mutant of Upload: an upload without a URI is not noticed.
UploadUnchecked(c) ==
    /\ Goto(c, "uploading", "signing")
    /\ uploaded' \in {uploaded, [uploaded EXCEPT ![c] = TRUE]}
    /\ UNCHANGED <<sokol, nonce, tx, accepted, mined, processes, index, alone>>

\* FileApi.add of the metadata.
Upload(c) ==
    /\ Goto(c, "uploading", "signing")
    /\ uploaded' = [uploaded EXCEPT ![c] = TRUE]
    /\ UNCHANGED <<sokol, nonce, tx, accepted, mined, processes, index, alone>>

\* Mutant of ReadNonce: the pending transactions count on Sokol as well.
ReadNoncePending(c) ==
    /\ Goto(c, "signing", "sending")
    /\ nonce' = [nonce EXCEPT ![c] = accepted[WalletOf[c]]]
    /\ UNCHANGED <<sokol, uploaded, tx, accepted, mined, processes, index,
                   alone>>

\* Price and chain are known; the nonce is getTransactionCount(addr), of the
\* latest block, on Sokol, and that of the signer, pending ones included,
\* elsewhere.
ReadNonce(c) ==
    /\ Goto(c, "signing", "sending")
    /\ nonce' = [nonce EXCEPT
                   ![c] = IF sokol THEN mined[WalletOf[c]]
                                   ELSE accepted[WalletOf[c]]]
    /\ UNCHANGED <<sokol, uploaded, tx, accepted, mined, processes, index,
                   alone>>

\* The chain accepts the transaction if its nonce is the next one of the
\* wallet; a nonce in use is refused, as the gas price is the same.
Send(c) ==
    /\ \/ /\ nonce[c] = accepted[WalletOf[c]]
          /\ Goto(c, "sending", "waiting")
          /\ tx' = [tx EXCEPT ![c] = "pending"]
          /\ accepted' = [accepted EXCEPT ![WalletOf[c]] = @ + 1]
       \/ /\ nonce[c] # accepted[WalletOf[c]]
          /\ Goto(c, "sending", "rejected")
          /\ UNCHANGED <<tx, accepted>>
    /\ UNCHANGED <<sokol, uploaded, nonce, mined, processes, index, alone>>

\* The transaction gets into a block; it may revert there.
Mine(c) ==
    /\ tx[c] = "pending"
    /\ nonce[c] = mined[WalletOf[c]]
    /\ mined' = [mined EXCEPT ![WalletOf[c]] = @ + 1]
    /\ \/ /\ tx' = [tx EXCEPT ![c] = "mined"]
          /\ processes' = [processes EXCEPT ![EntityOf[c]] = Append(@, c)]
       \/ /\ tx' = [tx EXCEPT ![c] = "reverted"]
          /\ UNCHANGED processes
    /\ UNCHANGED <<sokol, phase, uploaded, nonce, accepted, index, alone>>

\* Mutant of Confirm: `await tx.wait()` is missing.
ConfirmAtOnce(c) ==
    /\ Goto(c, "waiting", "counting")
    /\ UNCHANGED <<sokol, uploaded, nonce, tx, accepted, mined, processes,
                   index, alone>>

\* await tx.wait()
Confirm(c) ==
    /\ \/ tx[c] = "mined" /\ Goto(c, "waiting", "counting")
       \/ tx[c] = "reverted" /\ Goto(c, "waiting", "rejected")
    /\ UNCHANGED <<sokol, uploaded, nonce, tx, accepted, mined, processes,
                   index, alone>>

\* Mutant of ReadCount: count.toNumber() without the - 1.
ReadCountNext(c) ==
    /\ Goto(c, "counting", "returned")
    /\ index' = [index EXCEPT ![c] = Len(processes[EntityOf[c]])]
    /\ UNCHANGED <<sokol, uploaded, nonce, tx, accepted, mined, processes,
                   alone>>

\* getEntityProcessCount and getProcessId(entity, count - 1); "The process
\* could not be created" for a list that is empty.
ReadCount(c) ==
    LET count == Len(processes[EntityOf[c]])
    IN  /\ IF count = 0
             THEN Goto(c, "counting", "rejected") /\ UNCHANGED index
             ELSE /\ Goto(c, "counting", "returned")
                  /\ index' = [index EXCEPT ![c] = count - 1]
        /\ UNCHANGED <<sokol, uploaded, nonce, tx, accepted, mined,
                       processes, alone>>

\* Any await may reject, and the call with it, also while its transaction is
\* pending or after it was mined.
Fail(c) ==
    /\ phase[c] \in Active
    /\ phase' = [phase EXCEPT ![c] = "rejected"]
    /\ UNCHANGED <<sokol, uploaded, nonce, tx, accepted, mined, processes,
                   index, alone>>

\* Every call has settled.
Finished ==
    /\ \A c \in Creators : phase[c] \in {"returned", "rejected"}
    /\ \A c \in Creators : tx[c] # "pending"
    /\ UNCHANGED vars

CreatorNext(c) ==
    \/ Start(c) \/ Check(c) \/ Upload(c) \/ ReadNonce(c) \/ Send(c)
    \/ Confirm(c) \/ ReadCount(c) \/ Fail(c)

Next == Finished \/ \E c \in Creators : CreatorNext(c) \/ Mine(c)

Spec == Init /\ [][Next]_vars

-----------------------------------------------------------------------------
(***************************************************************************)
(* Properties                                                              *)
(***************************************************************************)

CreatedAt(c, i) ==
    i \in DOMAIN processes[EntityOf[c]] /\ processes[EntityOf[c]][i] = c

\* The ID that a call returns is that of its own process or of one created
\* after it: never of an older process, nor of none at all.
NeverOlderProcess ==
    \A c \in Creators : phase[c] = "returned" =>
        /\ index[c] + 1 \in DOMAIN processes[EntityOf[c]]
        /\ \E i \in 1..(index[c] + 1) : CreatedAt(c, i)

\* A call that had the list for itself returns the ID of its own process.  A
\* rejected call does not leave the list alone while its transaction is
\* pending.
OwnProcessWhenAlone ==
    \A c \in Creators :
        phase[c] = "returned" /\ alone[c] => CreatedAt(c, index[c] + 1)

\* No process refers to metadata that was never uploaded, and no call that
\* was refused by a check has created one.
ProcessesComplete ==
    \A e \in Entities : \A i \in DOMAIN processes[e] :
        e \in Registered /\ uploaded[processes[e][i]]

\* On Sokol, calls of one wallet that overlap refuse each other: no two of
\* its transactions are pending at a time.
OnePendingPerWallet ==
    sokol => \A c, d \in Creators :
        /\ tx[c] = "pending" /\ tx[d] = "pending"
        /\ WalletOf[c] = WalletOf[d]
        => c = d

\* "Should return the processId after creating it"
\* (packages/client/test/integration/processes.ts:264).
ReturnsOwnProcess ==
    \A c \in Creators : phase[c] = "returned" => CreatedAt(c, index[c] + 1)
=============================================================================
