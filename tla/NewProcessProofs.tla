-------------------------- MODULE NewProcessProofs --------------------------
(***************************************************************************)
(* Theorems about NewProcess, for any calls, entities and wallets.         *)
(***************************************************************************)
EXTENDS NewProcess, TLAPS

\* What call c has done by the time it stands where it stands.
Progress ==
    \A c \in Creators :
        /\ phase[c] \in {"idle", "checking", "uploading", "signing", "sending"}
              => tx[c] = "none"
        /\ phase[c] \in Active \ {"checking"} \/ tx[c] # "none"
              => EntityOf[c] \in Registered
        /\ phase[c] \in Active \ {"checking", "uploading"} \/ tx[c] # "none"
              => uploaded[c]
        /\ phase[c] = "counting" => tx[c] = "mined"

\* A list holds the calls that were mined for it, and all of them.
Listed ==
    /\ \A c \in Creators : tx[c] = "mined" =>
          \E i \in DOMAIN processes[EntityOf[c]] : CreatedAt(c, i)
    /\ \A e \in Entities : \A i \in DOMAIN processes[e] :
          EntityOf[processes[e][i]] = e /\ tx[processes[e][i]] = "mined"

\* While a call that is alone goes on, nothing else creates in its list, so
\* that its own process is the last one.
AloneInv ==
    \A c \in Creators : alone[c] /\ phase[c] \in Active =>
        /\ \A o \in Creators \ {c} : EntityOf[o] = EntityOf[c] => ~Creating(o)
        /\ tx[c] = "mined" => CreatedAt(c, Len(processes[EntityOf[c]]))

\* On Sokol a wallet has no pending transaction, or one with the nonce that
\* comes next, and the nonces read are not ahead of the mined ones.
SokolInv ==
    sokol =>
        /\ \A w \in Wallets : mined[w] <= accepted[w]
        /\ \A c \in Creators :
              /\ phase[c] = "sending" => nonce[c] <= mined[WalletOf[c]]
              /\ tx[c] = "pending" =>
                    accepted[WalletOf[c]] = mined[WalletOf[c]] + 1

CreationInv ==
    /\ TypeOK
    /\ Progress
    /\ Listed
    /\ NeverOlderProcess
    /\ AloneInv
    /\ OwnProcessWhenAlone
    /\ SokolInv
    /\ OnePendingPerWallet

\* No call has been made at the start.
LEMMA CreationInit == Init => CreationInv
BY NewProcessAssumption
   DEF Init, CreationInv, TypeOK, Progress, Listed, NeverOlderProcess, AloneInv,
       OwnProcessWhenAlone, SokolInv, OnePendingPerWallet, Active

\* A step that leaves the lists alone, mines nothing and returns from no call.
LEMMA ListsKept ==
    ASSUME TypeOK, Listed, NeverOlderProcess, OwnProcessWhenAlone,
           UNCHANGED <<processes, index>>,
           \A d \in Creators :
              /\ tx'[d] = "mined" <=> tx[d] = "mined"
              /\ phase'[d] = "returned" =>
                    phase[d] = "returned" /\ (alone'[d] => alone[d])
    PROVE  Listed' /\ NeverOlderProcess' /\ OwnProcessWhenAlone'
<1>1. \A d, i : CreatedAt(d, i)' <=> CreatedAt(d, i)
  BY DEF CreatedAt
<1>2. \A e \in Entities : \A i \in DOMAIN processes'[e] :
         EntityOf[processes'[e][i]] = e /\ tx'[processes'[e][i]] = "mined"
  <2> SUFFICES ASSUME NEW e \in Entities, NEW i \in DOMAIN processes[e]
               PROVE  EntityOf[processes[e][i]] = e /\ tx'[processes[e][i]] = "mined"
    OBVIOUS
  <2>1. processes[e][i] \in Creators
    BY DEF TypeOK
  <2>2. QED
    BY <2>1 DEF Listed
<1>3. QED
  BY <1>1, <1>2 DEF Listed, NeverOlderProcess, OwnProcessWhenAlone

\* A step in which only the phase of c changes, to a later one that asks for
\* nothing more than c has done.
LEMMA PhaseStep ==
    ASSUME CreationInv, NEW c \in Creators, NEW to,
           phase' = [phase EXCEPT ![c] = to],
           UNCHANGED <<sokol, uploaded, nonce, tx, accepted, mined, processes,
                       index, alone>>,
           phase[c] \in Active,
           to \in {"rejected", "uploading", "counting"},
           to = "uploading" => phase[c] = "checking" /\ EntityOf[c] \in Registered,
           to = "counting" => phase[c] = "waiting" /\ tx[c] = "mined"
    PROVE  CreationInv'
<1> USE NewProcessAssumption DEF CreationInv
<1>1. TypeOK' /\ Progress'
  BY DEF TypeOK, Progress, Active
<1>2. Listed' /\ NeverOlderProcess' /\ OwnProcessWhenAlone'
  BY ListsKept DEF TypeOK
<1>3. AloneInv'
  BY DEF TypeOK, AloneInv, Creating, CreatedAt, Active
<1>4. SokolInv' /\ OnePendingPerWallet'
  BY DEF TypeOK, SokolInv, OnePendingPerWallet
<1>5. QED
  BY <1>1, <1>2, <1>3, <1>4

\* The call is made: whoever creates in the same list is not alone any more.
LEMMA StartStep ==
    ASSUME CreationInv, NEW c \in Creators, Start(c)
    PROVE  CreationInv'
<1> USE NewProcessAssumption DEF CreationInv
<1>1. /\ phase[c] = "idle" /\ tx[c] = "none"
      /\ phase' = [phase EXCEPT ![c] = "checking"]
      /\ UNCHANGED <<sokol, uploaded, nonce, tx, accepted, mined, processes, index>>
  BY DEF Start, Goto, Progress
<1>2. TypeOK'
  BY DEF TypeOK, Start, Goto, Active
<1>3. Progress'
  BY <1>1 DEF TypeOK, Progress, Active
<1>4. Listed' /\ NeverOlderProcess' /\ OwnProcessWhenAlone'
  BY <1>1, ListsKept DEF TypeOK, Start
<1>5. AloneInv'
  <2>1. \A d \in Creators :
           alone'[d] = IF d = c
             THEN \A o \in Creators \ {c} : EntityOf[o] = EntityOf[c] => ~Creating(o)
             ELSE alone[d] /\ ~(EntityOf[d] = EntityOf[c] /\ Creating(d))
    BY DEF Start
  <2>2. \A d \in Creators \ {c} : Creating(d)' <=> Creating(d)
    BY <1>1 DEF TypeOK, Creating
  <2>3. ASSUME NEW d \in Creators, alone'[d], phase'[d] \in Active
        PROVE  /\ \A o \in Creators \ {d} :
                     EntityOf[o] = EntityOf[d] => ~Creating(o)'
               /\ tx[d] = "mined" => CreatedAt(d, Len(processes[EntityOf[d]]))
    <3>1. CASE d = c
      BY <1>1, <2>1, <2>2, <2>3, <3>1
    <3>2. CASE d # c
      <4>1. phase[d] \in Active /\ Creating(d)
        BY <1>1, <2>3, <3>2 DEF TypeOK, Creating
      <4>2. alone[d] /\ EntityOf[d] # EntityOf[c]
        BY <2>1, <2>3, <3>2, <4>1
      <4>3. QED
        BY <2>2, <4>1, <4>2 DEF AloneInv
    <3>3. QED
      BY <3>1, <3>2
  <2>4. QED
    BY <1>1, <2>3 DEF AloneInv, CreatedAt
<1>6. SokolInv' /\ OnePendingPerWallet'
  BY <1>1 DEF TypeOK, SokolInv, OnePendingPerWallet
<1>7. QED
  BY <1>2, <1>3, <1>4, <1>5, <1>6

\* The metadata is uploaded.
LEMMA UploadStep ==
    ASSUME CreationInv, NEW c \in Creators, Upload(c)
    PROVE  CreationInv'
<1> USE NewProcessAssumption DEF CreationInv, Upload, Goto
<1>1. TypeOK' /\ Progress'
  BY DEF TypeOK, Progress, Active
<1>2. Listed' /\ NeverOlderProcess' /\ OwnProcessWhenAlone'
  BY ListsKept DEF TypeOK
<1>3. AloneInv'
  BY DEF TypeOK, AloneInv, Creating, CreatedAt, Active
<1>4. SokolInv' /\ OnePendingPerWallet'
  BY DEF TypeOK, SokolInv, OnePendingPerWallet
<1>5. QED
  BY <1>1, <1>2, <1>3, <1>4

\* The nonce is read: on Sokol, of the latest block.
LEMMA ReadNonceStep ==
    ASSUME CreationInv, NEW c \in Creators, ReadNonce(c)
    PROVE  CreationInv'
<1> USE NewProcessAssumption DEF CreationInv, ReadNonce, Goto
<1>1. TypeOK' /\ Progress'
  BY DEF TypeOK, Progress, Active
<1>2. Listed' /\ NeverOlderProcess' /\ OwnProcessWhenAlone'
  BY ListsKept DEF TypeOK
<1>3. AloneInv'
  BY DEF TypeOK, AloneInv, Creating, CreatedAt, Active
<1>4. SokolInv' /\ OnePendingPerWallet'
  <2>1. sokol => nonce'[c] = mined[WalletOf[c]]
    BY DEF TypeOK
  <2>2. \A d \in Creators \ {c} : nonce'[d] = nonce[d] /\ phase'[d] = phase[d]
    BY DEF TypeOK
  <2>3. \A w \in Wallets : mined[w] \in Nat
    BY DEF TypeOK
  <2>4. QED
    BY <2>1, <2>2, <2>3 DEF SokolInv, OnePendingPerWallet
<1>5. QED
  BY <1>1, <1>2, <1>3, <1>4

\* The chain accepts the transaction, or refuses its nonce.
LEMMA SendStep ==
    ASSUME CreationInv, NEW c \in Creators, Send(c)
    PROVE  CreationInv'
<1> USE NewProcessAssumption DEF CreationInv
<1>1. CASE nonce[c] # accepted[WalletOf[c]]
  BY <1>1, PhaseStep DEF Send, Goto, Active
<1>2. CASE nonce[c] = accepted[WalletOf[c]]
  <2>1. /\ phase[c] = "sending" /\ tx[c] = "none"
        /\ phase' = [phase EXCEPT ![c] = "waiting"]
        /\ tx' = [tx EXCEPT ![c] = "pending"]
        /\ accepted' = [accepted EXCEPT ![WalletOf[c]] = @ + 1]
        /\ UNCHANGED <<sokol, uploaded, nonce, mined, processes, index, alone>>
    BY <1>2 DEF Send, Goto, Progress
  <2>2. TypeOK' /\ Progress'
    BY <2>1 DEF TypeOK, Progress, Active
  <2>3. Listed' /\ NeverOlderProcess' /\ OwnProcessWhenAlone'
    BY <2>1, ListsKept DEF TypeOK
  <2>4. AloneInv'
    BY <2>1 DEF TypeOK, AloneInv, Creating, CreatedAt, Active
  <2>5. sokol => /\ accepted[WalletOf[c]] = mined[WalletOf[c]]
                 /\ \A d \in Creators : WalletOf[d] = WalletOf[c] => tx[d] # "pending"
    BY <1>2, <2>1 DEF TypeOK, SokolInv
  <2>6. SokolInv' /\ OnePendingPerWallet'
    BY <2>1, <2>5 DEF TypeOK, SokolInv, OnePendingPerWallet
  <2>7. QED
    BY <2>2, <2>3, <2>4, <2>6
<1>3. QED
  BY <1>1, <1>2

\* Appending to the list of c keeps every process where it was.
LEMMA AppendedList ==
    ASSUME TypeOK, NEW c \in Creators, EntityOf[c] \in Entities,
           processes' = [processes EXCEPT ![EntityOf[c]] = Append(@, c)]
    PROVE  /\ processes' \in [Entities -> Seq(Creators)]
           /\ Len(processes'[EntityOf[c]]) = Len(processes[EntityOf[c]]) + 1
           /\ CreatedAt(c, Len(processes[EntityOf[c]]))'
           /\ \A e \in Entities :
                 /\ DOMAIN processes[e] \subseteq DOMAIN processes'[e]
                 /\ \A i \in DOMAIN processes[e] :
                       processes'[e][i] = processes[e][i]
                 /\ \A i \in DOMAIN processes'[e] \ DOMAIN processes[e] :
                       e = EntityOf[c] /\ processes'[e][i] = c
                 /\ e # EntityOf[c] => processes'[e] = processes[e]
<1> DEFINE own == EntityOf[c]
           old == processes[own]
<1>1. /\ processes'[own] = Append(old, c)
      /\ \A e \in Entities \ {own} : processes'[e] = processes[e]
      /\ old \in Seq(Creators)
  BY DEF TypeOK
<1>2. /\ Append(old, c) \in Seq(Creators)
      /\ Len(Append(old, c)) = Len(old) + 1
      /\ DOMAIN Append(old, c) = 1..(Len(old) + 1)
      /\ DOMAIN old = 1..Len(old)
      /\ Len(old) \in Nat
      /\ \A i \in 1..Len(old) : Append(old, c)[i] = old[i]
      /\ Append(old, c)[Len(old) + 1] = c
  BY <1>1
<1>3. processes' \in [Entities -> Seq(Creators)]
  BY <1>2 DEF TypeOK
<1>4. CreatedAt(c, Len(processes[EntityOf[c]]))'
  BY <1>1, <1>2 DEF CreatedAt
<1>5. ASSUME NEW e \in Entities
      PROVE  /\ DOMAIN processes[e] \subseteq DOMAIN processes'[e]
             /\ \A i \in DOMAIN processes[e] : processes'[e][i] = processes[e][i]
             /\ \A i \in DOMAIN processes'[e] \ DOMAIN processes[e] :
                   e = own /\ processes'[e][i] = c
             /\ e # own => processes'[e] = processes[e]
  <2>1. CASE e = own
    BY <1>1, <1>2, <2>1
  <2>2. CASE e # own
    BY <1>1, <2>2
  <2>3. QED
    BY <2>1, <2>2
<1>6. QED
  BY <1>1, <1>2, <1>3, <1>4, <1>5

\* A transaction is mined, or reverts.
LEMMA MineStep ==
    ASSUME CreationInv, NEW c \in Creators, Mine(c)
    PROVE  CreationInv'
<1> USE NewProcessAssumption DEF CreationInv
<1>1. /\ tx[c] = "pending"
      /\ mined' = [mined EXCEPT ![WalletOf[c]] = @ + 1]
      /\ UNCHANGED <<sokol, phase, uploaded, nonce, accepted, index, alone>>
      /\ EntityOf[c] \in Entities /\ WalletOf[c] \in Wallets
  BY DEF Mine
<1>2. PICK outcome \in {"mined", "reverted"} :
         /\ tx' = [tx EXCEPT ![c] = outcome]
         /\ outcome = "mined" =>
               processes' = [processes EXCEPT ![EntityOf[c]] = Append(@, c)]
         /\ outcome = "reverted" => UNCHANGED processes
  BY DEF Mine
<1>3. TypeOK'
  <2>1. processes' \in [Entities -> Seq(Creators)]
    BY <1>1, <1>2, AppendedList DEF TypeOK
  <2>2. tx' \in [Creators -> {"none", "pending", "mined", "reverted"}]
    BY <1>2 DEF TypeOK
  <2>3. mined' \in [Wallets -> Nat]
    BY <1>1 DEF TypeOK
  <2>4. QED
    BY <1>1, <2>1, <2>2, <2>3 DEF TypeOK
<1>4. Progress'
  BY <1>1, <1>2 DEF TypeOK, Progress, Active
<1>5. Listed' /\ NeverOlderProcess' /\ OwnProcessWhenAlone'
  <2>1. CASE outcome = "reverted"
    BY <1>1, <1>2, <2>1, ListsKept DEF TypeOK
  <2>2. CASE outcome = "mined"
    <3>1. processes' = [processes EXCEPT ![EntityOf[c]] = Append(@, c)]
      BY <1>2, <2>2
    <3>2. /\ CreatedAt(c, Len(processes[EntityOf[c]]))'
          /\ \A e \in Entities :
                /\ DOMAIN processes[e] \subseteq DOMAIN processes'[e]
                /\ \A i \in DOMAIN processes[e] : processes'[e][i] = processes[e][i]
                /\ \A i \in DOMAIN processes'[e] \ DOMAIN processes[e] :
                      e = EntityOf[c] /\ processes'[e][i] = c
      BY <1>1, <3>1, AppendedList
    <3>3. \A d \in Creators : \A i : CreatedAt(d, i) => CreatedAt(d, i)'
      BY <3>2 DEF CreatedAt
    <3>4. \A d \in Creators : tx'[d] = IF d = c THEN "mined" ELSE tx[d]
      BY <1>2, <2>2 DEF TypeOK
    <3>5. \A d \in Creators : tx'[d] = "mined" =>
             \E i \in DOMAIN processes'[EntityOf[d]] : CreatedAt(d, i)'
      <4> SUFFICES ASSUME NEW d \in Creators, tx'[d] = "mined"
                   PROVE  \E i \in DOMAIN processes'[EntityOf[d]] : CreatedAt(d, i)'
        OBVIOUS
      <4>1. CASE d = c
        BY <3>2, <4>1 DEF CreatedAt
      <4>2. CASE d # c
        <5>1. PICK i \in DOMAIN processes[EntityOf[d]] : CreatedAt(d, i)
          BY <3>4, <4>2 DEF Listed
        <5>2. QED
          BY <3>2, <3>3, <5>1
      <4>3. QED
        BY <4>1, <4>2
    <3>6. \A e \in Entities : \A i \in DOMAIN processes'[e] :
             EntityOf[processes'[e][i]] = e /\ tx'[processes'[e][i]] = "mined"
      <4> SUFFICES ASSUME NEW e \in Entities, NEW i \in DOMAIN processes'[e]
                   PROVE  /\ EntityOf[processes'[e][i]] = e
                          /\ tx'[processes'[e][i]] = "mined"
        OBVIOUS
      <4>1. CASE i \in DOMAIN processes[e]
        <5>1. processes[e][i] \in Creators
          BY <4>1 DEF TypeOK
        <5>2. QED
          BY <3>2, <3>4, <4>1, <5>1 DEF Listed
      <4>2. CASE i \notin DOMAIN processes[e]
        BY <3>2, <3>4, <4>2
      <4>3. QED
        BY <4>1, <4>2
    <3>7. NeverOlderProcess'
      <4> SUFFICES ASSUME NEW d \in Creators, phase[d] = "returned"
                   PROVE  /\ index[d] + 1 \in DOMAIN processes'[EntityOf[d]]
                          /\ \E i \in 1..(index[d] + 1) : CreatedAt(d, i)'
        BY <1>1 DEF NeverOlderProcess
      <4>1. /\ index[d] + 1 \in DOMAIN processes[EntityOf[d]]
            /\ \E i \in 1..(index[d] + 1) : CreatedAt(d, i)
        BY DEF NeverOlderProcess
      <4>2. QED
        BY <3>2, <3>3, <4>1
    <3>8. OwnProcessWhenAlone'
      <4> SUFFICES ASSUME NEW d \in Creators, phase[d] = "returned", alone[d]
                   PROVE  /\ index[d] + 1 \in DOMAIN processes'[EntityOf[d]]
                          /\ processes'[EntityOf[d]][index[d] + 1] = d
        BY <1>1 DEF OwnProcessWhenAlone, CreatedAt
      <4>1. CreatedAt(d, index[d] + 1)
        BY DEF OwnProcessWhenAlone
      <4>2. QED
        BY <3>2, <4>1 DEF CreatedAt
    <3>9. QED
      BY <3>5, <3>6, <3>7, <3>8 DEF Listed
  <2>3. QED
    BY <2>1, <2>2
<1>6. AloneInv'
  <2>1. \A d \in Creators : Creating(d)' => Creating(d)
    BY <1>1, <1>2 DEF TypeOK, Creating
  <2> SUFFICES ASSUME NEW d \in Creators, alone[d], phase[d] \in Active
               PROVE  /\ \A o \in Creators \ {d} :
                            EntityOf[o] = EntityOf[d] => ~Creating(o)'
                      /\ tx'[d] = "mined" => CreatedAt(d, Len(processes[EntityOf[d]]))'
    BY <1>1 DEF AloneInv
  <2>2. \A o \in Creators \ {d} : EntityOf[o] = EntityOf[d] => ~Creating(o)'
    BY <2>1 DEF AloneInv
  <2>3. ASSUME tx'[d] = "mined"
        PROVE  CreatedAt(d, Len(processes[EntityOf[d]]))'
    <3>1. CASE d = c
      <4>1. processes' = [processes EXCEPT ![EntityOf[c]] = Append(@, c)]
        BY <1>2, <2>3, <3>1 DEF TypeOK
      <4>2. QED
        BY <1>1, <3>1, <4>1, AppendedList
    <3>2. CASE d # c
      <4>1. EntityOf[c] # EntityOf[d]
        BY <1>1, <3>2 DEF AloneInv, Creating
      <4>2. processes'[EntityOf[d]] = processes[EntityOf[d]]
        BY <1>2, <4>1 DEF TypeOK
      <4>3. CreatedAt(d, Len(processes[EntityOf[d]]))
        BY <1>2, <2>3, <3>2 DEF AloneInv, TypeOK
      <4>4. QED
        BY <4>2, <4>3 DEF CreatedAt
    <3>3. QED
      BY <3>1, <3>2
  <2>4. QED
    BY <2>2, <2>3
<1>7. SokolInv' /\ OnePendingPerWallet'
  <2>1. \A d \in Creators : tx'[d] = "pending" => d # c /\ tx[d] = "pending"
    BY <1>2 DEF TypeOK
  <2>2. OnePendingPerWallet'
    BY <1>1, <2>1 DEF OnePendingPerWallet
  <2>3. ASSUME sokol PROVE SokolInv'
    <3>1. /\ accepted[WalletOf[c]] = mined[WalletOf[c]] + 1
          /\ \A d \in Creators \ {c} :
                tx[d] = "pending" => WalletOf[d] # WalletOf[c]
      BY <1>1, <2>3 DEF SokolInv, OnePendingPerWallet
    <3>2. /\ mined'[WalletOf[c]] = mined[WalletOf[c]] + 1
          /\ \A w \in Wallets \ {WalletOf[c]} : mined'[w] = mined[w]
          /\ \A w \in Wallets : mined[w] \in Nat
          /\ \A d \in Creators : WalletOf[d] \in Wallets /\ nonce[d] \in Nat
      BY <1>1 DEF TypeOK
    <3>3. \A w \in Wallets : mined'[w] <= accepted[w]
      BY <2>3, <3>1, <3>2 DEF SokolInv
    <3>4. ASSUME NEW d \in Creators, phase[d] = "sending"
          PROVE  nonce[d] <= mined'[WalletOf[d]]
      BY <2>3, <3>2, <3>4 DEF SokolInv
    <3>5. ASSUME NEW d \in Creators, tx'[d] = "pending"
          PROVE  accepted[WalletOf[d]] = mined'[WalletOf[d]] + 1
      BY <2>1, <2>3, <3>1, <3>2, <3>5 DEF SokolInv
    <3>6. QED
      BY <1>1, <3>3, <3>4, <3>5 DEF SokolInv
  <2>4. QED
    BY <1>1, <2>2, <2>3 DEF SokolInv
<1>8. QED
  BY <1>3, <1>4, <1>5, <1>6, <1>7

\* The count of processes is read: the call returns the ID of the last one.
LEMMA ReadCountStep ==
    ASSUME CreationInv, NEW c \in Creators, ReadCount(c)
    PROVE  CreationInv'
<1> USE NewProcessAssumption DEF CreationInv
<1> DEFINE count == Len(processes[EntityOf[c]])
<1>1. /\ phase[c] = "counting" /\ tx[c] = "mined"
      /\ UNCHANGED <<sokol, uploaded, nonce, tx, accepted, mined, processes, alone>>
      /\ EntityOf[c] \in Entities
  BY DEF ReadCount, Goto, Progress
<1>2. PICK i \in DOMAIN processes[EntityOf[c]] : CreatedAt(c, i)
  BY <1>1 DEF Listed
<1>3. count \in Nat /\ DOMAIN processes[EntityOf[c]] = 1..count /\ count # 0
  BY <1>1, <1>2 DEF TypeOK
<1>4. /\ phase' = [phase EXCEPT ![c] = "returned"]
      /\ index' = [index EXCEPT ![c] = count - 1]
  BY <1>3 DEF ReadCount, Goto
<1>5. count - 1 \in Nat /\ (count - 1) + 1 = count /\ i \in 1..count
  BY <1>2, <1>3
<1> HIDE DEF count
<1>6. TypeOK' /\ Progress'
  BY <1>1, <1>4, <1>5 DEF TypeOK, Progress, Active
<1>7. \A d, j : CreatedAt(d, j)' <=> CreatedAt(d, j)
  BY <1>1 DEF CreatedAt
<1>8. Listed'
  BY <1>1, <1>7 DEF Listed
<1>9. NeverOlderProcess'
  <2> SUFFICES ASSUME NEW d \in Creators, phase'[d] = "returned"
               PROVE  /\ index'[d] + 1 \in DOMAIN processes[EntityOf[d]]
                      /\ \E j \in 1..(index'[d] + 1) : CreatedAt(d, j)
    BY <1>1, <1>7 DEF NeverOlderProcess
  <2>1. CASE d = c
    <3>1. index'[d] + 1 = count
      BY <1>4, <1>5, <2>1 DEF TypeOK
    <3>2. QED
      BY <1>2, <1>3, <1>5, <2>1, <3>1
  <2>2. CASE d # c
    BY <1>4, <2>2 DEF TypeOK, NeverOlderProcess
  <2>3. QED
    BY <2>1, <2>2
<1>10. OwnProcessWhenAlone'
  <2> SUFFICES ASSUME NEW d \in Creators, phase'[d] = "returned", alone[d]
               PROVE  CreatedAt(d, index'[d] + 1)
    BY <1>1, <1>7 DEF OwnProcessWhenAlone
  <2>1. CASE d = c
    <3>1. CreatedAt(c, count)
      BY <1>1, <2>1 DEF AloneInv, Active, count
    <3>2. index'[d] + 1 = count
      BY <1>4, <1>5, <2>1 DEF TypeOK
    <3>3. QED
      BY <2>1, <3>1, <3>2
  <2>2. CASE d # c
    BY <1>4, <2>2 DEF TypeOK, OwnProcessWhenAlone
  <2>3. QED
    BY <2>1, <2>2
<1>11. AloneInv'
  <2>1. \A d \in Creators : /\ Creating(d)' => Creating(d)
                            /\ phase'[d] \in Active => phase[d] \in Active
    BY <1>1, <1>4 DEF TypeOK, Creating, Active
  <2>2. QED
    BY <1>1, <2>1 DEF AloneInv, CreatedAt
<1>12. SokolInv' /\ OnePendingPerWallet'
  BY <1>1, <1>4 DEF TypeOK, SokolInv, OnePendingPerWallet
<1>13. QED
  BY <1>6, <1>8, <1>9, <1>10, <1>11, <1>12

\* The remaining steps only move call c on.
LEMMA MoveStep ==
    ASSUME CreationInv, NEW c \in Creators, Check(c) \/ Confirm(c) \/ Fail(c)
    PROVE  CreationInv'
<1>1. CASE Check(c)
  BY <1>1, PhaseStep DEF Check, Goto, Active
<1>2. CASE Confirm(c)
  BY <1>2, PhaseStep DEF Confirm, Goto, Active
<1>3. CASE Fail(c)
  BY <1>3, PhaseStep DEF Fail
<1>4. QED
  BY <1>1, <1>2, <1>3

\* Every step keeps the invariant.
LEMMA CreationStep == CreationInv /\ [Next]_vars => CreationInv'
<1> SUFFICES ASSUME CreationInv, [Next]_vars
             PROVE  CreationInv'
  OBVIOUS
<1>1. CASE UNCHANGED vars
  BY <1>1 DEF vars, CreationInv, TypeOK, Progress, Listed, NeverOlderProcess,
              AloneInv, OwnProcessWhenAlone, SokolInv, OnePendingPerWallet,
              Creating, CreatedAt, Active
<1>2. ASSUME NEW c \in Creators, CreatorNext(c)
      PROVE  CreationInv'
  BY <1>2, StartStep, UploadStep, ReadNonceStep, SendStep, ReadCountStep,
     MoveStep DEF CreatorNext
<1>3. ASSUME NEW c \in Creators, Mine(c)
      PROVE  CreationInv'
  BY <1>3, MineStep
<1>4. QED
  BY <1>1, <1>2, <1>3 DEF Next, Finished

\* The invariant holds in every state.
LEMMA CreationInvariant == Spec => []CreationInv
BY CreationInit, CreationStep, PTL DEF Spec

\* The variables of newProcess keep their types, for any calls.
THEOREM ProcessTypeCorrect == Spec => []TypeOK
<1>1. CreationInv => TypeOK
  BY DEF CreationInv
<1>2. QED
  BY <1>1, CreationInvariant, PTL

\* newProcess never returns the ID of a process older than the one it created,
\* nor of one that does not exist.
THEOREM ProcessNeverOlder == Spec => []NeverOlderProcess
<1>1. CreationInv => NeverOlderProcess
  BY DEF CreationInv
<1>2. QED
  BY <1>1, CreationInvariant, PTL

\* A call of newProcess with the list of its entity for itself returns the ID
\* of the process it created.
THEOREM ProcessOwnWhenAlone == Spec => []OwnProcessWhenAlone
<1>1. CreationInv => OwnProcessWhenAlone
  BY DEF CreationInv
<1>2. QED
  BY <1>1, CreationInvariant, PTL

\* On Sokol a wallet has at most one pending transaction.
THEOREM ProcessOnePending == Spec => []OnePendingPerWallet
<1>1. CreationInv => OnePendingPerWallet
  BY DEF CreationInv
<1>2. QED
  BY <1>1, CreationInvariant, PTL

\* Every process in a list is one of a registered entity or token, with its
\* metadata uploaded.
THEOREM ProcessAlwaysComplete == Spec => []ProcessesComplete
<1>1. CreationInv => ProcessesComplete
  <2> SUFFICES ASSUME CreationInv,
                      NEW e \in Entities, NEW i \in DOMAIN processes[e]
               PROVE  e \in Registered /\ uploaded[processes[e][i]]
    BY DEF ProcessesComplete
  <2>1. processes[e][i] \in Creators
    BY DEF CreationInv, TypeOK
  <2>2. EntityOf[processes[e][i]] = e /\ tx[processes[e][i]] = "mined"
    BY DEF CreationInv, Listed
  <2>3. QED
    BY <2>1, <2>2 DEF CreationInv, Progress
<1>2. QED
  BY <1>1, CreationInvariant, PTL
=============================================================================
