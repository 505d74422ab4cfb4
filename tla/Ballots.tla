------------------------------ MODULE Ballots ------------------------------
(***************************************************************************)
(* What becomes of the choices of voters: they are packed, sealed with the *)
(* keys of the process, put into an envelope with the proof of the voter   *)
(* (packages/voting/src/voting.ts), opened and counted by the Vochain, and *)
(* digested by applications.                                               *)
(***************************************************************************)
EXTENDS Naturals, SequencesExt

CONSTANTS
    Voters,
    Questions,      \* number of questions, or of the options of a single one
    MaxValue,       \* greatest value of a choice
    KeyLists,       \* lists of key indexes in any order, as gateways give them
    Weights         \* weights that the census may give to a voter

ASSUME BallotsAssumption ==
    /\ IsFiniteSet(Voters)
    /\ Questions \in Nat /\ MaxValue \in Nat
    /\ KeyLists \subseteq Seq(Nat)
    /\ Weights \subseteq Nat

VARIABLE poll       \* what is asked of the code, or NoPoll

NoPoll == [origin |-> "none"]
Votes == [1..Questions -> 0..MaxValue]
Polls == [origin : {"tree", "ca", "evm", "anonymous"},
          votes : [Voters -> Votes],
          weight : [Voters -> Weights],
          keys : KeyLists]

PollInit == poll \in Polls
PollCounted == poll # NoPoll /\ poll' = NoPoll

\* The code and the Vochain on any poll, for the proofs.
PollSpec == PollInit /\ [][PollCounted]_poll

-----------------------------------------------------------------------------
Sealed(content, key) == [content |-> content, key |-> key]

\* The keys sorted by their index.
Ascending(keys) ==
    LET order == CHOOSE p \in Bijection(DOMAIN keys, DOMAIN keys) :
                     \A i, j \in DOMAIN keys : i < j => keys[p[i]] <= keys[p[j]]
    IN  [i \in DOMAIN keys |-> keys[order[i]]]

\* Mutant of PackageVoteContent: keys are used in the order of the gateway.
PackageVoteContentUnsorted(votes, keys) ==
    [votePackage |-> FoldLeft(Sealed, [votes |-> votes], keys), keyIndexes |-> Ascending(keys)]

\* The package is sealed once for each key, that of the lowest index first;
\* with no keys it is clear.
PackageVoteContent(votes, keys) ==
    LET sorted == Ascending(keys)
    IN  [votePackage |-> FoldLeft(Sealed, [votes |-> votes], sorted), keyIndexes |-> sorted]

\* hexStringToBuffer refuses an odd number of digits: there are no bytes then.
Digits[n \in Nat] == IF n < 16 THEN 1 ELSE 1 + Digits[n \div 16]
OddDigits(n) == Digits[n] % 2 = 1
HexBytes(n, padded) == IF OddDigits(n) /\ ~padded THEN {} ELSE {n}

\* Mutant of PackageSignedProof: no digit is put before an odd number of them.
PackageSignedProofUnpadded(origin, weight) ==
    CASE origin = "tree" -> [kind |-> "arbo", value |-> {IF weight = 0 THEN 1 ELSE weight}]
      [] origin = "ca"   -> [kind |-> "ca", value |-> {1}]
      [] origin = "evm"  -> [kind |-> "ethereumStorage", value |-> HexBytes(weight, FALSE)]

\* The proof that the origin of the census calls for, and the weight that it
\* shows.  A weight of 0 is taken for a missing one (`weight || BigInt("1")`).
PackageSignedProof(origin, weight) ==
    CASE origin = "tree" -> [kind |-> "arbo", value |-> {IF weight = 0 THEN 1 ELSE weight}]
      [] origin = "ca"   -> [kind |-> "ca", value |-> {1}]
      [] origin = "evm"  -> [kind |-> "ethereumStorage", value |-> HexBytes(weight, TRUE)]

PackageSignedEnvelope(origin, votes, weight, keys) ==
    LET package == PackageVoteContent(votes, keys)
    IN  [proof |-> PackageSignedProof(origin, weight),
         votePackage |-> package.votePackage,
         encryptionKeyIndexes |-> package.keyIndexes]

\* The voter has packed the votes beforehand, for the proof in zero knowledge.
PackageAnonymousEnvelope(package) ==
    [proof |-> [kind |-> "zkSnark", value |-> {1}],
     votePackage |-> package.votePackage,
     encryptionKeyIndexes |-> package.keyIndexes]

Envelope(v) ==
    IF poll.origin = "anonymous"
      THEN PackageAnonymousEnvelope(PackageVoteContent(poll.votes[v], poll.keys))
      ELSE PackageSignedEnvelope(poll.origin, poll.votes[v], poll.weight[v], poll.keys)

-----------------------------------------------------------------------------
(***************************************************************************)
(* The Vochain: a proof has to show the weight that the census gives; the  *)
(* layers of a package are opened from the last key index to the first     *)
(* ("decrypt in reverse order", packages/voting/test/unit/voting.ts:398).  *)
(***************************************************************************)

Broken == [broken |-> TRUE]
Unseal(package, key) ==
    IF "key" \in DOMAIN package /\ package.key = key THEN package.content ELSE Broken
Opened(envelope) ==
    FoldLeft(Unseal, envelope.votePackage, Reverse(envelope.encryptionKeyIndexes))

\* Weights count in a tree with weights and for holders of a token.
Weight == [v \in Voters |-> IF poll.origin \in {"tree", "evm"} THEN poll.weight[v] ELSE 1]
Counts(v) == Envelope(v).proof.value = {Weight[v]} /\ "votes" \in DOMAIN Opened(Envelope(v))

RawResults ==
    [q \in 1..Questions |-> [value \in 0..MaxValue |->
        SumFunctionOnSet(Weight,
            { v \in Voters : Counts(v) /\ Opened(Envelope(v)).votes[q] = value })]]

-----------------------------------------------------------------------------
\* Mutant of DigestSingleChoice: choices are counted from 1.
DigestSingleChoiceFromOne(results) ==
    [q \in 1..Questions |-> [position \in 0..MaxValue |->
        IF position + 1 <= MaxValue THEN results[q][position + 1] ELSE 0]]

\* The votes of a choice are those at its position among the choices; the
\* value that the metadata gives to it is not looked at.
DigestSingleChoice(results) ==
    [q \in 1..Questions |-> [position \in 0..MaxValue |-> results[q][position]]]

\* The points of an option of the only question.
DigestSingleQuestion(results) ==
    [option \in 1..Questions |->
        SumFunction([index \in 0..MaxValue |-> index * results[option][index]])]

-----------------------------------------------------------------------------
(***************************************************************************)
(* Properties                                                              *)
(***************************************************************************)

\* Whatever the order in which a gateway lists the keys, and however a proof
\* writes the weight, each choice ends up with the weight of the voters who
\* made it, if its value is its position, and each option of a single question
\* with the points that were given to it: no vote is lost to a layer that does
\* not open, counted for another choice or with another weight.
BallotsAreCounted ==
    poll # NoPoll =>
        /\ \A q \in 1..Questions, value \in 0..MaxValue :
              DigestSingleChoice(RawResults)[q][value] =
                  SumFunctionOnSet(Weight, { v \in Voters : poll.votes[v][q] = value })
        /\ \A q \in 1..Questions :
              DigestSingleQuestion(RawResults)[q] =
                  SumFunction([v \in Voters |-> Weight[v] * poll.votes[v][q]])
=============================================================================
