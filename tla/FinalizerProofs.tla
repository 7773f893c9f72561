---------------------------- MODULE FinalizerProofs ----------------------------
(***************************************************************************)
(* The safety file of my_finalizers_t, for any keys, blocks, starts and    *)
(* losses of the file: it stands for every vote that was sent, it never    *)
(* goes back, and each key votes as module Voter asks.                     *)
(***************************************************************************)
EXTENDS MyFinalizers, FiniteSetTheorems, WellFoundedInduction, TLAPS

\* Most leaves are pure logic: Zenon is asked first, the SMT solver what it leaves open,
\* and Zenon once more when both ran out of time.
USE ZenonT(5), SMTT(60), ZenonT(60)

-------------------------------------------------------------------------------
(* Safety information.                                                       *)

\* decide_vote and maybe_update_fsi make safety information newer.
LEMMA VoteIsNewer ==
  ASSUME NEW f, FsiOK(f), NEW b \in Blocks
  PROVE  /\ CanVote(f, b) => /\ FsiOK(VotedFsi(f, b)) /\ Newer(VotedFsi(f, b), f)
                             /\ VotedFsi(f, b).last_vote.timestamp = b.timestamp
                             /\ VotesStrong(f, b) => ClaimedTime(b) <= VotedFsi(f, b).lock.timestamp
         /\ FsiOK(EvidenceFsi(b)) /\ (EvidenceIsNewer(f, b) => Newer(EvidenceFsi(b), f))
         /\ b.timestamp \in Nat /\ ClaimedTime(b) \in Nat
<1>1. /\ RefOK(BlockRefOf(b)) /\ ~ empty(BlockRefOf(b)) /\ RefOK(ClaimedRef(b)) /\ ~ empty(ClaimedRef(b))
      /\ ~ is_genesis_core(b.core)
  BY BlocksAssumption
<1>2. BlockRefOf(b).timestamp = b.timestamp /\ ClaimedTime(b) = ClaimedRef(b).timestamp
  BY <1>1 DEF BlockRefOf, BlockRef, ClaimedTime, ClaimedRef, latest_qc_block_timestamp, latest_qc_claim, QcClaim
<1>3. b.timestamp \in Nat /\ ClaimedTime(b) \in Nat
  BY <1>1, <1>2 DEF RefOK
<1>4. /\ f.last_vote.timestamp \in Nat /\ f.lock.timestamp \in Nat
      /\ empty(f.last_vote) => f.last_vote.timestamp = 0
  BY DEF FsiOK, RefOK
<1>5. ASSUME CanVote(f, b)
      PROVE  /\ FsiOK(VotedFsi(f, b)) /\ Newer(VotedFsi(f, b), f)
             /\ VotedFsi(f, b).last_vote.timestamp = b.timestamp
             /\ VotesStrong(f, b) => ClaimedTime(b) <= VotedFsi(f, b).lock.timestamp
  <2>1. VotedFsi(f, b).last_vote = BlockRefOf(b) /\ VotedFsi(f, b).lock = NextLock(f, b)
    BY DEF VotedFsi
  <2>2. f.last_vote.timestamp <= b.timestamp
    BY <1>3, <1>4, <1>5 DEF CanVote, monotony_check
  <2>3. /\ RefOK(NextLock(f, b)) /\ f.lock.timestamp <= NextLock(f, b).timestamp
        /\ VotesStrong(f, b) => ClaimedTime(b) <= NextLock(f, b).timestamp
    <3>1. CASE VotesStrong(f, b) /\ ClaimedTime(b) > f.lock.timestamp
      BY <1>1, <1>2, <1>3, <1>4, <3>1 DEF NextLock
    <3>2. CASE ~ (VotesStrong(f, b) /\ ClaimedTime(b) > f.lock.timestamp)
      BY <1>3, <1>4, <3>2 DEF NextLock, FsiOK
    <3> QED BY <3>1, <3>2
  <2> QED BY <1>1, <1>2, <2>1, <2>2, <2>3 DEF FsiOK, Newer
<1>6. FsiOK(EvidenceFsi(b)) /\ (EvidenceIsNewer(f, b) => Newer(EvidenceFsi(b), f))
  BY <1>1, <1>2, <1>3, <1>4 DEF EvidenceFsi, EvidenceIsNewer, FsiOK, Newer
<1> QED BY <1>3, <1>5, <1>6

\* Newer is a preorder.
LEMMA NewerOrder ==
  ASSUME NEW f, FsiOK(f), NEW g, FsiOK(g), NEW h, FsiOK(h)
  PROVE  Newer(f, f) /\ (Newer(h, g) /\ Newer(g, f) => Newer(h, f))
BY DEF FsiOK, RefOK, Newer

\* What stands for a vote: safety information that allows no other in its slot.
Stands(f, b, s) == b.timestamp <= f.last_vote.timestamp /\ (s => ClaimedTime(b) <= f.lock.timestamp)

\* Newer safety information still does.
LEMMA StandsStays ==
  ASSUME NEW f, FsiOK(f), NEW g, FsiOK(g), Newer(g, f), NEW b \in Blocks, NEW s, Stands(f, b, s)
  PROVE  Stands(g, b, s)
<1>1. b.timestamp \in Nat /\ ClaimedTime(b) \in Nat
  BY VoteIsNewer
<1> QED BY <1>1 DEF Stands, FsiOK, RefOK, Newer

-------------------------------------------------------------------------------
(* Memory and file.                                                          *)

\* While the node is up, the file has what was loaded from it for the keys that are
\* not configured, and nothing newer than memory for the others.
MemoryInv ==
  /\ DOMAIN file \subseteq Key /\ \A k \in DOMAIN file : FsiOK(file[k])
  /\ DOMAIN finalizers \subseteq Key /\ \A k \in DOMAIN finalizers : FsiOK(finalizers[k])
  /\ default_fsi \in Defaults \cup {Unset}
  /\ ~ up => DOMAIN finalizers = {}
  /\ up => /\ DOMAIN file \subseteq DOMAIN inactive_safety_info \cup DOMAIN finalizers
           /\ DOMAIN inactive_safety_info \cap DOMAIN finalizers = {}
           /\ \A k \in DOMAIN inactive_safety_info : k \in DOMAIN file /\ inactive_safety_info[k] = file[k]
           /\ \A k \in DOMAIN finalizers \cap DOMAIN file : Newer(finalizers[k], file[k])

FileInv == MemoryInv /\ VotesAreDurable

\* What FileNeverGoesBack allows.
Forward == \A k \in DOMAIN file : k \in DOMAIN file' /\ Newer(file'[k], file[k])

\* Memory becomes newer, and the file is left as it is or is replaced by it.
LEMMA MemoryAdvances ==
  ASSUME MemoryInv, up, up', inactive_safety_info' = inactive_safety_info,
         default_fsi' \in Defaults \cup {Unset},
         DOMAIN finalizers' = DOMAIN finalizers,
         \A k \in DOMAIN finalizers : FsiOK(finalizers'[k]) /\ Newer(finalizers'[k], finalizers[k]),
         file' \in {file, FileContent(finalizers')}
  PROVE  /\ MemoryInv' /\ Forward
         /\ file' = FileContent(finalizers') =>
              \A k \in DOMAIN finalizers : k \in DOMAIN file' /\ file'[k] = finalizers'[k]
<1>1. \A k \in DOMAIN finalizers \cap DOMAIN file : Newer(finalizers'[k], file[k])
  BY NewerOrder DEF MemoryInv
<1>2. CASE file' = file
  <2>1. Forward
    BY <1>2, NewerOrder DEF MemoryInv, Forward
  <2>2. MemoryInv'
    BY <1>1, <1>2 DEF MemoryInv
  <2>3. ASSUME file' = FileContent(finalizers'), NEW k \in DOMAIN finalizers
        PROVE  k \in DOMAIN file' /\ file'[k] = finalizers'[k]
    BY <2>3 DEF FileContent, MemoryInv
  <2> QED BY <2>1, <2>2, <2>3
<1>3. CASE file' = FileContent(finalizers')
  <2>1. /\ DOMAIN file' = DOMAIN inactive_safety_info \cup DOMAIN finalizers
        /\ \A k \in DOMAIN inactive_safety_info : file'[k] = inactive_safety_info[k]
        /\ \A k \in DOMAIN finalizers : file'[k] = finalizers'[k]
    BY <1>3 DEF FileContent, MemoryInv
  <2>2. \A k \in DOMAIN inactive_safety_info : k \in DOMAIN file /\ file'[k] = file[k] /\ FsiOK(file'[k]) /\ Newer(file'[k], file[k])
    BY <2>1, NewerOrder DEF MemoryInv
  <2>3. Forward
    BY <1>1, <2>1, <2>2 DEF MemoryInv, Forward
  <2>4. \A k \in DOMAIN finalizers : Newer(finalizers'[k], file'[k])
    BY <2>1, NewerOrder
  <2>5. MemoryInv'
    BY <2>1, <2>2, <2>4 DEF MemoryInv
  <2> QED BY <2>1, <2>3, <2>5
<1> QED BY <1>2, <1>3

\* Votes that a file stands for, a newer one stands for.
LEMMA DurableStays ==
  ASSUME FileInv, MemoryInv', Forward, cast' = cast
  PROVE  VotesAreDurable'
<1> SUFFICES ASSUME NEW k \in Key, NEW b \in Blocks, NEW s \in BOOLEAN, [id |-> b.id, strong |-> s] \in cast[k]
             PROVE  k \in DOMAIN file' /\ Stands(file'[k], b, s)
  BY DEF VotesAreDurable, Stands
<1>1. k \in DOMAIN file /\ Stands(file[k], b, s)
  BY DEF FileInv, VotesAreDurable, Stands
<1>2. k \in DOMAIN file' /\ Newer(file'[k], file[k])
  BY <1>1 DEF Forward
<1>3. FsiOK(file[k]) /\ FsiOK(file'[k])
  BY <1>1, <1>2 DEF FileInv, MemoryInv
<1> QED BY <1>1, <1>2, <1>3, StandsStays

\* The node starts (load_finalizer_safety_info, set_keys).
LEMMA StartStep ==
  ASSUME FileInv, NEW keys \in SUBSET Key, Start(keys)
  PROVE  FileInv' /\ Forward
<1>1. /\ up' /\ UNCHANGED <<file, default_fsi, cast>>
      /\ finalizers' = [k \in keys |-> LoadedFsi(k)] /\ inactive_safety_info' = InactiveOf(keys)
  BY DEF Start
<1>2. \A k \in keys : FsiOK(LoadedFsi(k)) /\ (k \in DOMAIN file => LoadedFsi(k) = file[k])
  BY FsiAssumption DEF FileInv, MemoryInv, LoadedFsi
<1>3. /\ DOMAIN finalizers' = keys /\ \A k \in keys : finalizers'[k] = LoadedFsi(k)
      /\ DOMAIN inactive_safety_info' = DOMAIN file \ keys
      /\ \A k \in DOMAIN file \ keys : inactive_safety_info'[k] = file[k]
  BY <1>1 DEF InactiveOf
<1>4. \A k \in DOMAIN file : Newer(file[k], file[k])
  BY NewerOrder DEF FileInv, MemoryInv
<1>5. MemoryInv'
  BY <1>1, <1>2, <1>3, <1>4 DEF FileInv, MemoryInv
<1>6. Forward
  BY <1>1, <1>4 DEF Forward
<1> QED BY <1>1, <1>5, <1>6, DurableStays DEF FileInv

\* set_default_safety_information: only what is empty is replaced.
LEMMA SetDefaultStep ==
  ASSUME FileInv, NEW fsi \in Defaults, SetDefault(fsi)
  PROVE  FileInv' /\ Forward
<1>1. /\ UNCHANGED <<up, file, inactive_safety_info, cast>> /\ default_fsi' = fsi
      /\ DOMAIN finalizers' = DOMAIN finalizers
      /\ \A k \in DOMAIN finalizers :
           \/ finalizers'[k] = finalizers[k]
           \/ empty(finalizers[k].last_vote) /\ empty(finalizers[k].lock) /\ finalizers'[k] = fsi
  BY DEF SetDefault
<1>2. FsiOK(fsi)
  BY FsiAssumption
<1>3. \A k \in DOMAIN finalizers : FsiOK(finalizers'[k]) /\ Newer(finalizers'[k], finalizers[k])
  <2> SUFFICES ASSUME NEW k \in DOMAIN finalizers PROVE FsiOK(finalizers'[k]) /\ Newer(finalizers'[k], finalizers[k])
    OBVIOUS
  <2>1. FsiOK(finalizers[k])
    BY DEF FileInv, MemoryInv
  <2>2. CASE finalizers'[k] = finalizers[k]
    BY <2>1, <2>2, NewerOrder
  <2>3. CASE empty(finalizers[k].last_vote) /\ empty(finalizers[k].lock) /\ finalizers'[k] = fsi
    BY <1>2, <2>1, <2>3 DEF FsiOK, RefOK, Newer
  <2> QED BY <1>1, <2>2, <2>3
<1>4. MemoryInv' /\ Forward
  <2>1. CASE up
    BY <1>1, <1>3, <2>1, MemoryAdvances DEF FileInv
  <2>2. CASE ~ up
    <3>1. Forward
      BY <1>1, NewerOrder DEF FileInv, MemoryInv, Forward
    <3> QED BY <1>1, <1>3, <2>2, <3>1 DEF FileInv, MemoryInv
  <2> QED BY <2>1, <2>2
<1> QED BY <1>1, <1>4, DurableStays DEF FileInv

\* my_finalizers_t::maybe_vote: what is sent was saved before.
LEMMA MaybeVoteStep ==
  ASSUME FileInv, NEW b \in Blocks, MaybeVote(b)
  PROVE  FileInv' /\ Forward
<1>1. /\ up /\ finalizers' = MemAfterVote(b) /\ UNCHANGED <<up, inactive_safety_info, default_fsi>>
  BY DEF MaybeVote
<1>2. DOMAIN finalizers' = DOMAIN finalizers
  BY <1>1 DEF MemAfterVote
<1>3. \A k \in DOMAIN finalizers :
        finalizers'[k] = IF k \in VotersOf(b) THEN VotedFsi(finalizers[k], b) ELSE finalizers[k]
  BY <1>1 DEF MemAfterVote
<1>4. \A k \in VotersOf(b) : k \in DOMAIN finalizers /\ CanVote(finalizers[k], b)
  BY DEF VotersOf
<1>5. \A k \in DOMAIN finalizers : FsiOK(finalizers[k])
  BY DEF FileInv, MemoryInv
<1>6. \A k \in DOMAIN finalizers : FsiOK(finalizers'[k]) /\ Newer(finalizers'[k], finalizers[k])
  BY <1>3, <1>4, <1>5, VoteIsNewer, NewerOrder
<1>7. PICK signed \in SUBSET VotersOf(b) :
        IF signed = {} THEN UNCHANGED <<file, has_voted, safety_write_failed, cast>> ELSE SaveAndSend(b, signed)
  BY DEF MaybeVote
<1>8. file' \in {file, FileContent(finalizers')}
  BY <1>1, <1>7 DEF SaveAndSend, SaveSucceeds, SaveFails
<1>9. /\ MemoryInv' /\ Forward
      /\ file' = FileContent(finalizers') =>
           \A k \in DOMAIN finalizers : k \in DOMAIN file' /\ file'[k] = finalizers'[k]
  BY <1>1, <1>2, <1>6, <1>8, MemoryAdvances DEF FileInv, MemoryInv
<1>10. VotesAreDurable'
  <2>1. CASE cast' = cast
    BY <1>9, <2>1, DurableStays
  <2>2. CASE file' = FileContent(finalizers') /\ Cast(b, signed)
    <3> SUFFICES ASSUME NEW k \in Key, NEW c \in Blocks, NEW s \in BOOLEAN, [id |-> c.id, strong |-> s] \in cast'[k]
                 PROVE  k \in DOMAIN file' /\ Stands(file'[k], c, s)
      BY DEF VotesAreDurable, Stands
    <3>1. CASE [id |-> c.id, strong |-> s] \in cast[k]
      <4>1. k \in DOMAIN file /\ Stands(file[k], c, s)
        BY <3>1 DEF FileInv, VotesAreDurable, Stands
      <4>2. k \in DOMAIN file' /\ Newer(file'[k], file[k])
        BY <1>9, <4>1 DEF Forward
      <4>3. FsiOK(file[k]) /\ FsiOK(file'[k])
        BY <1>9, <4>1, <4>2 DEF FileInv, MemoryInv
      <4> QED BY <4>1, <4>2, <4>3, StandsStays
    <3>2. CASE [id |-> c.id, strong |-> s] \notin cast[k]
      <4>1. k \in signed /\ [id |-> c.id, strong |-> s] = [id |-> b.id, strong |-> VotesStrong(finalizers[k], b)]
        BY <2>2, <3>2 DEF Cast
      <4>2. c = b /\ s = VotesStrong(finalizers[k], b)
        BY <4>1, BlocksAssumption
      <4>3. k \in VotersOf(b) /\ k \in DOMAIN finalizers /\ CanVote(finalizers[k], b)
        BY <1>4, <1>7, <4>1
      <4>4. k \in DOMAIN file' /\ file'[k] = VotedFsi(finalizers[k], b)
        BY <1>3, <1>9, <2>2, <4>3
      <4>5. /\ b.timestamp \in Nat /\ VotedFsi(finalizers[k], b).last_vote.timestamp = b.timestamp
            /\ VotesStrong(finalizers[k], b) => ClaimedTime(b) <= VotedFsi(finalizers[k], b).lock.timestamp
        BY <1>5, <4>3, VoteIsNewer
      <4> QED BY <4>2, <4>4, <4>5 DEF Stands
    <3> QED BY <3>1, <3>2
  <2> QED BY <1>1, <1>7, <2>1, <2>2 DEF SaveAndSend, SaveSucceeds
<1> QED BY <1>9, <1>10 DEF FileInv

\* my_finalizers_t::maybe_update_fsi with the mutex: evidence that is newer replaces
\* safety information.
LEMMA UpdateStep ==
  ASSUME FileInv, NEW b \in Blocks, MaybeUpdateFsi(b)
  PROVE  FileInv' /\ Forward
<1>1. up /\ UNCHANGED <<up, inactive_safety_info, default_fsi, cast>>
  BY DEF MaybeUpdateFsi
<1>2. /\ DOMAIN finalizers' = DOMAIN finalizers
      /\ \A k \in DOMAIN finalizers :
           finalizers'[k] = IF k \in UpdatedByEvidence(b) THEN EvidenceFsi(b) ELSE finalizers[k]
  BY DEF MaybeUpdateFsi
<1>3. \A k \in DOMAIN finalizers : FsiOK(finalizers[k])
  BY DEF FileInv, MemoryInv
<1>4. \A k \in UpdatedByEvidence(b) : EvidenceIsNewer(finalizers[k], b)
  BY DEF UpdatedByEvidence
<1>5. \A k \in DOMAIN finalizers : FsiOK(finalizers'[k]) /\ Newer(finalizers'[k], finalizers[k])
  BY <1>2, <1>3, <1>4, VoteIsNewer, NewerOrder
<1>6. file' \in {file, FileContent(finalizers')}
  BY DEF MaybeUpdateFsi, SaveSucceeds, SaveFails
<1>7. MemoryInv' /\ Forward
  BY <1>1, <1>2, <1>5, <1>6, MemoryAdvances DEF FileInv, MemoryInv
<1> QED BY <1>1, <1>7, DurableStays DEF FileInv

\* The node stops.
LEMMA StopStep ==
  ASSUME FileInv, Stop
  PROVE  FileInv' /\ Forward
<1>1. /\ ~ up' /\ DOMAIN finalizers' = {} /\ default_fsi' = Unset /\ UNCHANGED <<file, cast>>
  BY DEF Stop, None
<1>2. MemoryInv'
  BY <1>1 DEF FileInv, MemoryInv
<1>3. Forward
  BY <1>1, NewerOrder DEF FileInv, MemoryInv, Forward
<1> QED BY <1>1, <1>2, <1>3, DurableStays DEF FileInv

\* Every step keeps the invariant, and only LoseFile takes the file back.
LEMMA FinalizerStep ==
  ASSUME FileInv, [Next]_vars
  PROVE  FileInv' /\ (LoseFile \/ Forward)
<1>1. ASSUME UNCHANGED <<up, file, finalizers, inactive_safety_info, default_fsi, cast>>
      PROVE  FileInv' /\ Forward
  <2>1. MemoryInv'
    BY <1>1 DEF FileInv, MemoryInv
  <2>2. Forward
    BY <1>1, NewerOrder DEF FileInv, MemoryInv, Forward
  <2> QED BY <1>1, <2>1, <2>2, DurableStays DEF FileInv
<1>2. ASSUME LoseFile PROVE FileInv'
  <2>1. /\ ~ up /\ DOMAIN file' = {} /\ \A k \in Key : cast'[k] = {}
        /\ UNCHANGED <<up, finalizers, inactive_safety_info, default_fsi>>
    BY <1>2 DEF LoseFile, None
  <2>2. MemoryInv'
    BY <2>1 DEF FileInv, MemoryInv
  <2>3. VotesAreDurable'
    BY <2>1 DEF VotesAreDurable
  <2> QED BY <2>2, <2>3 DEF FileInv
<1>3. ASSUME NEW b \in Blocks, CheckHasVoted(b) PROVE FileInv' /\ Forward
  BY <1>1, <1>3 DEF CheckHasVoted
<1> QED BY <1>1, <1>2, <1>3, StartStep, SetDefaultStep, MaybeVoteStep, UpdateStep, StopStep DEF Next, vars

\* There is no file and no vote yet.
LEMMA FileInvInit == Init => FileInv
<1> SUFFICES ASSUME Init PROVE FileInv
  OBVIOUS
<1>1. ~ up /\ DOMAIN file = {} /\ DOMAIN finalizers = {} /\ default_fsi = Unset /\ \A k \in Key : cast[k] = {}
  BY DEF Init, None
<1> QED BY <1>1 DEF FileInv, MemoryInv, VotesAreDurable

\* The inductive invariant.
THEOREM FileInvariant == Spec => []FileInv
<1>1. FileInv /\ [Next]_vars => FileInv'
  BY FinalizerStep
<1> QED BY <1>1, FileInvInit, PTL DEF Spec

\* A vote that may have been sent is in the safety file (maybe_vote: "save the safety
\* info and, if successful, gossip the votes"), whenever and however the node stops.
THEOREM VotesAreDurableHolds == Spec => []VotesAreDurable
<1>1. FileInv => VotesAreDurable
  BY DEF FileInv
<1> QED BY <1>1, FileInvariant, PTL

\* What the safety file says of a key never goes back, until the file is lost.
THEOREM FileNeverGoesBackHolds == Spec => FileNeverGoesBack
<1>1. FileInv /\ [Next]_vars =>
        [LoseFile \/ \A k \in DOMAIN file : k \in DOMAIN file' /\ Newer(file'[k], file[k])]_vars
  BY FinalizerStep DEF Forward
<1> QED BY <1>1, FileInvariant, PTL DEF Spec, FileNeverGoesBack

-------------------------------------------------------------------------------
(* What votes reach (Voter!Reach): it exists, and it is closed under votes.  *)

\* Every nonempty set of numbers has a least element.
LEMMA NatMin ==
  ASSUME NEW T \in SUBSET Nat, T # {}
  PROVE  \E x \in T : \A y \in T : x <= y
<1> DEFINE R == {p \in Nat \X Nat : p[1] < p[2]}
<1>1. IsWellFoundedOn(R, Nat)
  BY NatLessThanWellFounded DEF OpToRel
<1> HIDE DEF R
<1>2. PICK x \in T : \A y \in T : ~ (<<y, x>> \in R)
  BY <1>1, WFMin
<1>3. \A y \in T : x <= y
  <2> SUFFICES ASSUME NEW y \in T, y < x PROVE FALSE
    OBVIOUS
  <2>1. <<y, x>> \in Nat \X Nat /\ <<y, x>>[1] < <<y, x>>[2]
    OBVIOUS
  <2>2. <<y, x>> \in R
    BY <2>1 DEF R
  <2> QED BY <2>2, <1>2
<1> QED BY <1>3

Size == Cardinality(Blocks)

\* One vote from safety information in S.
VotedFrom(S) == {VotedFsi(p[1], p[2]) : p \in {q \in S \X Blocks : CanVote(q[1], q[2])}}

\* g[i] is what i votes reach from B, for i up to n.
Levels(n, B, g) == g = [i \in 0..n |-> IF i = 0 THEN B ELSE g[i - 1] \cup VotedFrom(g[i - 1])]

\* The elements of Levels.
LEMMA LevelsAre ==
  ASSUME NEW n \in Nat, NEW B, NEW g, Levels(n, B, g)
  PROVE  /\ g[0] = B
         /\ \A i \in 1..n : g[i] = g[i - 1] \cup VotedFrom(g[i - 1])
<1> DEFINE G == [i \in 0..n |-> IF i = 0 THEN B ELSE g[i - 1] \cup VotedFrom(g[i - 1])]
<1>1. g = G
  BY DEF Levels
<1>2. G[0] = B /\ \A i \in 1..n : G[i] = g[i - 1] \cup VotedFrom(g[i - 1])
  OBVIOUS
<1> HIDE DEF G
<1> QED BY <1>1, <1>2

\* Levels exist: a least n without them would extend those for n - 1.
LEMMA LevelsExist ==
  ASSUME NEW n \in Nat, NEW B
  PROVE  \E g : Levels(n, B, g)
<1> DEFINE T == {m \in Nat : ~ \E g : Levels(m, B, g)}
<1> SUFFICES ASSUME T # {} PROVE FALSE
  OBVIOUS
<1>1. PICK m \in T : \A y \in T : m <= y
  BY NatMin
<1>2. CASE m = 0
  <2>1. PICK g : g = [i \in 0..0 |-> B]
    OBVIOUS
  <2>2. g = [i \in 0..0 |-> IF i = 0 THEN B ELSE g[i - 1] \cup VotedFrom(g[i - 1])]
    BY <2>1
  <2> QED BY <1>1, <1>2, <2>2 DEF Levels
<1>3. CASE m # 0
  <2>1. m - 1 \in Nat /\ m - 1 \notin T
    BY <1>1, <1>3
  <2>2. PICK g : Levels(m - 1, B, g)
    BY <2>1
  <2>3. g[0] = B /\ \A i \in 1..(m - 1) : g[i] = g[i - 1] \cup VotedFrom(g[i - 1])
    BY <2>1, <2>2, LevelsAre
  <2>4. PICK h : h = [i \in 0..m |-> IF i = m THEN g[m - 1] \cup VotedFrom(g[m - 1]) ELSE g[i]]
    OBVIOUS
  <2>5. \A i \in 0..(m - 1) : h[i] = g[i]
    BY <1>1, <2>4
  <2>6. \A i \in 0..m : h[i] = IF i = 0 THEN B ELSE h[i - 1] \cup VotedFrom(h[i - 1])
    <3> SUFFICES ASSUME NEW i \in 0..m PROVE h[i] = IF i = 0 THEN B ELSE h[i - 1] \cup VotedFrom(h[i - 1])
      OBVIOUS
    <3>1. CASE i = 0
      BY <1>3, <2>3, <2>4, <3>1
    <3>2. CASE i = m
      <4>1. h[m - 1] = g[m - 1] /\ h[m] = g[m - 1] \cup VotedFrom(g[m - 1])
        BY <1>1, <1>3, <2>4, <2>5
      <4> QED BY <1>3, <3>2, <4>1
    <3>3. CASE i # 0 /\ i # m
      <4>1. i \in 1..(m - 1) /\ i - 1 \in 0..(m - 1) /\ i \in 0..(m - 1)
        BY <3>3
      <4>2. h[i] = g[i] /\ h[i - 1] = g[i - 1] /\ g[i] = g[i - 1] \cup VotedFrom(g[i - 1])
        BY <2>3, <2>5, <4>1
      <4> QED BY <3>3, <4>2
    <3> QED BY <3>1, <3>2, <3>3
  <2>7. h = [i \in 0..m |-> IF i = 0 THEN B ELSE h[i - 1] \cup VotedFrom(h[i - 1])]
    BY <2>4, <2>6
  <2> QED BY <1>1, <2>7 DEF Levels
<1> QED BY <1>2, <1>3

\* The blocks that safety information allows no more votes on.
Before(f) == {c \in Blocks : c.timestamp <= f.last_vote.timestamp}

\* What more votes reach is well formed, and what n votes reach and fewer do not is
\* past n blocks: each vote is newer than the last.
LEMMA LevelsPast ==
  ASSUME NEW B, \A f \in B : FsiOK(f), NEW n \in Nat, NEW g, Levels(n, B, g), NEW i \in 0..n, NEW f \in g[i]
  PROVE  /\ FsiOK(f)
         /\ empty(f.last_vote) => f \in B
         /\ i > 0 /\ f \notin g[i - 1] => ~ empty(f.last_vote) /\ i <= Cardinality(Before(f))
<1> DEFINE Good(j, x) == /\ FsiOK(x) /\ (empty(x.last_vote) => x \in B)
                         /\ j > 0 /\ x \notin g[j - 1] => ~ empty(x.last_vote) /\ j <= Cardinality(Before(x))
           T == {j \in 0..n : \E x \in g[j] : ~ Good(j, x)}
<1>0. g[0] = B /\ \A j \in 1..n : g[j] = g[j - 1] \cup VotedFrom(g[j - 1])
  BY LevelsAre
<1> SUFFICES ASSUME T # {} PROVE FALSE
  OBVIOUS
<1>1. PICK j \in T : \A y \in T : j <= y
  <2>1. T \in SUBSET Nat
    OBVIOUS
  <2> HIDE DEF T
  <2> QED BY <2>1, NatMin
<1>2. PICK x \in g[j] : ~ Good(j, x)
  BY <1>1
<1>3. j # 0
  <2> SUFFICES ASSUME j = 0 PROVE FALSE
    OBVIOUS
  <2> QED BY <1>0, <1>2
<1>4. j \in 1..n /\ j - 1 \in 0..n /\ j - 1 \notin T
  BY <1>1, <1>3
<1>5. \A y \in g[j - 1] : Good(j - 1, y)
  BY <1>4
<1>6. CASE x \in g[j - 1]
  BY <1>2, <1>5, <1>6
<1>7. CASE x \notin g[j - 1]
  <2>1. x \in VotedFrom(g[j - 1])
    BY <1>0, <1>2, <1>4, <1>7
  <2>2. PICK q \in g[j - 1] \X Blocks : CanVote(q[1], q[2]) /\ x = VotedFsi(q[1], q[2])
    BY <2>1 DEF VotedFrom
  <2>3. PICK p \in g[j - 1], b \in Blocks : CanVote(p, b) /\ x = VotedFsi(p, b)
    BY <2>2
  <2>4. FsiOK(p) /\ FsiOK(x) /\ x.last_vote = BlockRefOf(b) /\ ~ empty(x.last_vote)
        /\ x.last_vote.timestamp = b.timestamp /\ b.timestamp \in Nat
    BY <1>5, <2>3, VoteIsNewer, BlocksAssumption DEF VotedFsi
  <2>5. Before(x) \in SUBSET Blocks /\ b \in Before(x)
    BY <2>4 DEF Before
  <2>6. IsFiniteSet(Before(x)) /\ Cardinality(Before(x)) \in Nat
    BY <2>5, BlocksAssumption, FS_Subset, FS_CardinalityType
  <2>7. CASE j = 1
    <3>1. Cardinality(Before(x)) # 0
      BY <2>5, <2>6, FS_EmptySet
    <3> QED BY <1>2, <2>4, <2>6, <2>7, <3>1
  <2>8. CASE j # 1
    <3>1. j - 1 \in 1..n /\ (j - 1) - 1 = j - 2
      BY <1>4, <2>8
    <3>2. p \notin g[j - 2]
      <4> SUFFICES ASSUME p \in g[j - 2] PROVE FALSE
        OBVIOUS
      <4>1. <<p, b>> \in g[j - 2] \X Blocks /\ CanVote(<<p, b>>[1], <<p, b>>[2]) /\ VotedFsi(<<p, b>>[1], <<p, b>>[2]) = x
        BY <2>3
      <4>2. x \in VotedFrom(g[j - 2])
        BY <4>1 DEF VotedFrom
      <4> QED BY <1>0, <1>7, <3>1, <4>2
    <3>3. ~ empty(p.last_vote) /\ j - 1 <= Cardinality(Before(p))
      BY <1>5, <2>3, <3>1, <3>2
    <3>4. p.last_vote.timestamp < b.timestamp /\ p.last_vote.timestamp \in Nat
      BY <2>3, <2>4, <3>3 DEF CanVote, monotony_check, FsiOK, RefOK
    <3>5. \A c \in Blocks : c.timestamp \in Nat
      BY <2>4, VoteIsNewer
    <3>6. Before(p) \in SUBSET Blocks /\ b \notin Before(p) /\ Before(p) \cup {b} \in SUBSET Before(x)
      BY <2>4, <3>4, <3>5 DEF Before
    <3>7. IsFiniteSet(Before(p)) /\ Cardinality(Before(p)) \in Nat
      BY <3>6, BlocksAssumption, FS_Subset, FS_CardinalityType
    <3>8. Cardinality(Before(p) \cup {b}) = Cardinality(Before(p)) + 1
      BY <3>6, <3>7, FS_AddElement
    <3>9. Cardinality(Before(p) \cup {b}) <= Cardinality(Before(x))
      BY <2>6, <3>6, FS_Subset
    <3> QED BY <1>2, <1>4, <2>4, <2>6, <3>3, <3>7, <3>8, <3>9
  <2> QED BY <2>7, <2>8
<1> QED BY <1>6, <1>7

\* Nothing is left to vote on after as many votes as there are blocks.
LEMMA LevelsClosed ==
  ASSUME NEW B, \A f \in B : FsiOK(f), NEW g, Levels(Size, B, g), NEW f \in g[Size], NEW b \in Blocks, CanVote(f, b)
  PROVE  VotedFsi(f, b) \in g[Size]
<1>1. Size \in Nat /\ Size # 0
  BY BlocksAssumption, FS_CardinalityType, FS_EmptySet DEF Size
<1>2. g[Size] = g[Size - 1] \cup VotedFrom(g[Size - 1])
  BY <1>1, LevelsAre
<1>3. CASE f \in g[Size - 1]
  <2>1. <<f, b>> \in g[Size - 1] \X Blocks /\ CanVote(<<f, b>>[1], <<f, b>>[2]) /\ VotedFsi(<<f, b>>[1], <<f, b>>[2]) = VotedFsi(f, b)
    BY <1>3
  <2>2. VotedFsi(f, b) \in VotedFrom(g[Size - 1])
    BY <2>1 DEF VotedFrom
  <2> QED BY <1>2, <2>2
<1>4. CASE f \notin g[Size - 1]
  <2>1. FsiOK(f) /\ ~ empty(f.last_vote) /\ Size <= Cardinality(Before(f))
    <3>1. Size \in 0..Size /\ Size > 0
      BY <1>1
    <3> QED BY <1>1, <1>4, <3>1, LevelsPast
  <2>2. Before(f) \in SUBSET Blocks
    BY DEF Before
  <2>3. Cardinality(Before(f)) <= Size /\ (Size = Cardinality(Before(f)) => Blocks = Before(f))
    BY <2>2, BlocksAssumption, FS_Subset DEF Size
  <2>4. IsFiniteSet(Before(f)) /\ Cardinality(Before(f)) \in Nat
    BY <2>2, BlocksAssumption, FS_Subset, FS_CardinalityType
  <2>5. b.timestamp <= f.last_vote.timestamp
    BY <1>1, <2>1, <2>3, <2>4 DEF Before
  <2>6. b.timestamp \in Nat /\ f.last_vote.timestamp \in Nat
    BY <2>1, VoteIsNewer DEF FsiOK, RefOK
  <2> QED BY <2>1, <2>5, <2>6 DEF CanVote, monotony_check
<1> QED BY <1>3, <1>4

-------------------------------------------------------------------------------
(* Each key is a Voter.                                                      *)

\* The safety information that Voter sees, and what votes reach from it.
FsiOf(k) == IF k \in DOMAIN file THEN file[k] ELSE Unset
BaseOf(f) == IF f = Unset THEN Defaults \cup {Unset} ELSE {f}
ReachOf(f) == (CHOOSE g : Levels(Size, BaseOf(f), g))[Size]

\* What ReachOf gives.
LEMMA ReachIs ==
  ASSUME NEW f, FsiOK(f)
  PROVE  /\ BaseOf(f) \subseteq ReachOf(f)
         /\ \A h \in ReachOf(f), b \in Blocks : CanVote(h, b) => VotedFsi(h, b) \in ReachOf(f)
         /\ Unset \in ReachOf(f) => f = Unset
<1>1. Size \in Nat
  BY BlocksAssumption, FS_CardinalityType DEF Size
<1>2. PICK g : g = CHOOSE h : Levels(Size, BaseOf(f), h)
  OBVIOUS
<1>3. Levels(Size, BaseOf(f), g)
  BY <1>1, <1>2, LevelsExist
<1>4. ReachOf(f) = g[Size]
  BY <1>2 DEF ReachOf
<1>5. \A h \in BaseOf(f) : FsiOK(h)
  BY FsiAssumption DEF BaseOf
<1>6. g[0] = BaseOf(f) /\ \A i \in 1..Size : g[i] = g[i - 1] \cup VotedFrom(g[i - 1])
  BY <1>1, <1>3, LevelsAre
<1>7. BaseOf(f) \subseteq g[Size]
  <2> DEFINE T == {i \in 0..Size : ~ (BaseOf(f) \subseteq g[i])}
  <2> SUFFICES ASSUME T # {} PROVE FALSE
    BY <1>1
  <2>1. PICK j \in T : \A y \in T : j <= y
    <3>1. T \in SUBSET Nat
      OBVIOUS
    <3> HIDE DEF T
    <3> QED BY <3>1, NatMin
  <2>2. j \in 1..Size /\ j - 1 \in 0..Size /\ j - 1 \notin T
    BY <1>1, <1>6, <2>1
  <2> QED BY <1>6, <2>1, <2>2
<1>8. \A h \in g[Size], b \in Blocks : CanVote(h, b) => VotedFsi(h, b) \in g[Size]
  BY <1>3, <1>5, LevelsClosed
<1>9. Unset \in g[Size] => f = Unset
  <2>1. Size \in 0..Size
    BY <1>1
  <2>2. Unset \in g[Size] => Unset \in BaseOf(f)
    BY <1>1, <1>3, <1>5, <2>1, LevelsPast, FsiAssumption
  <2> QED BY <2>2 DEF BaseOf
<1> QED BY <1>4, <1>7, <1>8, <1>9

\* Voter's copy of the vote is the same.
LEMMA VoterOps ==
  ASSUME NEW k, NEW f, NEW b
  PROVE  /\ V(k)!CanVote(f, b) = CanVote(f, b)
         /\ V(k)!VotesStrong(f, b) = VotesStrong(f, b)
         /\ V(k)!VotedFsi(f, b) = VotedFsi(f, b)
         /\ V(k)!EvidenceIsNewer(f, b) = EvidenceIsNewer(f, b)
         /\ V(k)!EvidenceFsi(b) = EvidenceFsi(b)
<1>1. \A ref : V(k)!empty(ref) = empty(ref)
  BY DEF V!empty, empty
<1>2. \A c, n : V(k)!get_block_reference(c, n) = get_block_reference(c, n)
  BY DEF V!get_block_reference, get_block_reference, V!last_final_block_num, last_final_block_num, V!FrontLink, FrontLink
<1>3. \A c, id : V(k)!extends(c, id) = extends(c, id)
  BY <1>2 DEF V!extends, extends, V!last_final_block_num, last_final_block_num, V!FrontLink, FrontLink,
              V!current_block_num, current_block_num, V!BackLink, BackLink
<1>4. V(k)!BlockRefOf(b) = BlockRefOf(b)
  BY DEF V!BlockRefOf, BlockRefOf, V!BlockRef, BlockRef
<1>5. V(k)!ClaimedRef(b) = ClaimedRef(b)
  BY <1>2 DEF V!ClaimedRef, ClaimedRef, V!latest_qc_claim, latest_qc_claim, V!QcClaim, QcClaim, V!BackLink, BackLink
<1>6. V(k)!ClaimedTime(b) = ClaimedTime(b)
  BY <1>2 DEF V!ClaimedTime, ClaimedTime, V!latest_qc_block_timestamp, latest_qc_block_timestamp,
              V!is_genesis_core, is_genesis_core, V!BackLink, BackLink
<1>7. V(k)!CanVote(f, b) = CanVote(f, b)
  BY <1>1, <1>3, <1>6 DEF V!CanVote, CanVote, V!monotony_check, monotony_check, V!liveness_check, liveness_check,
                          V!safety_check, safety_check
<1>8. V(k)!VotesStrong(f, b) = VotesStrong(f, b)
  BY <1>3, <1>6 DEF V!VotesStrong, VotesStrong
<1>9. V(k)!VotedFsi(f, b) = VotedFsi(f, b)
  BY <1>3, <1>4, <1>5, <1>6, <1>8 DEF V!VotedFsi, VotedFsi, V!NextLock, NextLock, V!NextOtherBranch, NextOtherBranch
<1>10. V(k)!EvidenceIsNewer(f, b) = EvidenceIsNewer(f, b) /\ V(k)!EvidenceFsi(b) = EvidenceFsi(b)
  BY <1>4, <1>5 DEF V!EvidenceIsNewer, EvidenceIsNewer, V!EvidenceFsi, EvidenceFsi
<1> QED BY <1>7, <1>8, <1>9, <1>10

\* And so is what votes reach.
LEMMA VoterReach ==
  ASSUME NEW k
  PROVE  V(k)!Reach = ReachOf(FsiOf(k))
<1>1. V(k)!Cardinality(Blocks) = Size
  BY DEF V!Cardinality, Cardinality, Size
<1>2. V(k)!Base = BaseOf(FsiOf(k))
  BY DEF V!Base, BaseOf, FsiOf
<1>3. \A S : V(k)!Voted(S) = VotedFrom(S)
  BY VoterOps DEF V!Voted, VotedFrom
<1>4. V(k)!ReachedBy = CHOOSE g : g = [n \in 0..V(k)!Cardinality(Blocks) |->
                                          IF n = 0 THEN V(k)!Base ELSE g[n - 1] \cup V(k)!Voted(g[n - 1])]
  BY DEF V!ReachedBy
<1>5. V(k)!ReachedBy = CHOOSE g : Levels(Size, BaseOf(FsiOf(k)), g)
  BY <1>1, <1>2, <1>3, <1>4 DEF Levels
<1> QED BY <1>1, <1>5 DEF V!Reach, ReachOf

\* The steps that Voter allows to key k, in this module's terms.
VoterStep(k) ==
  \/ UNCHANGED <<FsiOf(k), cast[k], forgotten[k]>>
  \/ \E b \in Blocks, from \in ReachOf(FsiOf(k)) :
       /\ CanVote(from, b) /\ FsiOf(k)' = VotedFsi(from, b)
       /\ cast'[k] = cast[k] \cup {[id |-> b.id, strong |-> VotesStrong(from, b)]}
       /\ forgotten'[k] = forgotten[k]
  \/ \E b \in Blocks, from \in ReachOf(FsiOf(k)) :
       /\ [id |-> b.id, strong |-> TRUE] \in forgotten[k] /\ EvidenceIsNewer(from, b)
       /\ FsiOf(k)' = EvidenceFsi(b) /\ cast'[k] = cast[k] /\ forgotten'[k] = forgotten[k]
  \/ FsiOf(k)' \in ReachOf(FsiOf(k)) /\ cast'[k] = cast[k] /\ forgotten'[k] = forgotten[k]
  \/ FsiOf(k)' = Unset /\ cast'[k] = {} /\ forgotten'[k] = forgotten[k] \cup cast[k]

\* They are steps of Voter.
LEMMA VoterStepIs ==
  ASSUME NEW k \in Key, VoterStep(k)
  PROVE  UNCHANGED V(k)!vars \/ V(k)!Next
<1>1. V(k)!Reach = ReachOf(FsiOf(k))
  BY VoterReach
<1>2. CASE UNCHANGED <<FsiOf(k), cast[k], forgotten[k]>>
  BY <1>2 DEF V!vars, FsiOf
<1>3. ASSUME NEW b \in Blocks, NEW from \in ReachOf(FsiOf(k)),
             CanVote(from, b), FsiOf(k)' = VotedFsi(from, b),
             cast'[k] = cast[k] \cup {[id |-> b.id, strong |-> VotesStrong(from, b)]},
             forgotten'[k] = forgotten[k]
      PROVE  V(k)!Next
  <2>1. V(k)!Vote(b)
    BY <1>1, <1>3, VoterOps DEF V!Vote, FsiOf
  <2> QED BY <2>1 DEF V!Next
<1>4. ASSUME NEW b \in Blocks, NEW from \in ReachOf(FsiOf(k)),
             [id |-> b.id, strong |-> TRUE] \in forgotten[k], EvidenceIsNewer(from, b),
             FsiOf(k)' = EvidenceFsi(b), cast'[k] = cast[k], forgotten'[k] = forgotten[k]
      PROVE  V(k)!Next
  <2>1. V(k)!Restore(b)
    BY <1>1, <1>4, VoterOps DEF V!Restore, FsiOf
  <2> QED BY <2>1 DEF V!Next
<1>5. CASE FsiOf(k)' \in ReachOf(FsiOf(k)) /\ cast'[k] = cast[k] /\ forgotten'[k] = forgotten[k]
  <2>1. V(k)!Skip
    BY <1>1, <1>5 DEF V!Skip, FsiOf
  <2> QED BY <2>1 DEF V!Next
<1>6. CASE FsiOf(k)' = Unset /\ cast'[k] = {} /\ forgotten'[k] = forgotten[k] \cup cast[k]
  <2>1. V(k)!Lose
    BY <1>6 DEF V!Lose, FsiOf
  <2> QED BY <2>1 DEF V!Next
<1> QED BY <1>2, <1>3, <1>4, <1>5, <1>6 DEF VoterStep

\* Until a save fails, memory is what votes reach from the file.
VoterInv ==
  /\ FileInv
  /\ \A k \in DOMAIN finalizers :
       /\ empty(finalizers[k].last_vote) /\ empty(finalizers[k].lock) => finalizers[k] = Unset
       /\ ~ safety_write_failed => finalizers[k] \in ReachOf(FsiOf(k))
  /\ \A k \in DOMAIN file : empty(file[k].last_vote) /\ empty(file[k].lock) => file[k] = Unset

\* The safety information Voter sees is well formed, and votes reach it.
LEMMA FsiOfOK ==
  ASSUME MemoryInv, NEW k
  PROVE  FsiOK(FsiOf(k)) /\ FsiOf(k) \in ReachOf(FsiOf(k))
<1>1. FsiOK(FsiOf(k))
  BY FsiAssumption DEF FsiOf, MemoryInv
<1>2. FsiOf(k) \in BaseOf(FsiOf(k))
  BY DEF BaseOf
<1> QED BY <1>1, <1>2, ReachIs

\* A start loads what votes reach.
LEMMA StartVoter ==
  ASSUME VoterInv, NEW keys \in SUBSET Key, Start(keys)
  PROVE  VoterInv' /\ \A k \in Key : VoterStep(k)
<1>1. /\ UNCHANGED <<file, cast, forgotten, safety_write_failed>>
      /\ finalizers' = [k \in keys |-> LoadedFsi(k)]
  BY DEF Start
<1>2. FileInv'
  BY StartStep DEF VoterInv
<1>3. \A k : FsiOf(k)' = FsiOf(k)
  BY <1>1 DEF FsiOf
<1>4. \A k \in keys : /\ LoadedFsi(k) \in BaseOf(FsiOf(k))
                      /\ empty(LoadedFsi(k).last_vote) /\ empty(LoadedFsi(k).lock) => LoadedFsi(k) = Unset
  BY FsiAssumption DEF VoterInv, FileInv, MemoryInv, LoadedFsi, BaseOf, FsiOf
<1>5. \A k \in keys : LoadedFsi(k) \in ReachOf(FsiOf(k))
  BY <1>4, FsiOfOK, ReachIs DEF VoterInv, FileInv
<1>6. DOMAIN finalizers' = keys /\ \A k \in keys : finalizers'[k] = LoadedFsi(k)
  BY <1>1
<1>7. VoterInv'
  BY <1>1, <1>2, <1>3, <1>4, <1>5, <1>6 DEF VoterInv
<1> QED BY <1>1, <1>3, <1>7 DEF VoterStep

\* The default is given to finalizers whose file says nothing.
LEMMA SetDefaultVoter ==
  ASSUME VoterInv, NEW fsi \in Defaults, SetDefault(fsi)
  PROVE  VoterInv' /\ \A k \in Key : VoterStep(k)
<1>1. /\ UNCHANGED <<file, cast, forgotten, safety_write_failed>>
      /\ finalizers' = [k \in DOMAIN finalizers |->
                          IF empty(finalizers[k].last_vote) /\ empty(finalizers[k].lock) THEN fsi ELSE finalizers[k]]
  BY DEF SetDefault
<1>2. FileInv'
  BY SetDefaultStep DEF VoterInv
<1>3. \A k : FsiOf(k)' = FsiOf(k)
  BY <1>1 DEF FsiOf
<1>4. ASSUME NEW k \in DOMAIN finalizers, empty(finalizers[k].last_vote) /\ empty(finalizers[k].lock),
             ~ safety_write_failed
      PROVE  fsi \in ReachOf(FsiOf(k))
  <2>1. Unset \in ReachOf(FsiOf(k))
    BY <1>4 DEF VoterInv
  <2>2. FsiOK(FsiOf(k))
    BY FsiOfOK DEF VoterInv, FileInv
  <2>3. fsi \in BaseOf(FsiOf(k))
    BY <2>1, <2>2, ReachIs DEF BaseOf
  <2> QED BY <2>2, <2>3, ReachIs
<1>5. ~ empty(fsi.lock)
  BY FsiAssumption
<1>6. /\ DOMAIN finalizers' = DOMAIN finalizers
      /\ \A k \in DOMAIN finalizers :
           finalizers'[k] = IF empty(finalizers[k].last_vote) /\ empty(finalizers[k].lock) THEN fsi ELSE finalizers[k]
  BY <1>1
<1>7. VoterInv'
  BY <1>1, <1>2, <1>3, <1>4, <1>5, <1>6 DEF VoterInv
<1> QED BY <1>1, <1>3, <1>7 DEF VoterStep

\* What a save leaves of memory: the file says what memory says of every configured
\* key, and what it said before of the others.
LEMMA SavedFile ==
  ASSUME VoterInv, up, inactive_safety_info' = inactive_safety_info, DOMAIN finalizers' = DOMAIN finalizers,
         MemoryInv', file' = FileContent(finalizers')
  PROVE  \A k \in Key : /\ k \in DOMAIN finalizers => k \in DOMAIN file' /\ FsiOf(k)' = finalizers'[k]
                        /\ k \notin DOMAIN finalizers => FsiOf(k)' = FsiOf(k)
<1>1. /\ DOMAIN file' = DOMAIN inactive_safety_info \cup DOMAIN finalizers
      /\ \A k \in DOMAIN inactive_safety_info : file'[k] = inactive_safety_info[k]
      /\ \A k \in DOMAIN finalizers : file'[k] = finalizers'[k]
  BY DEF FileContent, VoterInv, FileInv, MemoryInv
<1>2. \A k \in DOMAIN inactive_safety_info : k \in DOMAIN file /\ inactive_safety_info[k] = file[k]
  BY DEF VoterInv, FileInv, MemoryInv
<1>3. DOMAIN file \subseteq DOMAIN inactive_safety_info \cup DOMAIN finalizers
  BY DEF VoterInv, FileInv, MemoryInv
<1> QED BY <1>1, <1>2, <1>3 DEF FsiOf

\* Votes reach what they start from.
LEMMA ReachesItself ==
  ASSUME NEW f, FsiOK(f)
  PROVE  f \in ReachOf(f)
BY ReachIs DEF BaseOf

\* Saved memory is what votes reach from the file, which is now the same.
LEMMA SavedInv ==
  ASSUME VoterInv, up, FileInv', inactive_safety_info' = inactive_safety_info,
         DOMAIN finalizers' = DOMAIN finalizers, file' = FileContent(finalizers'),
         \A k \in DOMAIN finalizers :
           empty(finalizers'[k].last_vote) /\ empty(finalizers'[k].lock) => finalizers'[k] = Unset
  PROVE  VoterInv'
<1>1. MemoryInv'
  BY DEF FileInv
<1>2. \A k \in DOMAIN finalizers : k \in Key /\ FsiOf(k)' = finalizers'[k] /\ FsiOK(finalizers'[k])
  BY <1>1, SavedFile DEF MemoryInv
<1>3. \A k \in DOMAIN finalizers : finalizers'[k] \in ReachOf(FsiOf(k)')
  BY <1>2, ReachesItself
<1>4. \A k : ReachOf(FsiOf(k))' = ReachOf(FsiOf(k)')
  OBVIOUS
<1>5. \A k \in DOMAIN file' : empty(file'[k].last_vote) /\ empty(file'[k].lock) => file'[k] = Unset
  BY DEF FileContent, VoterInv, FileInv, MemoryInv
<1> QED BY <1>3, <1>4, <1>5 DEF VoterInv

\* maybe_vote: what is signed and saved is a vote; what is only saved is a vote that
\* is never sent.
LEMMA MaybeVoteVoter ==
  ASSUME VoterInv, NEW b \in Blocks, MaybeVote(b)
  PROVE  VoterInv' /\ \A k \in Key : VoterStep(k)
<1>1. /\ up /\ ~ safety_write_failed /\ finalizers' = MemAfterVote(b)
      /\ UNCHANGED <<inactive_safety_info, forgotten>>
  BY DEF MaybeVote
<1>2. FileInv' /\ FileInv /\ MemoryInv'
  BY MaybeVoteStep DEF VoterInv, FileInv
<1>3. /\ DOMAIN finalizers' = DOMAIN finalizers
      /\ \A k \in DOMAIN finalizers :
           finalizers'[k] = IF k \in VotersOf(b) THEN VotedFsi(finalizers[k], b) ELSE finalizers[k]
  BY <1>1 DEF MemAfterVote
<1>4. \A k \in VotersOf(b) : k \in DOMAIN finalizers /\ CanVote(finalizers[k], b)
  BY DEF VotersOf
<1>5. \A k \in DOMAIN finalizers : finalizers[k] \in ReachOf(FsiOf(k)) /\ FsiOK(FsiOf(k)) /\ k \in Key
  BY <1>1, FsiOfOK DEF VoterInv, FileInv, MemoryInv
<1>6. \A k \in DOMAIN finalizers : finalizers'[k] \in ReachOf(FsiOf(k))
  BY <1>3, <1>4, <1>5, ReachIs
<1>7. \A k \in DOMAIN finalizers :
        empty(finalizers'[k].last_vote) /\ empty(finalizers'[k].lock) => finalizers'[k] = Unset
  <2>1. \A f : VotedFsi(f, b).last_vote = BlockRefOf(b)
    BY DEF VotedFsi
  <2> QED BY <1>3, <2>1, BlocksAssumption DEF VoterInv
<1>8. PICK signed \in SUBSET VotersOf(b) :
        IF signed = {} THEN UNCHANGED <<file, has_voted, safety_write_failed, cast>> ELSE SaveAndSend(b, signed)
  BY DEF MaybeVote
<1>9. CASE UNCHANGED <<file, cast, safety_write_failed>>
  <2>1. \A k : FsiOf(k)' = FsiOf(k)
    BY <1>9 DEF FsiOf
  <2>2. VoterInv'
    BY <1>2, <1>3, <1>6, <1>7, <1>9, <2>1 DEF VoterInv
  <2> QED BY <1>1, <1>9, <2>1, <2>2 DEF VoterStep
<1>10. CASE safety_write_failed' /\ file' = file /\ UNCHANGED cast
  <2>1. \A k : FsiOf(k)' = FsiOf(k)
    BY <1>10 DEF FsiOf
  <2>2. VoterInv'
    BY <1>2, <1>3, <1>7, <1>10, <2>1 DEF VoterInv
  <2> QED BY <1>1, <1>10, <2>1, <2>2 DEF VoterStep
<1>11. CASE file' = FileContent(finalizers') /\ (UNCHANGED cast \/ Cast(b, signed))
  <2>1. VoterInv'
    BY <1>1, <1>2, <1>3, <1>7, <1>11, SavedInv
  <2> SUFFICES ASSUME NEW k \in Key PROVE VoterStep(k)
    BY <2>1
  <2>2. /\ k \in DOMAIN finalizers => FsiOf(k)' = finalizers'[k]
        /\ k \notin DOMAIN finalizers => FsiOf(k)' = FsiOf(k)
    BY <1>1, <1>2, <1>3, <1>11, SavedFile
  <2>3. CASE cast'[k] = cast[k]
    BY <1>1, <1>6, <2>2, <2>3 DEF VoterStep
  <2>4. CASE cast'[k] # cast[k]
    <3>1. k \in signed /\ cast'[k] = cast[k] \cup {[id |-> b.id, strong |-> VotesStrong(finalizers[k], b)]}
      BY <1>11, <2>4 DEF Cast
    <3>2. k \in VotersOf(b) /\ k \in DOMAIN finalizers /\ CanVote(finalizers[k], b)
      BY <1>4, <1>8, <3>1
    <3>3. FsiOf(k)' = VotedFsi(finalizers[k], b) /\ finalizers[k] \in ReachOf(FsiOf(k))
      BY <1>3, <1>5, <2>2, <3>2
    <3> QED BY <1>1, <3>1, <3>2, <3>3 DEF VoterStep
  <2> QED BY <2>3, <2>4
<1> QED BY <1>1, <1>8, <1>9, <1>10, <1>11 DEF SaveAndSend, SaveSucceeds, SaveFails

\* maybe_update_fsi: evidence that is newer than memory is of a vote that the file no
\* longer stands for.
LEMMA UpdateVoter ==
  ASSUME VoterInv, NEW b \in Blocks, MaybeUpdateFsi(b)
  PROVE  VoterInv' /\ \A k \in Key : VoterStep(k)
<1>1. up /\ UNCHANGED <<inactive_safety_info, cast, forgotten>>
  BY DEF MaybeUpdateFsi
<1>2. FileInv' /\ FileInv /\ MemoryInv' /\ MemoryInv
  BY UpdateStep DEF VoterInv, FileInv
<1>3. /\ DOMAIN finalizers' = DOMAIN finalizers
      /\ \A k \in DOMAIN finalizers :
           finalizers'[k] = IF k \in UpdatedByEvidence(b) THEN EvidenceFsi(b) ELSE finalizers[k]
  BY DEF MaybeUpdateFsi
<1>4. \A k \in DOMAIN finalizers :
        empty(finalizers'[k].last_vote) /\ empty(finalizers'[k].lock) => finalizers'[k] = Unset
  <2>1. EvidenceFsi(b).last_vote = BlockRefOf(b)
    BY DEF EvidenceFsi
  <2> QED BY <1>3, <2>1, BlocksAssumption DEF VoterInv
<1>5. CASE UpdatedByEvidence(b) = {} /\ UNCHANGED <<file, safety_write_failed>>
  <2>1. \A k : FsiOf(k)' = FsiOf(k)
    BY <1>5 DEF FsiOf
  <2>2. \A k \in DOMAIN finalizers : finalizers'[k] = finalizers[k]
    BY <1>3, <1>5
  <2>3. VoterInv'
    BY <1>2, <1>3, <1>5, <2>1, <2>2 DEF VoterInv
  <2> QED BY <1>1, <2>1, <2>3 DEF VoterStep
<1>6. CASE safety_write_failed' /\ file' = file
  <2>1. \A k : FsiOf(k)' = FsiOf(k)
    BY <1>6 DEF FsiOf
  <2>2. VoterInv'
    BY <1>2, <1>3, <1>4, <1>6, <2>1 DEF VoterInv
  <2> QED BY <1>1, <2>1, <2>2 DEF VoterStep
<1>7. CASE ~ safety_write_failed /\ file' = FileContent(finalizers')
  <2>1. VoterInv'
    BY <1>1, <1>2, <1>3, <1>4, <1>7, SavedInv
  <2> SUFFICES ASSUME NEW k \in Key PROVE VoterStep(k)
    BY <2>1
  <2>2. /\ k \in DOMAIN finalizers => FsiOf(k)' = finalizers'[k]
        /\ k \notin DOMAIN finalizers => FsiOf(k)' = FsiOf(k)
    BY <1>1, <1>2, <1>3, <1>7, SavedFile
  <2>3. k \in DOMAIN finalizers => finalizers[k] \in ReachOf(FsiOf(k))
    BY <1>7 DEF VoterInv
  <2>4. CASE k \notin UpdatedByEvidence(b)
    BY <1>1, <1>3, <2>2, <2>3, <2>4 DEF VoterStep
  <2>5. CASE k \in UpdatedByEvidence(b)
    <3>1. k \in DOMAIN finalizers /\ EvidenceIsNewer(finalizers[k], b) /\ [id |-> b.id, strong |-> TRUE] \in cast[k] \cup forgotten[k]
      BY <2>5 DEF UpdatedByEvidence, Evidence
    <3>2. [id |-> b.id, strong |-> TRUE] \notin cast[k]
      <4> SUFFICES ASSUME [id |-> b.id, strong |-> TRUE] \in cast[k] PROVE FALSE
        OBVIOUS
      <4>1. k \in DOMAIN file /\ b.timestamp <= file[k].last_vote.timestamp
        BY <1>2 DEF FileInv, VotesAreDurable
      <4>2. file[k].last_vote.timestamp <= finalizers[k].last_vote.timestamp
        BY <1>1, <1>2, <3>1, <4>1 DEF MemoryInv, Newer
      <4>3. b.timestamp > finalizers[k].last_vote.timestamp
        BY <3>1 DEF EvidenceIsNewer
      <4>4. /\ file[k].last_vote.timestamp \in Nat /\ finalizers[k].last_vote.timestamp \in Nat
            /\ FsiOK(finalizers[k])
        BY <1>2, <3>1, <4>1 DEF MemoryInv, FsiOK, RefOK
      <4>5. b.timestamp \in Nat
        BY <4>4, VoteIsNewer
      <4> QED BY <4>1, <4>2, <4>3, <4>4, <4>5
    <3>3. FsiOf(k)' = EvidenceFsi(b)
      BY <1>3, <2>2, <2>5, <3>1
    <3> QED BY <1>1, <2>3, <3>1, <3>2, <3>3 DEF VoterStep
  <2> QED BY <2>4, <2>5
<1> QED BY <1>5, <1>6, <1>7 DEF MaybeUpdateFsi, SaveSucceeds, SaveFails

\* Every step is a step of Voter for each key, or leaves it alone.
LEMMA EachVoterStep ==
  ASSUME VoterInv, [Next]_vars
  PROVE  VoterInv' /\ \A k \in Key : VoterStep(k)
<1>1. FileInv'
  BY FinalizerStep DEF VoterInv
<1>2. ASSUME UNCHANGED <<file, cast, forgotten>>
      PROVE  \A k \in Key : FsiOf(k)' = FsiOf(k) /\ VoterStep(k)
  BY <1>2 DEF FsiOf, VoterStep
<1>3. ASSUME UNCHANGED <<file, finalizers, safety_write_failed>> PROVE VoterInv'
  <2>1. \A k : FsiOf(k)' = FsiOf(k)
    BY <1>3 DEF FsiOf
  <2> QED BY <1>1, <1>3, <2>1 DEF VoterInv
<1>4. CASE Stop
  <2>1. UNCHANGED <<file, cast, forgotten>> /\ DOMAIN finalizers' = {}
    BY <1>4 DEF Stop, None
  <2>2. VoterInv'
    BY <1>1, <2>1 DEF VoterInv
  <2> QED BY <1>2, <2>1, <2>2
<1>5. CASE LoseFile
  <2>1. /\ DOMAIN file' = {} /\ UNCHANGED finalizers /\ DOMAIN finalizers = {}
        /\ \A k \in Key : cast'[k] = {} /\ forgotten'[k] = forgotten[k] \cup cast[k]
    BY <1>5 DEF LoseFile, None, VoterInv, FileInv, MemoryInv
  <2>2. VoterInv'
    BY <1>1, <2>1 DEF VoterInv
  <2>3. \A k \in Key : FsiOf(k)' = Unset
    BY <2>1 DEF FsiOf
  <2> QED BY <2>1, <2>2, <2>3 DEF VoterStep
<1>6. ASSUME NEW b \in Blocks, CheckHasVoted(b) PROVE VoterInv' /\ \A k \in Key : VoterStep(k)
  BY <1>2, <1>3, <1>6 DEF CheckHasVoted
<1>7. CASE UNCHANGED vars
  BY <1>2, <1>3, <1>7 DEF vars
<1> QED BY <1>4, <1>5, <1>6, <1>7, StartVoter, SetDefaultVoter, MaybeVoteVoter, UpdateVoter DEF Next

\* Initially no key has safety information.
LEMMA VoterInvInit == Init => VoterInv /\ \A k \in Key : V(k)!Init
<1> SUFFICES ASSUME Init PROVE VoterInv /\ \A k \in Key : V(k)!Init
  OBVIOUS
<1>1. DOMAIN file = {} /\ DOMAIN finalizers = {} /\ \A k \in Key : cast[k] = {} /\ forgotten[k] = {}
  BY DEF Init, None
<1>2. VoterInv
  BY <1>1, FileInvInit DEF VoterInv
<1>3. \A k \in Key : V(k)!Init
  BY <1>1 DEF V!Init
<1> QED BY <1>2, <1>3

\* The refinement: whatever the node loses, restarts or fails to save, each of its keys
\* votes as if the node never stopped (module Voter), through decide_vote from what it
\* decided before.
THEOREM EachKeyIsAVoterHolds == Spec => EachKeyIsAVoter
<1>1. VoterInv /\ [Next]_vars => VoterInv'
  BY EachVoterStep
<1>2. VoterInv /\ [Next]_vars => [\A k \in Key : UNCHANGED V(k)!vars \/ V(k)!Next]_vars
  BY EachVoterStep, VoterStepIs
<1> QED BY <1>1, <1>2, VoterInvInit, PTL DEF Spec, EachKeyIsAVoter
===============================================================================
