---------------------------- MODULE SavannaProofs -----------------------------
(***************************************************************************)
(* Savanna is safe, and locks out no finalizer, for any tree of blocks and *)
(* any honest finalizers of which every two quorums share one.  The parts: *)
(* what each block's finality core says of the branch the block is on, the *)
(* inductive invariant about votes, locks and certified blocks, with one   *)
(* lemma per action, and what it implies.                                  *)
(***************************************************************************)
EXTENDS Savanna, CoreChain, CoreLemmas, WellFoundedInduction

\* Most leaves are pure logic: Zenon is asked first, the SMT solver what it leaves open,
\* and Zenon once more when both ran out of time.
USE ZenonT(5), SMTT(60), ZenonT(60)

-------------------------------------------------------------------------------
(* One branch, whatever its length: the properties of CoreChain.             *)

\* The inductive invariant: the core is in shape and tied to the branch.
ChainInv == \E f, g, k, t : IInv(core, history, f, g, k, t)

\* The core of the genesis block satisfies the invariant.
LEMMA ChainInitInv == ChainInit => ChainInv
  BY GenesisTied DEF ChainInit, ChainInv

\* The block that finish_next extends, and what its core says of it.
LEMMA HeadOfBranch ==
  ASSUME NEW f, NEW g, NEW k, NEW t, IInv(core, history, f, g, k, t)
  PROVE  /\ HeadBlock = At(history, k) /\ HeadBlock \in Block /\ HeadBlock.id.num = k
         /\ CoreReads(core, history, g, k, t)
         /\ k \in Nat /\ g \in Nat /\ t \in Nat /\ G \in Nat /\ G <= g /\ g <= t /\ t <= k
<1>1. HistoryView(history, k)
  BY DEF IInv
<1>2. k \in Nat /\ g \in Nat /\ t \in Nat /\ G \in Nat /\ G <= g /\ g <= t /\ t <= k
  BY GenesisAssumption DEF G, IInv, View, FrontView
<1> QED BY <1>1, <1>2, TipAt, TiedReads DEF HeadBlock

\* finish_next keeps core and branch tied, with the numbers that finality_core::next
\* computes.
LEMMA FinishNextInv ==
  ASSUME NEW f, NEW g, NEW k, NEW t, IInv(core, history, f, g, k, t),
         NEW x \in Hash, NEW gap \in 1..MaxGap, NEW claim \in Claim, FinishNext(x, gap, claim)
  PROVE  /\ t <= claim.block_num /\ claim.block_num <= k
         /\ IInv(core', history', NewFrontSource(core, claim), NewLastFinal(core, claim), k + 1, claim.block_num)
         /\ At(history', k + 1).claim = claim
<1> DEFINE ts == HeadBlock.timestamp + gap
<1>1. /\ HeadBlock = At(history, k) /\ HeadBlock \in Block
      /\ CoreReads(core, history, g, k, t)
      /\ k \in Nat /\ t \in Nat
  BY HeadOfBranch
<1>2. current_block_num(core) = k /\ latest_qc_claim(core).block_num = t
  BY <1>1 DEF CoreReads
<1>3. t <= claim.block_num /\ claim.block_num <= k
  BY <1>1, <1>2 DEF FinishNext, ClaimAccepted, Claim
<1>4. ts \in Nat /\ At(history, k).timestamp < ts
  BY <1>1, BoundAssumption DEF Block
<1>5. core' = ChildCore(core, history, claim) /\ history' = Extend(history, x, ts, claim)
  BY DEF FinishNext
<1> HIDE DEF ts
<1>6. ChildView(core', history', core, history, k, claim,
                [id |-> [num |-> k + 1, hash |-> x], timestamp |-> ts, claim |-> claim])
  BY <1>3, <1>4, <1>5, ChildTied
<1> QED BY <1>3, <1>6 DEF ChildView, Extended

\* The claims that a header can carry.
LEMMA ClaimType == \A n \in GenesisNum..MaxNum, s \in BOOLEAN : QcClaim(n, s) \in Claim
  BY GenesisAssumption, BoundAssumption DEF QcClaim, Claim

\* Every header that is accepted keeps the invariant.
LEMMA ChainNextInv == ChainInv /\ [ChainNext]_chainVars => ChainInv'
<1> SUFFICES ASSUME ChainInv, [ChainNext]_chainVars PROVE ChainInv'
  OBVIOUS
<1>1. CASE UNCHANGED chainVars
  BY <1>1 DEF ChainInv, chainVars
<1>2. CASE ChainNext
  <2>1. PICK x \in Hash, gap \in 1..MaxGap, n \in GenesisNum..MaxNum, s \in BOOLEAN :
          FinishNext(x, gap, QcClaim(n, s))
    BY <1>2 DEF ChainNext
  <2>2. PICK f, g, k, t : IInv(core, history, f, g, k, t)
    BY DEF ChainInv
  <2> QED BY <2>1, <2>2, ClaimType, FinishNextInv DEF ChainInv
<1> QED BY <1>1, <1>2

\* The core of every block is in shape and agrees with its branch.
THEOREM ChainInvariance == ChainSpec => []ChainInv
  BY ChainInitInv, ChainNextInv, PTL DEF ChainSpec

-------------------------------------------------------------------------------
\* The invariants that finality_core.hpp lists follow from the invariant.
LEMMA InvImpliesWellFormed == ChainInv => CoreIsWellFormed
  BY ViewImpliesInvariants DEF ChainInv, IInv, CoreIsWellFormed

\* last_final_block_num read from the pruned core is that of the whole branch.
LEMMA InvImpliesLastFinal == ChainInv => LastFinalMatchesHistory
<1> SUFFICES ASSUME NEW f, NEW g, NEW k, NEW t, IInv(core, history, f, g, k, t)
             PROVE  LastFinalMatchesHistory
  BY DEF ChainInv
<1>0. /\ G \in Nat /\ f \in Nat /\ g \in Nat /\ k \in Nat /\ G <= g /\ g <= f /\ f <= k
      /\ View(core, f, g, k, t) /\ HistoryView(history, k)
      /\ Tied(core, history, f, g, k) /\ FrontView(history, f, g, k)
      /\ Len(history) = (k + 1) - G
  BY GenesisAssumption DEF G, IInv, View, FrontView, HistoryView
<1>1. last_final_block_num(core) = g
  BY <1>0, ViewAccessors
<1>2. \A i \in 1..Len(history) : i + G - 1 \in G..k /\ history[i] = At(history, i + G - 1)
  <2> TAKE i \in 1..Len(history)
  <2>1. i + G - 1 \in G..k /\ (i + G - 1) - G + 1 = i
    BY <1>0
  <2> QED BY <2>1 DEF At, G
<1>3. \A m \in G..k : m - G + 1 \in 1..Len(history) /\ history[m - G + 1] = At(history, m)
  BY <1>0 DEF At, G
<1>4. ASSUME NEW n \in FinalByClaims PROVE n <= g
  <2>1. CASE n = G
    BY <1>0, <2>1
  <2>2. CASE n # G
    <3>1. PICK i \in 1..Len(history) :
            /\ history[i].claim.is_strong_qc
            /\ n = At(history, history[i].claim.block_num).claim.block_num
      BY <2>2 DEF BlockAt, FinalByClaims, G
    <3> QED BY <1>0, <1>2, <3>1 DEF FrontView
  <2> QED BY <2>1, <2>2
<1>5. g = At(history, f).claim.block_num
  <2>1. f \in f..k
    BY <1>0
  <2>2. core.links[1].target_block_num = g /\ f - f + 1 = 1
    BY <1>0 DEF View, LinksView
  <2> QED BY <1>0, <2>1, <2>2 DEF Tied
<1>6. g \in FinalByClaims
  <2>1. CASE f = G
    BY <1>0, <2>1 DEF FinalByClaims, G
  <2>2. CASE f # G
    <3>1. PICK m \in G..k : At(history, m).claim.block_num = f /\ At(history, m).claim.is_strong_qc
      BY <1>0, <2>2 DEF FrontView
    <3>2. m - G + 1 \in 1..Len(history) /\ history[m - G + 1] = At(history, m)
      BY <1>3
    <3>3. g = BlockAt(history[m - G + 1].claim.block_num).claim.block_num
      BY <1>5, <3>1, <3>2 DEF BlockAt
    <3> QED BY <3>1, <3>2, <3>3 DEF FinalByClaims
  <2> QED BY <2>1, <2>2
<1> QED BY <1>1, <1>4, <1>6 DEF LastFinalMatchesHistory

\* extends answers for the refs that are left as the whole branch would.
LEMMA InvImpliesExtends == ChainInv => ExtendsIsAncestry
<1> SUFFICES ASSUME NEW f, NEW g, NEW k, NEW t, IInv(core, history, f, g, k, t),
                    NEW id, id.num \in Nat
             PROVE  extends(core, id) <=>
                      /\ last_final_block_num(core) <= id.num
                      /\ id.num < HeadBlock.id.num
                      /\ BlockAt(id.num).id = id
  BY GenesisAssumption DEF ChainInv, ExtendsIsAncestry
<1>1. HeadBlock.id.num = k /\ last_final_block_num(core) = g
  BY HeadOfBranch DEF CoreReads
<1> QED BY <1>1, TiedExtends DEF BlockAt

\* The timestamps decide_vote reads from a core are those of the blocks.
LEMMA InvImpliesTimestamps == ChainInv => TimestampsMatchHistory
  BY TiedReads DEF ChainInv, CoreReads, TimestampsMatchHistory, BlockAt

\* The claims that verify_basic_proper_block_invariants accepts meet the asserts of
\* finality_core::next.
LEMMA InvImpliesNextPre == ChainInv => AcceptedClaimsMeetNextPre
<1> SUFFICES ASSUME NEW f, NEW g, NEW k, NEW t, IInv(core, history, f, g, k, t),
                    NEW n \in G..HeadBlock.id.num, NEW s \in BOOLEAN, ClaimAccepted(core, QcClaim(n, s))
             PROVE  NextPre(core, TipRef(history), QcClaim(n, s))
  BY DEF ChainInv, AcceptedClaimsMeetNextPre, AcceptedClaims, G
<1>0. /\ View(core, f, g, k, t) /\ HistoryView(history, k) /\ Tied(core, history, f, g, k)
      /\ G \in Nat /\ g \in Nat /\ k \in Nat /\ t \in Nat /\ G <= g /\ g <= k
  BY GenesisAssumption DEF G, IInv, View, FrontView
<1>1. /\ current_block_num(core) = k /\ latest_qc_claim(core).block_num = t
      /\ Len(core.refs) = k - g
      /\ (core.refs = <<>>) <=> (k = g)
  BY <1>0, ViewAccessors
<1>2. HeadBlock = At(history, k) /\ HeadBlock.id.num = k
  BY HeadOfBranch
<1>3. ASSUME core.refs # <<>>
      PROVE  core.refs[Len(core.refs)].timestamp < HeadBlock.timestamp
  <2>1. k - 1 \in g..(k - 1) /\ (k - 1) - g + 1 = k - g /\ k - 1 \in G..k /\ k \in G..k /\ k - 1 < k
    BY <1>0, <1>1, <1>3
  <2>2. core.refs[(k - 1) - g + 1] = BlockRef(At(history, k - 1).id, At(history, k - 1).timestamp)
    BY <1>0, <2>1 DEF Tied
  <2>3. At(history, k - 1).timestamp < At(history, k).timestamp
    BY <1>0, <2>1 DEF HistoryView
  <2>4. core.refs[Len(core.refs)].timestamp = At(history, k - 1).timestamp
    <3>1. core.refs[Len(core.refs)] = core.refs[(k - 1) - g + 1]
      BY <1>1, <2>1
    <3> QED BY <2>2, <3>1 DEF BlockRef
  <2> QED BY <1>2, <2>3, <2>4
<1>4. ClaimLeq(latest_qc_claim(core), QcClaim(n, s))
  <2>1. n >= t /\ (n = t => s = latest_qc_claim(core).is_strong_qc \/ s)
    BY <1>1 DEF ClaimAccepted, QcClaim
  <2>2. n \in Nat
    BY <1>0, <1>2
  <2>3. t < n \/ (t = n /\ (latest_qc_claim(core).is_strong_qc => s))
    BY <1>0, <2>1, <2>2
  <2> QED BY <1>1, <2>3 DEF ClaimLeq, QcClaim
<1> QED BY <1>0, <1>1, <1>2, <1>3, <1>4 DEF NextPre, TipRef, HeadBlock, BlockRef, QcClaim

\* is_genesis_block_num recognises the genesis block and no other.
LEMMA InvImpliesGenesisClaim == ChainInv => GenesisClaimIsRecognised
<1> SUFFICES ASSUME NEW f, NEW g, NEW k, NEW t, IInv(core, history, f, g, k, t),
                    NEW n \in G..HeadBlock.id.num, NEW s \in BOOLEAN, ClaimAccepted(core, QcClaim(n, s))
             PROVE  is_genesis_block_num(core, n) <=> (n = G)
  BY DEF ChainInv, GenesisClaimIsRecognised, AcceptedClaims, G, next_metadata, QcClaim
<1>0. /\ View(core, f, g, k, t) /\ HistoryView(history, k) /\ Tied(core, history, f, g, k)
      /\ G \in Nat /\ f \in Nat /\ g \in Nat /\ k \in Nat /\ t \in Nat
      /\ G <= g /\ g <= f /\ f <= t /\ t <= k
  BY GenesisAssumption DEF G, IInv, View, FrontView
<1>1. /\ FrontLink(core).source_block_num = f /\ latest_qc_claim(core).block_num = t
      /\ FrontLink(core).target_block_num = g
  BY <1>0, ViewAccessors DEF last_final_block_num
<1>2. HeadBlock.id.num = k
  BY HeadOfBranch
<1>3. n \in Nat /\ t <= n
  BY <1>0, <1>1, <1>2 DEF ClaimAccepted, QcClaim
<1>4. f = G \/ f # g
  <2>1. f \in f..k /\ f \in G..k /\ f - f + 1 = 1
    BY <1>0
  <2>2. core.links[1].target_block_num = At(history, f).claim.block_num
    BY <1>0, <2>1 DEF Tied
  <2> QED BY <1>0, <1>1, <2>1, <2>2 DEF HistoryView, FrontLink
<1>5. is_genesis_block_num(core, n) <=> (f = g /\ f = n)
  BY <1>1 DEF is_genesis_block_num
<1> QED BY <1>0, <1>3, <1>4, <1>5

\* A header never takes finality back, and moves it by a strong claim only.
LEMMA StepAdvances ==
  ASSUME ChainInv, ChainNext
  PROVE  /\ last_final_block_num(core) <= last_final_block_num(core')
         /\ last_final_block_num(core) # last_final_block_num(core') =>
              latest_qc_claim(core').is_strong_qc
<1>1. PICK x \in Hash, gap \in 1..MaxGap, n \in GenesisNum..MaxNum, s \in BOOLEAN :
        FinishNext(x, gap, QcClaim(n, s))
  BY DEF ChainNext
<1>2. PICK claim \in Claim : claim = QcClaim(n, s)
  <2>1. QcClaim(n, s) \in Claim
    BY GenesisAssumption, BoundAssumption DEF QcClaim, Claim
  <2> QED BY <2>1
<1>3. PICK f, g, k, t : IInv(core, history, f, g, k, t)
  BY DEF ChainInv
<1> DEFINE ff == NewFrontSource(core, claim)
           gg == NewLastFinal(core, claim)
<1>4. /\ t <= claim.block_num /\ claim.block_num <= k
      /\ IInv(core', history', ff, gg, k + 1, claim.block_num)
      /\ At(history', k + 1).claim = claim
  BY <1>1, <1>2, <1>3, FinishNextInv
<1>5. View(core, f, g, k, t) /\ View(core', ff, gg, k + 1, claim.block_num)
  BY <1>3, <1>4 DEF IInv
<1>6. last_final_block_num(core) = g /\ last_final_block_num(core') = gg
  BY <1>5, ViewAccessors
<1>7. gg \in g..ff
  BY <1>4, <1>5, NewFront
<1>8. g \in Nat /\ gg \in Nat
  BY <1>5 DEF View
<1>9. gg # g => claim.is_strong_qc
  BY <1>6 DEF NewLastFinal
<1>10. latest_qc_claim(core').is_strong_qc = claim.is_strong_qc
  BY <1>4, TiedReads DEF CoreReads
<1> QED BY <1>6, <1>7, <1>8, <1>9, <1>10

\* The invariants 1 to 9 listed in finality_core.hpp hold for the core of every
\* block of every branch: the asserts of finality_core.cpp never fail.
THEOREM WellFormedTheorem == ChainSpec => []CoreIsWellFormed
  BY ChainInvariance, InvImpliesWellFormed, PTL

\* The pruned core yields the last final block that all claims of the branch
\* determine (get_new_block_numbers, finality_core::next).
THEOREM LastFinalTheorem == ChainSpec => []LastFinalMatchesHistory
  BY ChainInvariance, InvImpliesLastFinal, PTL

\* extends answers exactly ancestry from the last final block on.
THEOREM ExtendsTheorem == ChainSpec => []ExtendsIsAncestry
  BY ChainInvariance, InvImpliesExtends, PTL

\* The timestamps read by the voting rules are those of the blocks named.
THEOREM TimestampsTheorem == ChainSpec => []TimestampsMatchHistory
  BY ChainInvariance, InvImpliesTimestamps, PTL

\* Every claim the controller accepts meets the preconditions asserted at the
\* top of finality_core::next.
THEOREM NextPreTheorem == ChainSpec => []AcceptedClaimsMeetNextPre
  BY ChainInvariance, InvImpliesNextPre, PTL

\* block_header_state::next recognises the blocks without a finality tree.
THEOREM GenesisClaimTheorem == ChainSpec => []GenesisClaimIsRecognised
  BY ChainInvariance, InvImpliesGenesisClaim, PTL

\* A step never moves the last final block of a branch back, and only a strong
\* claim moves it (get_new_block_numbers).
THEOREM FinalityAdvancesTheorem == ChainSpec => FinalityAdvances
<1>1. ChainInv /\ [ChainNext]_chainVars =>
        [ /\ last_final_block_num(core) <= last_final_block_num(core')
          /\ last_final_block_num(core) # last_final_block_num(core') =>
               latest_qc_claim(core').is_strong_qc ]_chainVars
  BY StepAdvances
<1> QED BY <1>1, ChainInvariance, PTL DEF ChainSpec, FinalityAdvances

-------------------------------------------------------------------------------
(* The tree of blocks.                                                       *)

Br(x) == tree[x].branch

\* Every block's core is tied to its branch, and the branches of the tree agree:
\* the block at any position is a block of the tree, with the same past.
SamePast(x, n) ==
  /\ At(Br(x), n).id \in Ids
  /\ \A m \in G..n : At(Br(At(Br(x), n).id), m) = At(Br(x), m)

BlockInv(x) ==
  /\ x \in Id
  /\ \E f, g, t : IInv(tree[x].core, Br(x), f, g, x.num, t)
  /\ At(Br(x), x.num).id = x
  /\ At(Br(x), G).id = Genesis
  /\ At(Br(x), x.num).timestamp <= MaxTime
  /\ \A n \in G..x.num : SamePast(x, n)
  /\ \A n \in G..x.num : At(Br(x), n).claim.block_num <= At(Br(x), x.num).claim.block_num

TreeInv ==
  /\ Genesis \in Ids
  /\ \A x \in Ids : BlockInv(x)

\* What a block of the tree says of itself, in terms of its branch.
BlockReads(x) ==
  /\ x.num \in Nat /\ G \in Nat /\ G <= x.num
  /\ HistoryView(Br(x), x.num)
  /\ \A n \in G..x.num : At(Br(x), n) \in Block
  /\ TimeOf(x) = At(Br(x), x.num).timestamp
  /\ latest_qc_claim(tree[x].core).block_num = At(Br(x), x.num).claim.block_num
  /\ latest_qc_claim(tree[x].core).is_strong_qc = At(Br(x), x.num).claim.is_strong_qc
  /\ At(Br(x), x.num).claim.block_num \in G..x.num

\* What the core of a block in the fork database says of its branch.
LEMMA ReadBlock ==
  ASSUME TreeInv, NEW x \in Ids
  PROVE  BlockReads(x)
<1>1. BlockInv(x)
  BY DEF TreeInv
<1>2. PICK f, g, t : IInv(tree[x].core, Br(x), f, g, x.num, t)
  BY <1>1 DEF BlockInv
<1>3. HistoryView(Br(x), x.num) /\ CoreReads(tree[x].core, Br(x), g, x.num, t)
  BY <1>2, TiedReads DEF IInv
<1>4. Tip(Br(x)) = At(Br(x), x.num)
  BY <1>3, TipAt
<1>5. x.num \in Nat /\ G \in Nat /\ G <= x.num
  BY <1>3, GenesisAssumption DEF HistoryView, G
<1>6. ASSUME NEW n \in G..x.num PROVE At(Br(x), n) \in Block
  <2>1. Br(x) \in Seq(Block) /\ Len(Br(x)) = (x.num + 1) - G
    BY <1>3 DEF HistoryView
  <2>2. n - G + 1 \in 1..Len(Br(x))
    BY <1>5, <2>1
  <2>3. Br(x)[n - G + 1] \in Block
    BY <2>1, <2>2, ElementOfSeq
  <2> QED BY <2>3 DEF At, G
<1>7. x.num \in G..x.num
  BY <1>5
<1>8. At(Br(x), x.num).claim.block_num \in G..x.num
  BY <1>3, <1>7 DEF HistoryView
<1>9. TimeOf(x) = At(Br(x), x.num).timestamp
  BY <1>4 DEF TimeOf, Br
<1>10. /\ latest_qc_claim(tree[x].core).block_num = At(Br(x), x.num).claim.block_num
       /\ latest_qc_claim(tree[x].core).is_strong_qc = At(Br(x), x.num).claim.is_strong_qc
  BY <1>3 DEF CoreReads
<1> QED BY <1>3, <1>5, <1>6, <1>8, <1>9, <1>10 DEF BlockReads

\* An ancestor's branch is a prefix of the descendant's.
LEMMA PastOfAncestor ==
  ASSUME TreeInv, NEW x \in Ids, NEW y \in Ids, Ancestor(x, y)
  PROVE  /\ x.num \in G..y.num
         /\ \A m \in G..x.num : At(Br(x), m) = At(Br(y), m)
<1>1. BlockReads(x) /\ BlockReads(y)
  BY ReadBlock
<1>2. x.num \in G..y.num /\ At(Br(y), x.num).id = x
  BY <1>1 DEF Ancestor, BlockReads, Br
<1>3. SamePast(y, x.num)
  BY <1>2 DEF TreeInv, BlockInv
<1> QED BY <1>2, <1>3 DEF SamePast

\* The block of number n of a branch is an ancestor of the branch's last block.
LEMMA AtIsAncestor ==
  ASSUME TreeInv, NEW y \in Ids, NEW n \in G..y.num, NEW x, x = At(Br(y), n).id
  PROVE  x \in Ids /\ Ancestor(x, y) /\ x.num = n
<1>1. BlockReads(y)
  BY ReadBlock
<1>2. x \in Ids
  BY DEF TreeInv, BlockInv, SamePast
<1>3. x.num = n
  BY <1>1 DEF BlockReads, HistoryView
<1> QED BY <1>1, <1>2, <1>3 DEF Ancestor, BlockReads, Br

\* A block is on its own branch, and Genesis is on every branch.
LEMMA AncestorReflexive ==
  ASSUME TreeInv, NEW x \in Ids
  PROVE  Ancestor(x, x) /\ Ancestor(Genesis, x)
<1>1. BlockReads(x) /\ BlockInv(x)
  BY ReadBlock DEF TreeInv
<1>2. Genesis.num = G
  BY DEF Genesis, GenesisId, G
<1> QED BY <1>1, <1>2 DEF Ancestor, BlockReads, BlockInv, Br

\* Ancestry through header.previous is transitive.
LEMMA AncestorTransitive ==
  ASSUME TreeInv, NEW x \in Ids, NEW y \in Ids, NEW z \in Ids, Ancestor(x, y), Ancestor(y, z)
  PROVE  Ancestor(x, z)
<1>1. /\ x.num \in G..y.num /\ y.num \in G..z.num
      /\ \A m \in G..y.num : At(Br(y), m) = At(Br(z), m)
  BY PastOfAncestor
<1>2. BlockReads(x) /\ BlockReads(y) /\ BlockReads(z)
  BY ReadBlock
<1>3. At(Br(y), x.num).id = x
  BY DEF Ancestor, Br
<1>4. x.num <= z.num
  BY <1>1, <1>2 DEF BlockReads
<1> QED BY <1>1, <1>3, <1>4 DEF Ancestor, Br

\* The ancestors of a block are on one branch.
LEMMA AncestorLinear ==
  ASSUME TreeInv, NEW x \in Ids, NEW y \in Ids, NEW z \in Ids, Ancestor(x, z), Ancestor(y, z)
  PROVE  Ancestor(x, y) \/ Ancestor(y, x)
<1> SUFFICES ASSUME NEW u \in Ids, NEW v \in Ids, Ancestor(u, z), Ancestor(v, z), u.num <= v.num
             PROVE  Ancestor(u, v)
  <2>1. BlockReads(x) /\ BlockReads(y)
    BY ReadBlock
  <2> QED BY <2>1 DEF BlockReads
<1>1. /\ u.num \in G..z.num /\ v.num \in G..z.num
      /\ \A m \in G..v.num : At(Br(v), m) = At(Br(z), m)
  BY PastOfAncestor
<1>2. BlockReads(u) /\ BlockReads(v)
  BY ReadBlock
<1>3. u.num \in G..v.num
  BY <1>2 DEF BlockReads
<1>4. At(Br(v), u.num) = At(Br(z), u.num) /\ At(Br(z), u.num).id = u
  BY <1>1, <1>3 DEF Ancestor, Br
<1> QED BY <1>4 DEF Ancestor, Br

\* Timestamps grow along a branch (get_active_proposer_policy_for_block_at).
LEMMA AncestorIsOlder ==
  ASSUME TreeInv, NEW x \in Ids, NEW y \in Ids, Ancestor(x, y)
  PROVE  /\ TimeOf(x) \in 0..MaxTime
         /\ x = y \/ TimeOf(x) < TimeOf(y)
<1>1. BlockReads(x) /\ BlockReads(y) /\ BlockInv(x) /\ BlockInv(y)
  BY ReadBlock DEF TreeInv
<1>2. x.num \in G..y.num /\ x.num \in G..x.num /\ y.num \in G..y.num
  BY <1>1, PastOfAncestor DEF BlockReads
<1>3. At(Br(x), x.num) = At(Br(y), x.num)
  BY <1>2, PastOfAncestor
<1>4. TimeOf(x) \in 0..MaxTime
  BY <1>1, <1>2, TimeAssumption DEF BlockReads, BlockInv, Block
<1>5. CASE x.num = y.num
  BY <1>1, <1>3, <1>4, <1>5 DEF BlockInv
<1>6. CASE x.num < y.num
  BY <1>1, <1>2, <1>3, <1>4, <1>6 DEF BlockReads, HistoryView
<1> QED BY <1>1, <1>2, <1>5, <1>6 DEF BlockReads

\* A block claims a QC on a proper ancestor, genesis apart.
LEMMA ClaimedIsAncestor ==
  ASSUME TreeInv, NEW x \in Ids
  PROVE  /\ Claimed(x) \in Ids /\ Ancestor(Claimed(x), x)
         /\ Claimed(x).num = At(Br(x), x.num).claim.block_num
         /\ Claimed(x) = At(Br(x), Claimed(x).num).id
         /\ x # Genesis => Claimed(x) # x
<1>1. BlockReads(x) /\ BlockInv(x)
  BY ReadBlock DEF TreeInv
<1>2. Claimed(x) = At(Br(x), At(Br(x), x.num).claim.block_num).id
  BY <1>1 DEF BlockReads, Claimed, Br
<1>3. /\ Claimed(x) \in Ids /\ Ancestor(Claimed(x), x)
      /\ Claimed(x).num = At(Br(x), x.num).claim.block_num
  BY <1>1, <1>2, AtIsAncestor DEF BlockReads
<1>4. x # Genesis => x.num # G
  BY <1>1 DEF BlockInv
<1>5. x.num = G \/ At(Br(x), x.num).claim.block_num # x.num
  BY <1>1 DEF BlockReads, HistoryView
<1> QED BY <1>2, <1>3, <1>4, <1>5

\* The claims of a branch never go back.
LEMMA ClaimsAdvance ==
  ASSUME TreeInv, NEW x \in Ids, NEW y \in Ids, Ancestor(x, y)
  PROVE  TimeOf(Claimed(x)) <= TimeOf(Claimed(y))
<1> DEFINE cx == Claimed(x)
           cy == Claimed(y)
<1>1. BlockReads(x) /\ BlockReads(y) /\ BlockInv(y)
  BY ReadBlock DEF TreeInv
<1>2. x.num \in G..y.num /\ At(Br(x), x.num) = At(Br(y), x.num)
  BY <1>1, PastOfAncestor DEF BlockReads
<1>3. cx \in Ids /\ cy \in Ids /\ Ancestor(cx, x) /\ Ancestor(cy, y) /\ cx.num <= cy.num
  BY <1>1, <1>2, ClaimedIsAncestor DEF BlockInv
<1> HIDE DEF cx, cy
<1>4. Ancestor(cx, y)
  BY <1>3, AncestorTransitive
<1>5. Ancestor(cx, cy)
  <2>1. \/ Ancestor(cx, cy)
        \/ Ancestor(cy, cx)
    BY <1>3, <1>4, AncestorLinear
  <2>2. ASSUME Ancestor(cy, cx) PROVE cx = cy
    <3>1. cy.num \in G..cx.num /\ BlockReads(cx) /\ BlockReads(cy)
      BY <1>3, <2>2, PastOfAncestor, ReadBlock
    <3>2. cy.num = cx.num
      BY <1>3, <3>1 DEF BlockReads
    <3>3. At(Br(y), cx.num).id = cx /\ At(Br(y), cy.num).id = cy
      BY <1>3, <1>4 DEF Ancestor, Br
    <3> QED BY <3>2, <3>3
  <2> QED BY <1>3, <2>1, <2>2, AncestorReflexive
<1>6. TimeOf(cx) \in 0..MaxTime /\ TimeOf(cy) \in 0..MaxTime /\ (cx = cy \/ TimeOf(cx) < TimeOf(cy))
  BY <1>3, <1>5, AncestorIsOlder
<1>7. TimeOf(cx) <= TimeOf(cy)
  BY <1>6, TimeAssumption
<1> QED BY <1>7 DEF cx, cy

\* What decide_vote reads from the core of a block.
VoteReads(x) ==
  /\ ClaimedTime(BlockOf(x)) = TimeOf(Claimed(x))
  /\ x # Genesis => ClaimedRef(BlockOf(x)) = BlockRef(Claimed(x), TimeOf(Claimed(x)))
  /\ \A y \in Ids : extends(tree[x].core, y) => Ancestor(y, x) /\ y # x

\* What decide_vote reads from the core of a block: the block it claims, its time and
\* extends.
LEMMA ReadVote ==
  ASSUME TreeInv, NEW x \in Ids
  PROVE  VoteReads(x)
<1> DEFINE c == tree[x].core
           q == Claimed(x)
<1>1. BlockReads(x) /\ BlockInv(x)
  BY ReadBlock DEF TreeInv
<1>2. PICK f, g, t : IInv(c, Br(x), f, g, x.num, t)
  BY <1>1 DEF BlockInv
<1>3. /\ g \in Nat /\ t \in Nat /\ g <= t /\ G <= g /\ t <= x.num
  <2>1. View(c, f, g, x.num, t) /\ FrontView(Br(x), f, g, x.num)
    BY <1>2 DEF IInv
  <2> QED BY <1>1, <2>1 DEF View, FrontView, BlockReads
<1>4. CoreReads(c, Br(x), g, x.num, t)
  BY <1>2, TiedReads
<1>5. /\ q \in Ids /\ Ancestor(q, x) /\ q.num = t /\ q = At(Br(x), t).id
  BY <1>4, ClaimedIsAncestor DEF CoreReads
<1>6. TimeOf(q) = At(Br(x), t).timestamp
  <2>1. BlockReads(q)
    BY <1>5, ReadBlock
  <2>2. q.num \in G..q.num
    BY <2>1 DEF BlockReads
  <2>3. At(Br(q), q.num) = At(Br(x), q.num)
    BY <1>5, <2>2, PastOfAncestor
  <2> QED BY <1>5, <2>1, <2>3 DEF BlockReads
<1>7. ClaimedTime(BlockOf(x)) = TimeOf(q)
  BY <1>4, <1>6 DEF CoreReads, ClaimedTime, BlockOf
<1>8. ASSUME x # Genesis PROVE ClaimedRef(BlockOf(x)) = BlockRef(q, TimeOf(q))
  <2>1. t \in g..(x.num - 1)
    <3>1. x.num # G
      BY <1>1, <1>8 DEF BlockInv
    <3> QED BY <1>1, <1>3, <1>4, <3>1 DEF CoreReads, BlockReads
  <2>2. get_block_reference(c, t) = BlockRef(q, TimeOf(q))
    BY <1>4, <1>5, <1>6, <2>1 DEF CoreReads
  <2>3. latest_qc_claim(c).block_num = t
    BY <1>4 DEF CoreReads
  <2> QED BY <2>2, <2>3 DEF ClaimedRef, BlockOf
<1>9. ASSUME NEW y \in Ids, extends(c, y) PROVE Ancestor(y, x) /\ y # x
  <2>1. BlockReads(y)
    BY ReadBlock
  <2>2. y.num \in Nat
    BY <2>1 DEF BlockReads
  <2>3. g <= y.num /\ y.num < x.num /\ At(Br(x), y.num).id = y
    BY <1>2, <1>9, <2>2, TiedExtends
  <2> QED BY <1>1, <2>1, <2>3 DEF Ancestor, Br, BlockReads
<1> QED BY <1>7, <1>8, <1>9 DEF VoteReads

-------------------------------------------------------------------------------
\* The fork database that starts with the genesis block satisfies the invariant of the
\* tree.
LEMMA InitTree == Init => TreeInv
<1> SUFFICES ASSUME Init PROVE TreeInv
  OBVIOUS
<1> DEFINE c == GenesisCore(GenesisHash)
           h == GenesisBranch(GenesisHash)
<1>1. Ids = {Genesis} /\ tree[Genesis].core = c /\ Br(Genesis) = h
  BY DEF Init, Ids, Br
<1>2. Genesis \in Id /\ Genesis.num = G /\ G \in Nat
  BY GenesisAssumption, GenesisHashAssumption DEF Genesis, GenesisId, Id, G
<1>3. IInv(c, h, G, G, G, G)
  BY GenesisTied, GenesisHashAssumption
<1>4. HistoryView(h, G)
  BY <1>3 DEF IInv
<1>5. At(h, G).id = Genesis
  BY <1>2 DEF At, G, GenesisBranch, Genesis
<1>6. At(h, G).timestamp <= MaxTime
  BY <1>4, TimeAssumption DEF HistoryView
<1>7. \A n \in G..G : n = G
  BY <1>2
<1>8. \A n \in G..G : SamePast(Genesis, n)
  BY <1>1, <1>5, <1>7 DEF SamePast
<1>9. \A n \in G..G : At(h, n).claim.block_num <= At(h, G).claim.block_num
  BY <1>2, <1>4, <1>7 DEF HistoryView
<1>10. \E f, g, t : IInv(tree[Genesis].core, Br(Genesis), f, g, Genesis.num, t)
  BY <1>1, <1>2, <1>3
<1> HIDE DEF c, h
<1>11. BlockInv(Genesis)
  BY <1>1, <1>2, <1>5, <1>6, <1>8, <1>9, <1>10 DEF BlockInv
<1> QED BY <1>1, <1>11 DEF TreeInv

\* A step that keeps every block as it is.
Kept == Ids \subseteq Ids' /\ \A x \in Ids : tree'[x] = tree[x]

\* Blocks that stay in the fork database keep their branch and core.
LEMMA KeptBlocks ==
  ASSUME Kept, NEW x \in Ids
  PROVE  /\ x \in Ids' /\ TimeOf(x)' = TimeOf(x) /\ Claimed(x)' = Claimed(x) /\ LastFinal(x)' = LastFinal(x)
         /\ Br(x)' = Br(x) /\ tree'[x] = tree[x]
         /\ \A y : Ancestor(y, x)' <=> Ancestor(y, x)
  BY DEF Kept, TimeOf, Claimed, LastFinal, Ancestor, Br

\* Blocks that stay keep their invariant.
LEMMA KeptInv ==
  ASSUME TreeInv, Kept, NEW x \in Ids
  PROVE  BlockInv(x)'
<1>1. BlockInv(x) /\ x \in Ids' /\ tree'[x] = tree[x] /\ Br(x)' = Br(x)
  BY KeptBlocks DEF TreeInv
<1>2. ASSUME NEW n \in G..x.num PROVE SamePast(x, n)'
  <2> DEFINE y == At(Br(x), n).id
  <2>1. y \in Ids /\ \A m \in G..n : At(Br(y), m) = At(Br(x), m)
    BY <1>1 DEF BlockInv, SamePast
  <2>2. y \in Ids' /\ Br(y)' = Br(y)
    BY <2>1, KeptBlocks
  <2> QED BY <1>1, <2>1, <2>2 DEF SamePast
<1> QED BY <1>1, <1>2 DEF BlockInv

\* create_block_state_i changes no block that is there.
LEMMA ProposeKeeps ==
  ASSUME NEW p \in Ids, NEW claim, Propose(p, claim)
  PROVE  Kept
  BY DEF Propose, Kept, Ids

\* The block that a proposal adds claims a QC on the ancestor it names.
Added(p, claim) ==
  \E id : /\ Ids' = Ids \cup {id}
          /\ Claimed(id)' = At(Br(p), claim.block_num).id
          /\ latest_qc_claim(tree'[id].core).is_strong_qc = claim.is_strong_qc

\* create_block_state_i adds one block with the branch and core of a child.
LEMMA ProposeTree ==
  ASSUME TreeInv, NEW p \in Ids, NEW claim \in Claim, Propose(p, claim)
  PROVE  TreeInv' /\ Kept /\ Added(p, claim)
<1>1. PICK hash \in Hash, ts \in 0..MaxTime :
        LET id == [num |-> p.num + 1, hash |-> hash]
        IN /\ id \notin Ids
           /\ TimeOf(p) < ts
           /\ tree' = [i \in Ids \cup {id} |->
                         IF i = id THEN [core   |-> ChildCore(tree[p].core, tree[p].branch, claim),
                                         branch |-> Extend(tree[p].branch, hash, ts, claim)]
                         ELSE tree[i]]
  BY DEF Propose
<1> DEFINE id  == [num |-> p.num + 1, hash |-> hash]
           h   == Br(p)
           c   == tree[p].core
           k   == p.num
           new == [id |-> id, timestamp |-> ts, claim |-> claim]
           cc  == ChildCore(c, h, claim)
           hh  == Extend(h, hash, ts, claim)
<1>2. Kept
  BY ProposeKeeps
<1>3. Ids' = Ids \cup {id} /\ tree'[id].core = cc /\ Br(id)' = hh /\ id \notin Ids
  BY <1>1 DEF Ids, Br
<1>4. BlockReads(p) /\ BlockInv(p)
  BY ReadBlock DEF TreeInv
<1>5. k \in Nat /\ G \in Nat /\ G <= k /\ k \in G..k
  BY <1>4 DEF BlockReads
<1>6. PICK f, g, t : IInv(c, h, f, g, k, t)
  BY <1>4 DEF BlockInv
<1>7. ts \in Nat /\ ts <= MaxTime /\ At(h, k).timestamp < ts
  BY <1>1, <1>4, TimeAssumption DEF BlockReads
<1>8. t = At(h, k).claim.block_num /\ t \in Nat /\ claim.block_num \in Nat
      /\ t <= claim.block_num /\ claim.block_num <= k
  <2>1. CoreReads(c, h, g, k, t)
    BY <1>6, TiedReads
  <2>2. latest_qc_claim(c).block_num = t /\ t = At(h, k).claim.block_num
    BY <2>1 DEF CoreReads
  <2>3. At(h, k).claim.block_num \in G..k
    BY <1>4 DEF BlockReads
  <2>4. claim.block_num >= latest_qc_claim(c).block_num /\ claim.block_num <= k
    BY DEF Propose, ClaimVerified, ClaimAccepted
  <2> QED BY <1>5, <2>2, <2>3, <2>4 DEF Claim
<1> HIDE DEF h, c, k, cc, hh, id, new
<1>9. ChildView(cc, hh, c, h, k, claim, new)
  <2>1. new = [id |-> [num |-> k + 1, hash |-> hash], timestamp |-> ts, claim |-> claim]
    BY DEF new, id, k
  <2>2. cc = ChildCore(c, h, claim) /\ hh = Extend(h, hash, ts, claim)
    BY DEF cc, hh
  <2> QED BY <1>6, <1>7, <1>8, <2>1, <2>2, ChildTied
<1>10. /\ \E ff, gg, tt : IInv(cc, hh, ff, gg, k + 1, tt)
       /\ \A n \in G..k : At(hh, n) = At(h, n)
       /\ At(hh, k + 1) = new
  BY <1>9 DEF ChildView, Extended
<1>11. id \in Id /\ id.num = k + 1 /\ new.id = id /\ new.timestamp = ts /\ new.claim = claim
  BY <1>5 DEF id, new, k, Id
<1>12. At(hh, G).id = Genesis
  <2>1. G \in G..k
    BY <1>5
  <2>2. At(h, G).id = Genesis
    BY <1>4 DEF BlockInv, h
  <2> QED BY <1>10, <2>1, <2>2
<1>13. \A n \in G..(k + 1) : n = k + 1 \/ n \in G..k
  BY <1>5
<1>14. ASSUME NEW n \in G..(k + 1) PROVE SamePast(id, n)'
  <2>1. CASE n = k + 1
    BY <1>3, <1>10, <1>11, <2>1 DEF SamePast
  <2>2. CASE n \in G..k
    <3>0. PICK y : y = At(h, n).id
      OBVIOUS
    <3>1. y \in Ids /\ \A m \in G..n : At(Br(y), m) = At(h, m)
      BY <1>4, <2>2, <3>0 DEF BlockInv, SamePast, h, k
    <3>2. y \in Ids' /\ Br(y)' = Br(y)
      BY <1>2, <3>1, KeptBlocks
    <3>3. \A m \in G..n : m \in G..k
      BY <1>5, <2>2
    <3>4. At(hh, n).id = y /\ \A m \in G..n : At(hh, m) = At(h, m)
      BY <1>10, <2>2, <3>0, <3>3
    <3> QED BY <1>3, <3>1, <3>2, <3>4 DEF SamePast
  <2> QED BY <1>13, <2>1, <2>2
<1>15. ASSUME NEW n \in G..(k + 1) PROVE At(hh, n).claim.block_num <= claim.block_num
  <2>1. CASE n = k + 1
    BY <1>8, <1>10, <1>11, <2>1
  <2>2. CASE n \in G..k
    <3>1. At(hh, n) = At(h, n) /\ At(h, n).claim.block_num <= t
      BY <1>4, <1>8, <1>10, <2>2 DEF BlockInv, h, k
    <3>2. At(h, n).claim.block_num \in Nat
      BY <1>4, <2>2 DEF BlockReads, Block, Claim, h, k
    <3> QED BY <1>8, <3>1, <3>2
  <2> QED BY <1>13, <2>1, <2>2
<1>16. BlockInv(id)'
  BY <1>3, <1>7, <1>10, <1>11, <1>12, <1>14, <1>15 DEF BlockInv
<1>17. \A x \in Ids : BlockInv(x)'
  BY <1>2, KeptInv
<1>18. Added(p, claim)
  <2>1. PICK ff, gg, tt : IInv(cc, hh, ff, gg, k + 1, tt)
    BY <1>10
  <2>2. CoreReads(cc, hh, gg, k + 1, tt)
    BY <2>1, TiedReads
  <2>3. latest_qc_claim(cc).block_num = claim.block_num /\ latest_qc_claim(cc).is_strong_qc = claim.is_strong_qc
    BY <1>10, <1>11, <2>2 DEF CoreReads
  <2>4. claim.block_num \in G..k
    <3>1. t \in G..k
      BY <1>4, <1>8 DEF BlockReads, h, k
    <3> QED BY <1>5, <1>8, <3>1
  <2>5. At(hh, claim.block_num) = At(h, claim.block_num)
    BY <1>10, <2>4
  <2>6. Claimed(id)' = At(h, claim.block_num).id
    BY <1>3, <2>3, <2>5 DEF Claimed, Br
  <2> QED BY <1>3, <2>3, <2>6 DEF Added, h
<1> QED BY <1>2, <1>3, <1>16, <1>17, <1>18 DEF TreeInv

-------------------------------------------------------------------------------
(* The inductive invariant.                                                  *)

Refs == {BlockRef(x, TimeOf(x)) : x \in Ids}

TypeInv ==
  /\ fsi \in [Honest -> [last_vote : Refs \cup {EmptyRef}, lock : Refs, other_branch_latest_time : 0..MaxTime]]
  /\ votes \in [Honest -> SUBSET [id : Ids \ {Genesis}, strong : BOOLEAN]]

\* last_vote is the latest vote, and no slot has two.
LastVoteInv(f) ==
  /\ \A e \in Ids : VotedFor(f, e) => /\ fsi[f].last_vote # EmptyRef
                                      /\ e = fsi[f].last_vote.block_id \/ TimeOf(e) < fsi[f].last_vote.timestamp
  /\ \A d, e \in Ids : VotedFor(f, d) /\ VotedFor(f, e) /\ TimeOf(d) = TimeOf(e) => d = e

\* The lock has a QC and is at least as late as what strong votes claimed.
LockInv(f) ==
  /\ fsi[f].lock.block_id \in Certified
  /\ \A d \in Ids : VotedStrong(f, d) => TimeOf(Claimed(d)) <= fsi[f].lock.timestamp

\* Votes since other_branch_latest_time and since the block that the last vote
\* claims were on the branch of the last vote.
BranchInv(f) ==
  \A e \in Ids :
    /\ VotedFor(f, e)
    /\ fsi[f].other_branch_latest_time < TimeOf(e)
    /\ TimeOf(Claimed(fsi[f].last_vote.block_id)) < TimeOf(e)
    => Ancestor(e, fsi[f].last_vote.block_id)

CoversInv(f) ==
  \A d, e \in Ids :
    VotedStrong(f, d) /\ VotedFor(f, e) /\ TimeOf(Claimed(d)) < TimeOf(e) /\ TimeOf(e) <= TimeOf(d)
      => Ancestor(e, d)

\* A vote after a strong vote was justified by a later QC, or by a block with a
\* QC as late as the one that the strong vote locked.
Justified(c, d) ==
  \/ TimeOf(Claimed(d)) < TimeOf(Claimed(c))
  \/ \E l \in Certified : l # c /\ Ancestor(l, c) /\ TimeOf(Claimed(d)) <= TimeOf(l)

JustifiedInv(f) ==
  \A d, c \in Ids : VotedStrong(f, d) /\ VotedFor(f, c) /\ TimeOf(d) < TimeOf(c) => Justified(c, d)

VoterInv(f) == LastVoteInv(f) /\ LockInv(f) /\ BranchInv(f) /\ CoversInv(f) /\ JustifiedInv(f)

\* Every claim is backed by a QC of its strength.
ClaimsInv ==
  \A x \in Ids : /\ Claimed(x) \in Certified
                 /\ latest_qc_claim(tree[x].core).is_strong_qc => HasStrongQc(Claimed(x))

Inv ==
  /\ TreeInv /\ TypeInv /\ ClaimsInv
  /\ \A f \in Honest : VoterInv(f)

-------------------------------------------------------------------------------
\* The timestamps of blocks are numbers up to the bound.
LEMMA TimeType ==
  ASSUME TreeInv, NEW x \in Ids
  PROVE  TimeOf(x) \in Nat /\ TimeOf(x) <= MaxTime /\ TimeOf(x) \in 0..MaxTime
  BY AncestorReflexive, AncestorIsOlder, TimeAssumption

\* The empty block_ref of safety information that was never set.
LEMMA EmptyRefFacts == empty(EmptyRef) /\ EmptyRef.timestamp = 0
  BY DEF EmptyRef, BlockRef, empty

\* The block_ref of a block names the block and its time, and is not empty.
LEMMA RefFacts ==
  ASSUME TreeInv, NEW r \in Refs
  PROVE  /\ r.block_id \in Ids /\ r.timestamp = TimeOf(r.block_id)
         /\ r.timestamp \in Nat /\ r.timestamp <= MaxTime
         /\ ~ empty(r) /\ r # EmptyRef
<1>1. PICK x \in Ids : r = BlockRef(x, TimeOf(x))
  BY DEF Refs
<1>2. r.block_id = x /\ r.timestamp = TimeOf(x)
  BY <1>1 DEF BlockRef
<1>3. x.num # 0
  BY ReadBlock, GenesisAssumption DEF BlockReads, G
<1> QED BY <1>2, <1>3, TimeType, EmptyRefFacts DEF empty

\* The safety information that set_default_safety_information gives satisfies the
\* invariant.
LEMMA InitInv == Init => Inv
<1> SUFFICES ASSUME Init PROVE Inv
  OBVIOUS
<1>1. TreeInv
  BY InitTree
<1>2. Ids = {Genesis} /\ TimeOf(Genesis) = GenesisTime
  <2>1. Ids = {Genesis} /\ Br(Genesis) = GenesisBranch(GenesisHash)
    BY DEF Init, Ids, Br
  <2>2. Genesis.num = G
    BY DEF Genesis, GenesisId, G
  <2>3. BlockReads(Genesis)
    BY <1>1, <2>1, ReadBlock
  <2> QED BY <2>1, <2>2, <2>3 DEF BlockReads, HistoryView
<1>3. GenesisRef \in Refs
  BY <1>2 DEF Refs, GenesisRef
<1>4. TypeInv
  <2>1. 0 \in 0..MaxTime
    BY TimeAssumption
  <2> QED BY <1>3, <2>1 DEF Init, TypeInv
<1>5. \A f \in Honest : ~ \E e : VotedFor(f, e)
  BY DEF Init, VotedFor
<1>6. \A f \in Honest : ~ \E e : VotedStrong(f, e)
  BY DEF Init, VotedStrong
<1>7. ClaimsInv
  <2>1. Claimed(Genesis) = Genesis
    BY <1>1, <1>2, ClaimedIsAncestor
  <2>2. tree[Genesis].core = GenesisCore(GenesisHash)
    BY DEF Init
  <2>3. ~ latest_qc_claim(tree[Genesis].core).is_strong_qc
    BY <2>2 DEF latest_qc_claim, BackLink, GenesisCore, create_core_for_genesis_block, QcLink, QcClaim
  <2> QED BY <1>2, <2>1, <2>3 DEF ClaimsInv, Certified
<1>8. \A f \in Honest : fsi[f].lock = GenesisRef
  BY DEF Init
<1>9. \A f \in Honest : VoterInv(f)
  <2> TAKE f \in Honest
  <2>1. LockInv(f)
    BY <1>6, <1>8 DEF LockInv, Certified, GenesisRef, BlockRef
  <2> QED BY <1>5, <1>6, <2>1 DEF VoterInv, LastVoteInv, BranchInv, CoversInv, JustifiedInv
<1> QED BY <1>1, <1>4, <1>7, <1>9 DEF Inv

-------------------------------------------------------------------------------
\* Votes are for blocks of the tree.
LEMMA VotedIsBlock ==
  ASSUME TypeInv, NEW f \in Honest, NEW e
  PROVE  /\ VotedFor(f, e) => e \in Ids /\ e # Genesis
         /\ VotedStrong(f, e) => VotedFor(f, e)
<1>1. votes[f] \in SUBSET [id : Ids \ {Genesis}, strong : BOOLEAN]
  BY DEF TypeInv
<1>2. ASSUME NEW s \in BOOLEAN, [id |-> e, strong |-> s] \in votes[f] PROVE e \in Ids /\ e # Genesis
  <2>1. [id |-> e, strong |-> s] \in [id : Ids \ {Genesis}, strong : BOOLEAN]
    BY <1>1, <1>2
  <2>2. [id |-> e, strong |-> s].id \in Ids \ {Genesis}
    BY <2>1
  <2> QED BY <2>2
<1> QED BY <1>2 DEF VotedFor, VotedStrong

\* A quorum contains an honest finalizer: QCs are on blocks of the tree.
LEMMA CertifiedIsBlock ==
  ASSUME TreeInv, TypeInv, NEW x \in Certified
  PROVE  x \in Ids
  BY DEF Certified, TreeInv

\* A proposal leaves votes and what they are about as they are.
LEMMA ProposeVoter ==
  ASSUME Inv, TreeInv', Kept, UNCHANGED <<fsi, votes>>, NEW f \in Honest
  PROVE  VoterInv(f)'
<1>1. TreeInv /\ TypeInv /\ VoterInv(f)
  BY DEF Inv
<1>2. \A e : /\ VotedFor(f, e)' <=> VotedFor(f, e)
             /\ VotedStrong(f, e)' <=> VotedStrong(f, e)
  BY DEF VotedFor, VotedStrong
<1>3. \A e : (VotedFor(f, e) => e \in Ids /\ e # Genesis) /\ (VotedStrong(f, e) => VotedFor(f, e))
  BY <1>1, VotedIsBlock
<1>4. \A x \in Ids : /\ TimeOf(x)' = TimeOf(x) /\ Claimed(x)' = Claimed(x)
                     /\ \A y : Ancestor(y, x)' <=> Ancestor(y, x)
  BY KeptBlocks
<1>5. \A x \in Ids : Claimed(x) \in Ids
  BY <1>1, ClaimedIsAncestor
<1>6. Certified \subseteq Certified' /\ Certified \subseteq Ids
  BY <1>1, CertifiedIsBlock DEF Kept, Certified, HasQc, VotedFor
<1>7. fsi[f].lock \in Refs /\ fsi'[f] = fsi[f] /\ fsi[f].last_vote \in Refs \cup {EmptyRef}
  BY <1>1 DEF TypeInv
<1>8. LastVoteInv(f)'
  BY <1>1, <1>2, <1>3, <1>4, <1>7 DEF VoterInv, LastVoteInv
<1>9. LockInv(f)'
  <2>1. \A x \in Ids : TimeOf(Claimed(x))' = TimeOf(Claimed(x))
    BY <1>4, <1>5
  <2> QED BY <1>1, <1>2, <1>3, <1>6, <1>7, <2>1 DEF VoterInv, LockInv
<1>10. BranchInv(f)'
  <2> SUFFICES ASSUME NEW e \in Ids', VotedFor(f, e)',
                      (fsi[f].other_branch_latest_time)' < TimeOf(e)',
                      TimeOf(Claimed(fsi[f].last_vote.block_id))' < TimeOf(e)'
               PROVE  Ancestor(e, fsi[f].last_vote.block_id)'
    BY DEF BranchInv
  <2>1. PICK l : l = fsi[f].last_vote.block_id
    OBVIOUS
  <2>2. e \in Ids /\ VotedFor(f, e)
    BY <1>2, <1>3
  <2>3. l \in Ids
    <3>1. fsi[f].last_vote # EmptyRef
      BY <1>1, <2>2 DEF VoterInv, LastVoteInv
    <3> QED BY <1>1, <1>7, <2>1, <3>1, RefFacts
  <2>4. TimeOf(Claimed(l)) < TimeOf(e) /\ fsi[f].other_branch_latest_time < TimeOf(e)
    BY <1>4, <1>5, <1>7, <2>1, <2>2, <2>3
  <2>5. Ancestor(e, l)
    BY <1>1, <2>1, <2>2, <2>4 DEF VoterInv, BranchInv
  <2> QED BY <1>4, <1>7, <2>1, <2>3, <2>5
<1>11. CoversInv(f)'
  <2>1. \A x \in Ids : TimeOf(Claimed(x))' = TimeOf(Claimed(x))
    BY <1>4, <1>5
  <2> QED BY <1>1, <1>2, <1>3, <1>4, <2>1 DEF VoterInv, CoversInv
<1>12. JustifiedInv(f)'
  <2> SUFFICES ASSUME NEW d \in Ids, NEW c \in Ids, Justified(c, d)
               PROVE  Justified(c, d)'
    BY <1>1, <1>2, <1>3, <1>4 DEF VoterInv, JustifiedInv
  <2>1. TimeOf(Claimed(d))' = TimeOf(Claimed(d)) /\ TimeOf(Claimed(c))' = TimeOf(Claimed(c))
    BY <1>4, <1>5
  <2>2. \A l \in Certified : l \in Certified' /\ TimeOf(l)' = TimeOf(l) /\ (Ancestor(l, c)' <=> Ancestor(l, c))
    BY <1>4, <1>6
  <2> QED BY <2>1, <2>2 DEF Justified
<1> QED BY <1>8, <1>9, <1>10, <1>11, <1>12 DEF VoterInv

\* The claim of a new block has a QC: its parent's, or the one verified.
LEMMA ProposeClaims ==
  ASSUME Inv, TreeInv', Kept, NEW p \in Ids, NEW claim \in Claim, Propose(p, claim)
  PROVE  ClaimsInv'
<1>1. TreeInv /\ TypeInv /\ ClaimsInv
  BY DEF Inv
<1>2. Certified \subseteq Certified' /\ Certified \subseteq Ids /\ (\A x : HasStrongQc(x)' <=> HasStrongQc(x))
  BY <1>1, CertifiedIsBlock DEF Kept, Certified, HasQc, HasStrongQc, VotedFor, VotedStrong, Propose
<1>3. PICK id : /\ Ids' = Ids \cup {id}
                /\ Claimed(id)' = At(Br(p), claim.block_num).id
                /\ latest_qc_claim(tree'[id].core).is_strong_qc = claim.is_strong_qc
  BY <1>1, ProposeTree DEF Added
<1>4. /\ At(Br(p), claim.block_num).id \in Certified
      /\ claim.is_strong_qc => HasStrongQc(At(Br(p), claim.block_num).id)
  <2>1. CASE claim = latest_qc_claim(tree[p].core)
    BY <1>1, <2>1 DEF ClaimsInv, Claimed, Br
  <2>2. CASE claim # latest_qc_claim(tree[p].core)
    <3>1. At(Br(p), claim.block_num).id \in Ids
      <4>1. BlockReads(p)
        BY <1>1, ReadBlock
      <4>2. claim.block_num \in G..p.num
        BY <4>1 DEF Propose, ClaimVerified, ClaimAccepted, BlockReads, Claim
      <4> QED BY <1>1, <4>2, AtIsAncestor
    <3>2. IF claim.is_strong_qc THEN HasStrongQc(At(Br(p), claim.block_num).id)
                                ELSE HasQc(At(Br(p), claim.block_num).id)
      BY <2>2 DEF Propose, ClaimVerified, Br
    <3>3. \A x : HasStrongQc(x) => HasQc(x)
      BY <1>1, VotedIsBlock DEF HasStrongQc, HasQc
    <3> QED BY <3>1, <3>2, <3>3 DEF Certified, Claim
  <2> QED BY <2>1, <2>2
<1>5. \A x \in Ids : Claimed(x)' = Claimed(x) /\ tree'[x] = tree[x]
  BY KeptBlocks
<1> QED BY <1>1, <1>2, <1>3, <1>4, <1>5 DEF ClaimsInv

\* A block that is added (create_block_state_i) keeps the invariant.
LEMMA ProposeInv ==
  ASSUME Inv, NEW p \in Ids, NEW claim \in Claim, Propose(p, claim)
  PROVE  Inv'
<1>1. TreeInv' /\ Kept
  BY ProposeTree DEF Inv
<1>2. UNCHANGED <<fsi, votes>>
  BY DEF Propose
<1>3. TypeInv'
  <2>1. Refs \subseteq Refs'
    <3> SUFFICES ASSUME NEW x \in Ids PROVE BlockRef(x, TimeOf(x)) \in Refs'
      BY DEF Refs
    <3>1. x \in Ids' /\ TimeOf(x)' = TimeOf(x)
      BY <1>1, KeptBlocks
    <3> QED BY <3>1 DEF Refs
  <2>2. Ids \subseteq Ids' /\ TypeInv
    BY <1>1 DEF Kept, Inv
  <2>3. [id : Ids \ {Genesis}, strong : BOOLEAN] \subseteq [id : Ids' \ {Genesis}, strong : BOOLEAN]
    BY <2>2
  <2>4. votes' \in [Honest -> SUBSET [id : Ids' \ {Genesis}, strong : BOOLEAN]]
    BY <1>2, <2>2, <2>3 DEF TypeInv
  <2>5. fsi' \in [Honest -> [last_vote : Refs' \cup {EmptyRef}, lock : Refs', other_branch_latest_time : 0..MaxTime]]
    BY <1>2, <2>1, <2>2 DEF TypeInv
  <2> QED BY <2>4, <2>5 DEF TypeInv
<1>4. ClaimsInv'
  BY <1>1, ProposeClaims
<1>5. \A f \in Honest : VoterInv(f)'
  BY <1>1, <1>2, ProposeVoter
<1> QED BY <1>1, <1>3, <1>4, <1>5 DEF Inv

-------------------------------------------------------------------------------
(***************************************************************************)
(* A vote of finalizer f on block b.                                       *)
(***************************************************************************)
Strong(f, b) == VotesStrong(fsi[f], BlockOf(b))

\* What decide_vote checked, and what it stored, in terms of the tree.
Decided(f, b) ==
  /\ fsi[f].last_vote # EmptyRef => fsi[f].last_vote.timestamp < TimeOf(b)
  /\ \/ fsi[f].lock.timestamp < TimeOf(Claimed(b))
     \/ Ancestor(fsi[f].lock.block_id, b) /\ fsi[f].lock.block_id # b
  /\ fsi[f].last_vote # EmptyRef =>
       \/ fsi[f].last_vote.timestamp <= TimeOf(Claimed(b))
       \/ /\ Ancestor(fsi[f].last_vote.block_id, b)
          /\ fsi[f].other_branch_latest_time <= TimeOf(Claimed(b))
       \/ /\ ~ Strong(f, b) /\ Ancestor(fsi[f].last_vote.block_id, b)
          /\ fsi'[f].other_branch_latest_time = fsi[f].other_branch_latest_time
       \/ ~ Strong(f, b) /\ fsi'[f].other_branch_latest_time = fsi[f].last_vote.timestamp
  /\ fsi'[f].last_vote = BlockRef(b, TimeOf(b))
  /\ fsi'[f].lock = IF Strong(f, b) /\ fsi[f].lock.timestamp < TimeOf(Claimed(b))
                    THEN BlockRef(Claimed(b), TimeOf(Claimed(b))) ELSE fsi[f].lock
  /\ fsi'[f].other_branch_latest_time \in {0, fsi[f].other_branch_latest_time, fsi[f].last_vote.timestamp}

\* What decide_vote established when it votes, by its checks.
LEMMA VoteDecided ==
  ASSUME TreeInv, TypeInv, NEW f \in Honest, NEW b \in Ids, Vote(f, b)
  PROVE  Decided(f, b)
<1>1. VoteReads(b)
  BY ReadVote
<1>2. /\ b # Genesis
      /\ CanVote(fsi[f], BlockOf(b))
      /\ fsi' = [fsi EXCEPT ![f] = VotedFsi(fsi[f], BlockOf(b))]
  BY DEF Vote
<1>3. fsi[f].last_vote \in Refs \cup {EmptyRef} /\ fsi[f].lock \in Refs
  BY DEF TypeInv
<1>4. fsi'[f] = VotedFsi(fsi[f], BlockOf(b))
  BY <1>2 DEF TypeInv
<1>5. /\ BlockOf(b).timestamp = TimeOf(b) /\ BlockOf(b).id = b /\ BlockOf(b).core = tree[b].core
  BY DEF BlockOf
<1>6. /\ fsi[f].lock.block_id \in Ids /\ fsi[f].lock.timestamp \in Nat
      /\ fsi[f].last_vote # EmptyRef => /\ fsi[f].last_vote.block_id \in Ids
                                        /\ ~ empty(fsi[f].last_vote)
                                        /\ fsi[f].last_vote.timestamp \in Nat
  BY <1>3, RefFacts
<1>7. Claimed(b) \in Ids
  BY ClaimedIsAncestor
<1>8. TimeOf(Claimed(b)) \in Nat /\ TimeOf(b) \in Nat
  BY <1>7, TimeType
<1>9. ClaimedTime(BlockOf(b)) = TimeOf(Claimed(b)) /\ ClaimedRef(BlockOf(b)) = BlockRef(Claimed(b), TimeOf(Claimed(b)))
  BY <1>1, <1>2 DEF VoteReads
<1>10. \A y \in Ids : extends(BlockOf(b).core, y) => Ancestor(y, b) /\ y # b
  BY <1>1, <1>5 DEF VoteReads
<1>11. fsi[f].last_vote # EmptyRef => fsi[f].last_vote.timestamp < TimeOf(b)
  BY <1>2, <1>5, <1>6, <1>8 DEF CanVote, monotony_check
<1>12. \/ fsi[f].lock.timestamp < TimeOf(Claimed(b))
       \/ Ancestor(fsi[f].lock.block_id, b) /\ fsi[f].lock.block_id # b
  BY <1>2, <1>6, <1>8, <1>9, <1>10 DEF CanVote, liveness_check, safety_check
<1>13. /\ fsi'[f].last_vote = BlockRef(b, TimeOf(b))
       /\ fsi'[f].lock = NextLock(fsi[f], BlockOf(b))
       /\ fsi'[f].other_branch_latest_time = NextOtherBranch(fsi[f], BlockOf(b))
  BY <1>4, <1>5 DEF VotedFsi, BlockRefOf
<1>14. fsi'[f].lock = IF Strong(f, b) /\ fsi[f].lock.timestamp < TimeOf(Claimed(b))
                      THEN BlockRef(Claimed(b), TimeOf(Claimed(b))) ELSE fsi[f].lock
  BY <1>6, <1>8, <1>9, <1>13 DEF NextLock, Strong
<1>15. ASSUME fsi[f].last_vote # EmptyRef
       PROVE  \/ fsi[f].last_vote.timestamp <= TimeOf(Claimed(b))
              \/ /\ Ancestor(fsi[f].last_vote.block_id, b)
                 /\ fsi[f].other_branch_latest_time <= TimeOf(Claimed(b))
              \/ /\ ~ Strong(f, b) /\ Ancestor(fsi[f].last_vote.block_id, b)
                 /\ fsi'[f].other_branch_latest_time = fsi[f].other_branch_latest_time
              \/ ~ Strong(f, b) /\ fsi'[f].other_branch_latest_time = fsi[f].last_vote.timestamp
  <2>1. CASE Strong(f, b)
    BY <1>6, <1>9, <1>10, <1>15, <2>1 DEF Strong, VotesStrong
  <2>2. CASE ~ Strong(f, b)
    BY <1>6, <1>10, <1>13, <1>15, <2>2 DEF Strong, NextOtherBranch
  <2> QED BY <2>1, <2>2
<1>16. fsi'[f].other_branch_latest_time \in {0, fsi[f].other_branch_latest_time, fsi[f].last_vote.timestamp}
  BY <1>13 DEF NextOtherBranch
<1> QED BY <1>11, <1>12, <1>13, <1>14, <1>15, <1>16 DEF Decided

\* The votes after the step.
Cast(f, b) ==
  /\ tree' = tree /\ Ids' = Ids
  /\ \A e : /\ VotedFor(f, e)' <=> (VotedFor(f, e) \/ e = b)
            /\ VotedStrong(f, e)' <=> (VotedStrong(f, e) \/ (e = b /\ Strong(f, b)))
  /\ \A g \in Honest \ {f} : /\ fsi'[g] = fsi[g]
                             /\ votes'[g] = votes[g]
  /\ Certified \subseteq Certified'
  /\ \A x : HasStrongQc(x) => HasStrongQc(x)'

\* What a vote changes: the safety information of its finalizer, and the votes on the
\* block.
LEMMA VoteCast ==
  ASSUME TypeInv, NEW f \in Honest, NEW b \in Ids, Vote(f, b)
  PROVE  Cast(f, b)
<1>1. /\ b # Genesis /\ tree' = tree /\ Ids' = Ids
      /\ fsi' = [fsi EXCEPT ![f] = VotedFsi(fsi[f], BlockOf(b))]
      /\ votes' = [votes EXCEPT ![f] = @ \cup {[id |-> b, strong |-> Strong(f, b)]}]
  BY DEF Vote, Ids, Strong
<1>2. Strong(f, b) \in BOOLEAN
  BY DEF Strong, VotesStrong
<1>3. votes'[f] = votes[f] \cup {[id |-> b, strong |-> Strong(f, b)]}
  BY <1>1 DEF TypeInv
<1>4. \A g \in Honest \ {f} : fsi'[g] = fsi[g] /\ votes'[g] = votes[g]
  BY <1>1 DEF TypeInv
<1>5. \A e, s : [id |-> e, strong |-> s] \in votes'[f] <=>
                  ([id |-> e, strong |-> s] \in votes[f] \/ (e = b /\ s = Strong(f, b)))
  BY <1>3
<1>6. \A e : /\ VotedFor(f, e)' <=> (VotedFor(f, e) \/ e = b)
             /\ VotedStrong(f, e)' <=> (VotedStrong(f, e) \/ (e = b /\ Strong(f, b)))
  <2> TAKE e
  <2>1. VotedFor(f, e)' <=> (VotedFor(f, e) \/ e = b)
    BY <1>2, <1>5 DEF VotedFor
  <2>2. VotedStrong(f, e)' <=> (VotedStrong(f, e) \/ (e = b /\ TRUE = Strong(f, b)))
    BY <1>5 DEF VotedStrong
  <2>3. (TRUE = Strong(f, b)) <=> Strong(f, b)
    BY <1>2
  <2> QED BY <2>1, <2>2, <2>3
<1>7. \A g \in Honest : \A e : /\ VotedFor(g, e) => VotedFor(g, e)'
                               /\ VotedStrong(g, e) => VotedStrong(g, e)'
  BY <1>4, <1>6 DEF VotedFor, VotedStrong
<1>8. /\ \A x : HasStrongQc(x) => HasStrongQc(x)'
      /\ \A x : HasQc(x) => HasQc(x)'
  BY <1>7 DEF HasStrongQc, HasQc
<1>9. Certified \subseteq Certified'
  BY <1>1, <1>8 DEF Certified
<1> QED BY <1>1, <1>4, <1>6, <1>8, <1>9 DEF Cast

\* A vote keeps the types of the safety information and the votes.
LEMMA VoteTypes ==
  ASSUME TreeInv, TypeInv, NEW f \in Honest, NEW b \in Ids, Vote(f, b)
  PROVE  TypeInv'
<1>1. /\ b # Genesis /\ tree' = tree /\ Ids' = Ids /\ Refs' = Refs
      /\ fsi' = [fsi EXCEPT ![f] = VotedFsi(fsi[f], BlockOf(b))]
      /\ votes' = [votes EXCEPT ![f] = @ \cup {[id |-> b, strong |-> VotesStrong(fsi[f], BlockOf(b))]}]
  BY DEF Vote, Ids, Refs, TimeOf
<1>2. VotesStrong(fsi[f], BlockOf(b)) \in BOOLEAN
  BY DEF VotesStrong
<1>3. [id |-> b, strong |-> VotesStrong(fsi[f], BlockOf(b))] \in [id : Ids \ {Genesis}, strong : BOOLEAN]
  BY <1>1, <1>2
<1>4. votes' \in [Honest -> SUBSET [id : Ids \ {Genesis}, strong : BOOLEAN]]
  BY <1>1, <1>3 DEF TypeInv
<1>5. Decided(f, b) /\ Claimed(b) \in Ids
  BY VoteDecided, ClaimedIsAncestor
<1>6. /\ fsi[f].last_vote \in Refs \cup {EmptyRef} /\ fsi[f].lock \in Refs
      /\ fsi[f].other_branch_latest_time \in 0..MaxTime
  BY DEF TypeInv
<1>7. fsi[f].last_vote.timestamp \in 0..MaxTime /\ 0 \in 0..MaxTime
  BY <1>6, RefFacts, EmptyRefFacts, TimeAssumption
<1>8. /\ fsi'[f].last_vote \in Refs /\ fsi'[f].lock \in Refs
      /\ fsi'[f].other_branch_latest_time \in 0..MaxTime
  BY <1>5, <1>6, <1>7 DEF Decided, Refs
<1>9. fsi'[f] = VotedFsi(fsi[f], BlockOf(b)) /\ \A g \in Honest \ {f} : fsi'[g] = fsi[g]
  BY <1>1 DEF TypeInv
<1>10. VotedFsi(fsi[f], BlockOf(b)) \in
         [last_vote : Refs \cup {EmptyRef}, lock : Refs, other_branch_latest_time : 0..MaxTime]
  BY <1>8, <1>9 DEF VotedFsi
<1>11. fsi' \in [Honest -> [last_vote : Refs \cup {EmptyRef}, lock : Refs, other_branch_latest_time : 0..MaxTime]]
  BY <1>1, <1>10 DEF TypeInv
<1> QED BY <1>1, <1>4, <1>11 DEF TypeInv

\* A finalizer that does not vote keeps its part of the invariant.
LEMMA OtherVoter ==
  ASSUME NEW f, NEW b, NEW g \in Honest \ {f}, Cast(f, b), VoterInv(g)
  PROVE  VoterInv(g)'
<1>1. /\ tree' = tree /\ Ids' = Ids /\ fsi'[g] = fsi[g] /\ votes'[g] = votes[g] /\ Certified \subseteq Certified'
  BY DEF Cast
<1>2. /\ \A x : TimeOf(x)' = TimeOf(x) /\ Claimed(x)' = Claimed(x)
      /\ \A x, y : Ancestor(x, y)' <=> Ancestor(x, y)
      /\ \A e : /\ VotedFor(g, e)' <=> VotedFor(g, e)
                /\ VotedStrong(g, e)' <=> VotedStrong(g, e)
  BY <1>1 DEF TimeOf, Claimed, Ancestor, VotedFor, VotedStrong
<1>3. \A c, d : Justified(c, d) => Justified(c, d)'
  BY <1>1, <1>2 DEF Justified
<1>4. LastVoteInv(g)'
  BY <1>1, <1>2 DEF VoterInv, LastVoteInv
<1>5. LockInv(g)'
  BY <1>1, <1>2 DEF VoterInv, LockInv
<1>6. BranchInv(g)'
  BY <1>1, <1>2 DEF VoterInv, BranchInv
<1>7. CoversInv(g)'
  BY <1>1, <1>2 DEF VoterInv, CoversInv
<1>8. JustifiedInv(g)'
  BY <1>1, <1>2, <1>3 DEF VoterInv, JustifiedInv
<1> QED BY <1>4, <1>5, <1>6, <1>7, <1>8 DEF VoterInv

\* Earlier votes are for earlier blocks, and those later than what b claims are on
\* b's branch, unless the new other_branch_latest_time covers them.
LEMMA EarlierVotes ==
  ASSUME TreeInv, TypeInv, NEW f \in Honest, VoterInv(f), NEW b \in Ids, Decided(f, b),
         NEW e \in Ids, VotedFor(f, e)
  PROVE  /\ fsi[f].last_vote # EmptyRef /\ TimeOf(e) < TimeOf(b)
         /\ \/ TimeOf(e) <= TimeOf(Claimed(b))
            \/ Ancestor(e, b)
            \/ ~ Strong(f, b) /\ TimeOf(e) <= fsi'[f].other_branch_latest_time
<1> DEFINE lv == fsi[f].last_vote
           l  == lv.block_id
           o  == fsi[f].other_branch_latest_time
           q  == Claimed(b)
<1>1. lv # EmptyRef /\ (e = l \/ TimeOf(e) < lv.timestamp)
  BY DEF VoterInv, LastVoteInv
<1>2. l \in Ids /\ lv.timestamp = TimeOf(l) /\ lv.timestamp \in Nat /\ o \in Nat
  <2>1. lv \in Refs \cup {EmptyRef} /\ o \in 0..MaxTime
    BY DEF TypeInv
  <2> QED BY <1>1, <2>1, RefFacts, TimeAssumption
<1>3. /\ TimeOf(e) \in Nat /\ TimeOf(b) \in Nat /\ q \in Ids /\ TimeOf(q) \in Nat
      /\ Claimed(l) \in Ids /\ TimeOf(Claimed(l)) \in Nat
  BY <1>2, TimeType, ClaimedIsAncestor
<1>4. TimeOf(e) <= lv.timestamp /\ TimeOf(e) < TimeOf(b)
  <2>1. lv.timestamp < TimeOf(b)
    BY <1>1 DEF Decided
  <2>2. e = l => TimeOf(e) = lv.timestamp
    BY <1>2
  <2> HIDE DEF l, lv
  <2> QED BY <1>1, <1>2, <1>3, <2>1, <2>2
<1>5. ASSUME Ancestor(l, b), o < TimeOf(e), TimeOf(q) < TimeOf(e)
      PROVE  Ancestor(e, b)
  <2>1. TimeOf(Claimed(l)) <= TimeOf(q)
    BY <1>2, <1>5, ClaimsAdvance
  <2>2. TimeOf(Claimed(l)) < TimeOf(e)
    BY <1>3, <1>5, <2>1
  <2>3. Ancestor(e, l)
    BY <1>5, <2>2 DEF VoterInv, BranchInv
  <2> QED BY <1>2, <1>5, <2>3, AncestorTransitive
<1>6. \/ lv.timestamp <= TimeOf(q)
      \/ Ancestor(l, b) /\ o <= TimeOf(q)
      \/ ~ Strong(f, b) /\ Ancestor(l, b) /\ fsi'[f].other_branch_latest_time = o
      \/ ~ Strong(f, b) /\ fsi'[f].other_branch_latest_time = lv.timestamp
  BY <1>1 DEF Decided
<1> HIDE DEF lv, l, o, q
<1>7. CASE lv.timestamp <= TimeOf(q)
  BY <1>1, <1>2, <1>3, <1>4, <1>7 DEF lv, q
<1>8. CASE Ancestor(l, b) /\ o <= TimeOf(q)
  <2>1. o < TimeOf(e) \/ TimeOf(e) <= TimeOf(q)
    BY <1>2, <1>3, <1>8
  <2>2. TimeOf(q) < TimeOf(e) \/ TimeOf(e) <= TimeOf(q)
    BY <1>3
  <2> QED BY <1>1, <1>4, <1>5, <1>8, <2>1, <2>2 DEF lv, q
<1>9. CASE ~ Strong(f, b) /\ Ancestor(l, b) /\ fsi'[f].other_branch_latest_time = o
  <2>1. o < TimeOf(e) \/ TimeOf(e) <= o
    BY <1>2, <1>3
  <2>2. TimeOf(q) < TimeOf(e) \/ TimeOf(e) <= TimeOf(q)
    BY <1>3
  <2> QED BY <1>1, <1>4, <1>5, <1>9, <2>1, <2>2 DEF lv, q
<1>10. CASE ~ Strong(f, b) /\ fsi'[f].other_branch_latest_time = lv.timestamp
  BY <1>1, <1>4, <1>10 DEF lv
<1> QED BY <1>6, <1>7, <1>8, <1>9, <1>10

\* decide_vote keeps the invariant of the finalizer that votes.
LEMMA OwnVoter ==
  ASSUME Inv, NEW f \in Honest, NEW b \in Ids, Vote(f, b)
  PROVE  VoterInv(f)'
<1>1. TreeInv /\ TypeInv /\ ClaimsInv /\ VoterInv(f) /\ Cast(f, b) /\ Decided(f, b)
  BY VoteCast, VoteDecided DEF Inv
<1>2. /\ Ids' = Ids /\ Certified \subseteq Certified'
      /\ \A x : TimeOf(x)' = TimeOf(x) /\ Claimed(x)' = Claimed(x)
      /\ \A x, y : Ancestor(x, y)' <=> Ancestor(x, y)
  BY <1>1 DEF Cast, TimeOf, Claimed, Ancestor
<1>3. \A e : /\ VotedFor(f, e)' <=> (VotedFor(f, e) \/ e = b)
             /\ VotedStrong(f, e)' <=> (VotedStrong(f, e) \/ (e = b /\ Strong(f, b)))
             /\ VotedStrong(f, e) => VotedFor(f, e)
  BY <1>1, VotedIsBlock DEF Cast
<1>4. \A e \in Ids : VotedFor(f, e) =>
        /\ TimeOf(e) < TimeOf(b)
        /\ \/ TimeOf(e) <= TimeOf(Claimed(b))
           \/ Ancestor(e, b)
           \/ ~ Strong(f, b) /\ TimeOf(e) <= fsi'[f].other_branch_latest_time
  BY <1>1, EarlierVotes
<1>5. \A x \in Ids : TimeOf(x) \in Nat /\ Claimed(x) \in Ids /\ TimeOf(Claimed(x)) \in Nat
  BY <1>1, TimeType, ClaimedIsAncestor
<1>6. /\ fsi'[f].last_vote.block_id = b /\ fsi'[f].last_vote.timestamp = TimeOf(b)
      /\ fsi'[f].last_vote # EmptyRef
  <2>1. fsi'[f].last_vote = BlockRef(b, TimeOf(b))
    BY <1>1 DEF Decided
  <2>2. fsi'[f].last_vote \in Refs
    BY <2>1 DEF Refs
  <2> QED BY <1>1, <2>1, <2>2, RefFacts DEF BlockRef
<1>7. fsi'[f].other_branch_latest_time \in Nat
  BY <1>1, VoteTypes DEF TypeInv
<1>8. LastVoteInv(f)'
  <2>1. \A e \in Ids : VotedFor(f, e)' => e = b \/ TimeOf(e) < TimeOf(b)
    BY <1>3, <1>4
  <2>2. ASSUME NEW d \in Ids, NEW e \in Ids, VotedFor(f, d)', VotedFor(f, e)', TimeOf(d) = TimeOf(e)
        PROVE  d = e
    <3>1. CASE VotedFor(f, d) /\ VotedFor(f, e)
      BY <1>1, <2>2, <3>1 DEF VoterInv, LastVoteInv
    <3>2. TimeOf(d) \in Nat /\ TimeOf(e) \in Nat /\ TimeOf(b) \in Nat
      BY <1>5
    <3>3. CASE VotedFor(f, d) /\ e = b
      <4>1. TimeOf(d) < TimeOf(b)
        BY <1>4, <3>3
      <4> QED BY <2>2, <3>2, <3>3, <4>1
    <3>4. CASE VotedFor(f, e) /\ d = b
      <4>1. TimeOf(e) < TimeOf(b)
        BY <1>4, <3>4
      <4> QED BY <2>2, <3>2, <3>4, <4>1
    <3> QED BY <1>3, <2>2, <3>1, <3>3, <3>4
  <2> QED BY <1>2, <1>6, <2>1, <2>2 DEF LastVoteInv
<1>9. LockInv(f)'
  <2>1. fsi[f].lock.timestamp \in Nat
    BY <1>1, RefFacts DEF TypeInv
  <2>2. fsi'[f].lock = IF Strong(f, b) /\ fsi[f].lock.timestamp < TimeOf(Claimed(b))
                       THEN BlockRef(Claimed(b), TimeOf(Claimed(b))) ELSE fsi[f].lock
    BY <1>1 DEF Decided
  <2>3. Claimed(b) \in Certified /\ fsi[f].lock.block_id \in Certified
    BY <1>1 DEF ClaimsInv, VoterInv, LockInv
  <2>4. /\ fsi'[f].lock.block_id \in Certified
        /\ fsi[f].lock.timestamp <= fsi'[f].lock.timestamp
        /\ fsi'[f].lock.timestamp \in Nat
        /\ Strong(f, b) => TimeOf(Claimed(b)) <= fsi'[f].lock.timestamp
    BY <1>5, <2>1, <2>2, <2>3 DEF BlockRef
  <2>5. \A d \in Ids : VotedStrong(f, d) => TimeOf(Claimed(d)) <= fsi[f].lock.timestamp
    BY <1>1 DEF VoterInv, LockInv
  <2>6. \A d \in Ids : VotedStrong(f, d)' => TimeOf(Claimed(d)) <= fsi'[f].lock.timestamp
    BY <1>3, <1>5, <2>1, <2>4, <2>5
  <2> QED BY <1>2, <2>4, <2>6 DEF LockInv
<1>10. BranchInv(f)'
  <2>1. ASSUME NEW e \in Ids, VotedFor(f, e) \/ e = b,
               fsi'[f].other_branch_latest_time < TimeOf(e), TimeOf(Claimed(b)) < TimeOf(e)
        PROVE  Ancestor(e, b)
    BY <1>1, <1>4, <1>5, <1>7, <2>1, AncestorReflexive
  <2> QED BY <1>2, <1>3, <1>6, <2>1 DEF BranchInv
<1>11. CoversInv(f)'
  <2> SUFFICES ASSUME NEW d \in Ids, NEW e \in Ids,
                      VotedStrong(f, d) \/ (d = b /\ Strong(f, b)), VotedFor(f, e) \/ e = b,
                      TimeOf(Claimed(d)) < TimeOf(e), TimeOf(e) <= TimeOf(d)
               PROVE  Ancestor(e, d)
    BY <1>2, <1>3 DEF CoversInv
  <2>1. CASE VotedStrong(f, d) /\ VotedFor(f, e)
    BY <1>1, <2>1 DEF VoterInv, CoversInv
  <2>2. CASE VotedStrong(f, d) /\ e = b
    BY <1>3, <1>4, <1>5, <2>2
  <2>3. CASE d = b /\ Strong(f, b) /\ VotedFor(f, e)
    BY <1>4, <1>5, <2>3
  <2>4. CASE d = b /\ e = b
    BY <1>1, <2>4, AncestorReflexive
  <2> QED BY <2>1, <2>2, <2>3, <2>4
<1>12. JustifiedInv(f)'
  <2>1. \A c, d : Justified(c, d) => Justified(c, d)'
    BY <1>2 DEF Justified
  <2> SUFFICES ASSUME NEW d \in Ids, NEW c \in Ids,
                      VotedStrong(f, d) \/ (d = b /\ Strong(f, b)), VotedFor(f, c) \/ c = b,
                      TimeOf(d) < TimeOf(c)
               PROVE  Justified(c, d)
    BY <1>2, <1>3, <2>1 DEF JustifiedInv
  <2>2. CASE VotedStrong(f, d) /\ VotedFor(f, c)
    BY <1>1, <2>2 DEF VoterInv, JustifiedInv
  <2>3. CASE VotedStrong(f, d) /\ c = b
    <3>1. /\ fsi[f].lock.block_id \in Certified /\ TimeOf(Claimed(d)) <= fsi[f].lock.timestamp
      BY <1>1, <2>3 DEF VoterInv, LockInv
    <3>2. fsi[f].lock.timestamp \in Nat /\ fsi[f].lock.timestamp = TimeOf(fsi[f].lock.block_id)
      BY <1>1, RefFacts DEF TypeInv
    <3>3. CASE fsi[f].lock.timestamp < TimeOf(Claimed(b))
      BY <1>5, <2>3, <3>1, <3>2, <3>3 DEF Justified
    <3>4. CASE Ancestor(fsi[f].lock.block_id, b) /\ fsi[f].lock.block_id # b
      BY <2>3, <3>1, <3>2, <3>4 DEF Justified
    <3> QED BY <1>1, <3>3, <3>4 DEF Decided
  <2>4. CASE d = b /\ VotedFor(f, c)
    BY <1>4, <1>5, <2>4
  <2>5. CASE d = b /\ c = b
    BY <1>5, <2>5
  <2> QED BY <2>2, <2>3, <2>4, <2>5
<1> QED BY <1>8, <1>9, <1>10, <1>11, <1>12 DEF VoterInv

\* A vote (create_and_send_vote_msg) keeps the whole invariant.
LEMMA VoteInv ==
  ASSUME Inv, NEW f \in Honest, NEW b \in Ids, Vote(f, b)
  PROVE  Inv'
<1>1. TreeInv /\ TypeInv /\ ClaimsInv /\ Cast(f, b)
  BY VoteCast DEF Inv
<1>2. Kept /\ tree' = tree /\ Ids' = Ids /\ Certified \subseteq Certified' /\ \A x : HasStrongQc(x) => HasStrongQc(x)'
  BY <1>1 DEF Cast, Kept
<1>3. TreeInv'
  BY <1>1, <1>2, KeptInv DEF TreeInv
<1>4. TypeInv'
  BY <1>1, VoteTypes
<1>5. ClaimsInv'
  <2>1. \A x \in Ids : Claimed(x)' = Claimed(x)
    BY <1>2, KeptBlocks
  <2> QED BY <1>1, <1>2, <2>1 DEF ClaimsInv
<1>6. \A g \in Honest : VoterInv(g)'
  <2> TAKE g \in Honest
  <2>1. CASE g = f
    BY <2>1, OwnVoter
  <2>2. CASE g # f
    BY <1>1, <2>2, OtherVoter DEF Inv
  <2> QED BY <2>1, <2>2
<1> QED BY <1>3, <1>4, <1>5, <1>6 DEF Inv

\* The invariant reads no more than the state.
LEMMA StutterInv ==
  ASSUME Inv, UNCHANGED vars
  PROVE  Inv'
<1>1. tree' = tree /\ fsi' = fsi /\ votes' = votes
  BY DEF vars
<1>2. Kept /\ Ids' = Ids
  BY <1>1 DEF Kept, Ids
<1>3. TreeInv'
  BY <1>2, KeptInv DEF Inv, TreeInv
<1>4. TypeInv'
  BY <1>1, <1>2 DEF Inv, TypeInv, Refs, TimeOf
<1>5. ClaimsInv'
  <2>1. \A x \in Ids : Claimed(x)' = Claimed(x)
    BY <1>2, KeptBlocks
  <2>2. Certified' = Certified /\ \A x : HasStrongQc(x)' <=> HasStrongQc(x)
    BY <1>1, <1>2 DEF Certified, HasQc, HasStrongQc, VotedFor, VotedStrong
  <2> QED BY <1>1, <1>2, <2>1, <2>2 DEF Inv, ClaimsInv
<1>6. \A f \in Honest : VoterInv(f)'
  BY <1>1, <1>2, <1>3, ProposeVoter
<1> QED BY <1>3, <1>4, <1>5, <1>6 DEF Inv

\* Every step keeps the invariant.
LEMMA NextInv == Inv /\ [Next]_vars => Inv'
<1> SUFFICES ASSUME Inv, [Next]_vars PROVE Inv'
  OBVIOUS
<1>1. CASE UNCHANGED vars
  BY <1>1, StutterInv
<1>2. ASSUME NEW p \in Ids, NEW a \in Ids, NEW s \in BOOLEAN, Propose(p, QcClaim(a.num, s))
      PROVE  Inv'
  <2>1. BlockReads(a)
    BY ReadBlock DEF Inv
  <2>2. QcClaim(a.num, s) \in Claim
    BY <2>1 DEF BlockReads, QcClaim, Claim
  <2> QED BY <1>2, <2>2, ProposeInv
<1>3. ASSUME NEW f \in Honest, NEW b \in Ids, Vote(f, b)
      PROVE  Inv'
  BY <1>3, VoteInv
<1> QED BY <1>1, <1>2, <1>3 DEF Next

\* The inductive invariant holds in every reachable state.
THEOREM Invariance == Spec => []Inv
  BY InitInv, NextInv, PTL DEF Spec

-------------------------------------------------------------------------------
(* What the invariant implies.                                               *)

\* The invariant includes the types.
LEMMA InvImpliesTypeOK == Inv => TypeOK
<1> SUFFICES ASSUME Inv PROVE TypeOK
  OBVIOUS
<1>1. TreeInv /\ TypeInv
  BY DEF Inv
<1>2. ASSUME NEW x \in Ids PROVE x \in Id /\ Tip(tree[x].branch).id = x
  <2>1. BlockInv(x) /\ BlockReads(x)
    BY <1>1, ReadBlock DEF TreeInv
  <2>2. Tip(Br(x)) = At(Br(x), x.num)
    BY <2>1, TipAt DEF BlockReads
  <2> QED BY <2>1, <2>2 DEF BlockInv, Br
<1>3. \A x \in Ids : TimeOf(x) \in 0..MaxTime
  BY <1>1, TimeType
<1>4. Refs \subseteq [block_id : Ids, timestamp : 0..MaxTime]
  BY <1>3 DEF Refs, BlockRef
<1>5. EmptyRef \in [block_id : {EmptyRef.block_id}, timestamp : 0..MaxTime]
  BY TimeAssumption DEF EmptyRef, BlockRef
<1>6. ASSUME NEW f \in Honest
      PROVE  /\ fsi[f].last_vote \in [block_id : Ids \cup {EmptyRef.block_id}, timestamp : 0..MaxTime]
             /\ fsi[f].lock \in [block_id : Ids, timestamp : 0..MaxTime]
             /\ fsi[f].other_branch_latest_time \in 0..MaxTime
             /\ votes[f] \subseteq [id : Ids, strong : BOOLEAN]
  <2>1. /\ fsi[f].last_vote \in Refs \cup {EmptyRef} /\ fsi[f].lock \in Refs
        /\ fsi[f].other_branch_latest_time \in 0..MaxTime
        /\ votes[f] \subseteq [id : Ids \ {Genesis}, strong : BOOLEAN]
    BY <1>1 DEF TypeInv
  <2> QED BY <1>4, <1>5, <2>1
<1> QED BY <1>2, <1>6 DEF TypeOK

\* The invariant of the voters includes what a strong vote vouches for (decide_vote).
LEMMA InvImpliesCovers == Inv => StrongVoteCoversOwnVotes
  BY DEF Inv, VoterInv, CoversInv, StrongVoteCoversOwnVotes

\* Any two QCs share an honest voter.
LEMMA CommonVoter ==
  ASSUME NEW x, NEW y, HasQc(x), HasQc(y)
  PROVE  \E f \in Honest : VotedFor(f, x) /\ VotedFor(f, y)
  BY QuorumAssumption DEF HasQc

\* A QC and a strong QC share an honest finalizer that voted strong for the latter.
LEMMA CommonStrongVoter ==
  ASSUME NEW x, NEW y, HasQc(x), HasStrongQc(y)
  PROVE  \E f \in Honest : VotedFor(f, x) /\ VotedStrong(f, y)
  BY QuorumAssumption DEF HasQc, HasStrongQc

\* Blocks with QCs differ in time.
LEMMA OneQcPerSlot ==
  ASSUME Inv, NEW x \in Certified, NEW y \in Certified, TimeOf(x) = TimeOf(y)
  PROVE  x = y
<1>1. TreeInv /\ TypeInv /\ x \in Ids /\ y \in Ids /\ Genesis \in Ids
  BY CertifiedIsBlock DEF Inv, TreeInv
<1>2. \A z \in Ids : TimeOf(z) \in Nat /\ (z = Genesis \/ TimeOf(Genesis) < TimeOf(z))
  BY <1>1, AncestorReflexive, AncestorIsOlder, TimeType
<1>3. CASE x = Genesis \/ y = Genesis
  BY <1>1, <1>2, <1>3
<1>4. CASE HasQc(x) /\ HasQc(y)
  <2>1. PICK f \in Honest : VotedFor(f, x) /\ VotedFor(f, y)
    BY <1>4, CommonVoter
  <2> QED BY <1>1, <2>1 DEF Inv, VoterInv, LastVoteInv
<1> QED BY <1>3, <1>4 DEF Certified

\* Every nonempty set of numbers has a least element.
LEMMA NatMin ==
  ASSUME NEW T \in SUBSET Nat, T # {}
  PROVE  \E x \in T : \A y \in T : x <= y
<1> DEFINE R == {p \in Nat \X Nat : p[1] < p[2]}
<1>1. IsWellFoundedOn(R, Nat)
  BY NatLessThanWellFounded DEF OpToRel
<1> HIDE DEF R
<1>2. PICK x \in T : \A y \in T : ~ (<<y, x>> \in R)
  BY <1>1, WFMin
<1>3. \A y \in T : x <= y
  <2> SUFFICES ASSUME NEW y \in T, y < x PROVE FALSE
    OBVIOUS
  <2>1. <<y, x>> \in Nat \X Nat /\ <<y, x>>[1] < <<y, x>>[2]
    OBVIOUS
  <2>2. <<y, x>> \in R
    BY <2>1 DEF R
  <2> QED BY <2>2, <1>2
<1> QED BY <1>3

\* The heart of safety: once d has a strong QC, every block with a QC that is not
\* older than the block d claims descends from it.  A least counterexample would
\* have been voted for by an honest finalizer that voted strong on d.
LEMMA QcsExtendFinal ==
  ASSUME Inv, NEW d \in Ids, HasStrongQc(d),
         NEW c \in Certified, TimeOf(Claimed(d)) <= TimeOf(c)
  PROVE  Ancestor(Claimed(d), c)
<1> DEFINE a == Claimed(d)
           Bad == {x \in Certified : TimeOf(a) <= TimeOf(x) /\ ~ Ancestor(a, x)}
           Times == {TimeOf(x) : x \in Bad}
<1>1. TreeInv /\ TypeInv /\ ClaimsInv /\ Certified \subseteq Ids /\ a \in Certified /\ a \in Ids /\ Ancestor(a, d)
  BY CertifiedIsBlock, ClaimedIsAncestor DEF Inv, ClaimsInv
<1>2. \A x \in Ids : TimeOf(x) \in Nat
  BY <1>1, TimeType
<1> HIDE DEF a
<1> SUFFICES ASSUME Bad # {} PROVE FALSE
  <2>1. Bad = {}
    OBVIOUS
  <2> QED BY <2>1 DEF a
<1>3. Times \in SUBSET Nat /\ Times # {}
  BY <1>1, <1>2
<1>4. PICK x \in Bad : \A y \in Bad : TimeOf(x) <= TimeOf(y)
  <2> HIDE DEF Bad
  <2>1. PICK m \in Times : \A n \in Times : m <= n
    <3> HIDE DEF Times
    <3> QED BY <1>3, NatMin
  <2> QED BY <2>1
<1>5. x \in Certified /\ x \in Ids /\ TimeOf(a) <= TimeOf(x) /\ ~ Ancestor(a, x)
  BY <1>1, <1>4
<1>6. TimeOf(a) < TimeOf(x)
  <2>1. TimeOf(a) # TimeOf(x)
    BY <1>1, <1>5, OneQcPerSlot, AncestorReflexive
  <2> QED BY <1>1, <1>2, <1>5, <2>1
<1>7. \A y \in Certified : TimeOf(a) <= TimeOf(y) /\ TimeOf(y) < TimeOf(x) => Ancestor(a, y)
  BY <1>1, <1>2, <1>4, <1>5
<1> HIDE DEF Bad, Times
<1>8. x # Genesis
  <2>1. a = Genesis \/ TimeOf(Genesis) < TimeOf(a)
    BY <1>1, AncestorReflexive, AncestorIsOlder DEF TreeInv
  <2> QED BY <1>1, <1>2, <1>5, <1>6, <2>1, AncestorReflexive DEF TreeInv
<1>9. PICK f \in Honest : VotedFor(f, x) /\ VotedStrong(f, d)
  BY <1>5, <1>8, CommonStrongVoter DEF Certified
<1>10. VoterInv(f)
  BY DEF Inv
<1>11. CASE TimeOf(x) <= TimeOf(d)
  <2>1. Ancestor(x, d)
    BY <1>5, <1>6, <1>9, <1>10, <1>11 DEF VoterInv, CoversInv, a
  <2>2. Ancestor(x, a)
    BY <1>1, <1>5, <2>1, AncestorLinear
  <2>3. x = a \/ TimeOf(x) < TimeOf(a)
    BY <1>1, <1>5, <2>2, AncestorIsOlder
  <2> QED BY <1>1, <1>2, <1>5, <1>6, <2>3
<1>12. CASE TimeOf(d) < TimeOf(x)
  <2>1. Justified(x, d)
    BY <1>5, <1>9, <1>10, <1>12 DEF VoterInv, JustifiedInv
  <2>2. PICK l \in Certified : l # x /\ Ancestor(l, x) /\ TimeOf(a) <= TimeOf(l)
    <3>1. CASE TimeOf(a) < TimeOf(Claimed(x))
      <4>1. /\ Claimed(x) \in Certified /\ Claimed(x) # x /\ Ancestor(Claimed(x), x)
            /\ TimeOf(a) <= TimeOf(Claimed(x))
        BY <1>1, <1>2, <1>5, <1>8, <3>1, ClaimedIsAncestor DEF ClaimsInv
      <4> QED BY <4>1
    <3>2. CASE \E l \in Certified : l # x /\ Ancestor(l, x) /\ TimeOf(a) <= TimeOf(l)
      BY <3>2
    <3> QED BY <2>1, <3>1, <3>2 DEF Justified, a
  <2>3. l \in Ids /\ TimeOf(l) < TimeOf(x)
    BY <1>1, <1>5, <2>2, AncestorIsOlder
  <2>4. Ancestor(a, l)
    BY <1>7, <2>2, <2>3
  <2> QED BY <1>1, <1>5, <2>2, <2>3, <2>4, AncestorTransitive
<1> QED BY <1>1, <1>2, <1>5, <1>11, <1>12

\* A block that is final has a QC that verify_qc accepts.
LEMMA FinalIsCertified ==
  ASSUME Inv, NEW a \in Final
  PROVE  a \in Certified /\ a \in Ids
  BY CertifiedIsBlock DEF Inv, ClaimsInv, Final

\* By the votes that two quorums share, final blocks are on one branch.
LEMMA InvImpliesAgreement == Inv => FinalBlocksAgree
<1> SUFFICES ASSUME Inv, NEW a \in Final, NEW b \in Final, TimeOf(a) <= TimeOf(b)
             PROVE  Ancestor(a, b)
  <2>1. \A x \in Ids : Inv => TimeOf(x) \in Nat
    BY TimeType DEF Inv
  <2>2. \A a, b \in Final : Inv => (TimeOf(a) <= TimeOf(b) \/ TimeOf(b) <= TimeOf(a))
    BY <2>1, FinalIsCertified
  <2> QED BY <2>2 DEF FinalBlocksAgree
<1>1. PICK d \in Ids : HasStrongQc(d) /\ a = Claimed(d)
  BY DEF Final
<1> QED BY <1>1, FinalIsCertified, QcsExtendFinal

\* The block that a core names as last final has a strong QC of its own.
LEMMA InvImpliesLibIsFinal == Inv => LibIsFinal
<1> SUFFICES ASSUME Inv, NEW x \in Ids PROVE LastFinal(x) \in Final \cup {Genesis}
  BY DEF LibIsFinal
<1> DEFINE h == Br(x)
           k == x.num
<1>1. TreeInv /\ ClaimsInv /\ BlockInv(x) /\ BlockReads(x)
  BY ReadBlock DEF Inv, TreeInv
<1>2. PICK f, g, t : IInv(tree[x].core, h, f, g, k, t)
  BY <1>1 DEF BlockInv
<1>3. /\ View(tree[x].core, f, g, k, t) /\ Tied(tree[x].core, h, f, g, k) /\ FrontView(h, f, g, k)
  BY <1>2 DEF IInv
<1>4. /\ f \in Nat /\ g \in Nat /\ k \in Nat /\ G \in Nat /\ G <= g /\ g <= f /\ f <= k
      /\ last_final_block_num(tree[x].core) = g
  <2>1. last_final_block_num(tree[x].core) = g
    BY <1>3, ViewAccessors
  <2>2. f \in Nat /\ g \in Nat /\ k \in Nat /\ t \in Nat /\ g <= f /\ f <= t /\ t <= k
    BY <1>3 DEF View
  <2>3. G \in Nat /\ G <= g
    BY <1>1, <1>3 DEF BlockReads, FrontView
  <2> QED BY <2>1, <2>2, <2>3
<1>5. LastFinal(x) = At(h, g).id
  BY <1>4 DEF LastFinal, Br
<1>6. g = At(h, f).claim.block_num
  <2>1. f \in f..k /\ f - f + 1 = 1
    BY <1>4
  <2>2. tree[x].core.links[1].target_block_num = g
    BY <1>3 DEF View, LinksView
  <2>3. tree[x].core.links[f - f + 1].target_block_num = At(h, f).claim.block_num
    BY <1>3, <2>1 DEF Tied
  <2> QED BY <2>1, <2>2, <2>3
<1>7. CASE f = G
  <2>1. g = G
    BY <1>4, <1>7
  <2> QED BY <1>1, <1>5, <2>1 DEF BlockInv
<1>8. CASE f # G
  <2>1. PICK m \in G..k : At(h, m).claim.block_num = f /\ At(h, m).claim.is_strong_qc
    BY <1>3, <1>8 DEF FrontView
  <2>2. PICK y : y = At(h, m).id
    OBVIOUS
  <2>3. y \in Ids /\ Ancestor(y, x) /\ y.num = m
    BY <1>1, <2>2, AtIsAncestor
  <2>4. BlockReads(y) /\ \A n \in G..m : At(Br(y), n) = At(h, n)
    BY <1>1, <2>3, PastOfAncestor, ReadBlock
  <2>5. m \in G..m
    BY <1>4
  <2>6. At(Br(y), m) = At(h, m)
    BY <2>4, <2>5
  <2>7. /\ latest_qc_claim(tree[y].core).is_strong_qc
        /\ At(Br(y), y.num).claim.block_num = f /\ f \in G..m
    BY <2>1, <2>3, <2>4, <2>6 DEF BlockReads
  <2>8. PICK d : d = Claimed(y)
    OBVIOUS
  <2>9. d \in Ids /\ d.num = f /\ d = At(Br(y), f).id /\ HasStrongQc(d)
    BY <1>1, <2>3, <2>7, <2>8, ClaimedIsAncestor DEF ClaimsInv
  <2>10. f \in G..k /\ f \in G..f /\ g \in G..f
    BY <1>4
  <2>11. d = At(h, f).id
    BY <2>4, <2>7, <2>9
  <2>12. Ancestor(d, x)
    BY <1>1, <2>10, <2>11, AtIsAncestor
  <2>13. \A n \in G..f : At(Br(d), n) = At(h, n)
    BY <1>1, <2>9, <2>12, PastOfAncestor
  <2>14. Claimed(d).num = g /\ Claimed(d) = At(Br(d), Claimed(d).num).id
    BY <1>1, <1>6, <2>9, <2>10, <2>13, ClaimedIsAncestor
  <2>15. Claimed(d) = At(h, g).id
    BY <2>10, <2>13, <2>14
  <2> QED BY <1>5, <2>9, <2>15 DEF Final
<1> QED BY <1>7, <1>8

\* The last final blocks of any two cores are on one branch.
LEMMA InvImpliesLibsAgree == Inv => LibsAgree
<1> SUFFICES ASSUME Inv, NEW x \in Ids, NEW y \in Ids
             PROVE  Ancestor(LastFinal(x), LastFinal(y)) \/ Ancestor(LastFinal(y), LastFinal(x))
  BY DEF LibsAgree
<1>1. LastFinal(x) \in Final \cup {Genesis} /\ LastFinal(y) \in Final \cup {Genesis}
  BY InvImpliesLibIsFinal DEF LibIsFinal
<1>2. \A z \in Final \cup {Genesis} : Ancestor(Genesis, z)
  BY FinalIsCertified, AncestorReflexive DEF Inv, TreeInv
<1>3. \A a, b \in Final : Ancestor(a, b) \/ Ancestor(b, a)
  BY InvImpliesAgreement DEF FinalBlocksAgree
<1> QED BY <1>1, <1>2, <1>3

\* decide_vote lets every honest finalizer vote on a block that claims the latest QC.
LEMMA InvImpliesNobodyIsStuck == Inv => NobodyIsStuck
<1> SUFFICES ASSUME Inv, NEW f \in Honest, NEW x \in LatestQc
             PROVE  CanVote(fsi[f], [id |-> x, timestamp |-> MaxTime + 1,
                                     core |-> ChildCore(tree[x].core, tree[x].branch, QcClaim(x.num, FALSE))])
  BY DEF NobodyIsStuck
<1> DEFINE h == Br(x)
           k == x.num
           c == tree[x].core
           claim == QcClaim(k, FALSE)
           ts == MaxTime + 1
           cc == ChildCore(c, h, claim)
           hh == Extend(h, GenesisHash, ts, claim)
           new == [id |-> [num |-> k + 1, hash |-> GenesisHash], timestamp |-> ts, claim |-> claim]
<1>1. TreeInv /\ TypeInv /\ x \in Certified /\ x \in Ids /\ \A y \in Certified : TimeOf(y) <= TimeOf(x)
  BY CertifiedIsBlock DEF Inv, LatestQc
<1>2. BlockReads(x) /\ BlockInv(x)
  BY <1>1, ReadBlock DEF TreeInv
<1>3. k \in Nat /\ G \in Nat /\ G <= k /\ TimeOf(x) = At(h, k).timestamp /\ At(h, k).id = x
  BY <1>2 DEF BlockReads, BlockInv
<1>4. PICK ff, gg, t : IInv(c, h, ff, gg, k, t)
  BY <1>2 DEF BlockInv
<1>5. t \in Nat /\ t <= k
  BY <1>4 DEF IInv, View
<1>6. claim \in Claim /\ claim.block_num = k /\ ts \in Nat /\ At(h, k).timestamp < ts
  BY <1>1, <1>3, TimeType, TimeAssumption DEF QcClaim, Claim
<1> HIDE DEF h, k, c, claim, ts, cc, hh, new
<1>7. ChildView(cc, hh, c, h, k, claim, new)
  <2>1. new = [id |-> [num |-> k + 1, hash |-> GenesisHash], timestamp |-> ts, claim |-> claim]
    BY DEF new
  <2>2. cc = ChildCore(c, h, claim) /\ hh = Extend(h, GenesisHash, ts, claim)
    BY DEF cc, hh
  <2>3. t <= claim.block_num /\ claim.block_num <= k
    BY <1>3, <1>5, <1>6
  <2> QED BY <1>4, <1>6, <2>1, <2>2, <2>3, ChildTied, GenesisHashAssumption
<1>8. PICK f2, g2 : IInv(cc, hh, f2, g2, k + 1, k)
  BY <1>6, <1>7 DEF ChildView
<1>9. At(hh, k) = At(h, k)
  <2>1. k \in G..k
    BY <1>3
  <2> QED BY <1>7, <2>1 DEF ChildView, Extended
<1>10. latest_qc_block_timestamp(cc) = TimeOf(x)
  <2>1. CoreReads(cc, hh, g2, k + 1, k)
    BY <1>8, TiedReads
  <2> QED BY <1>3, <1>9, <2>1 DEF CoreReads
<1>11. extends(cc, x)
  <2>1. g2 \in Nat /\ g2 <= k
    BY <1>8 DEF IInv, View
  <2>2. x.num = k
    BY DEF k
  <2>3. extends(cc, x) <=> (g2 <= x.num /\ x.num < k + 1 /\ At(hh, x.num).id = x)
    BY <1>3, <1>8, <2>2, TiedExtends
  <2> QED BY <1>3, <1>9, <2>1, <2>2, <2>3
<1>12. fsi[f].lock \in Refs /\ fsi[f].last_vote \in Refs \cup {EmptyRef} /\ fsi[f].lock.block_id \in Certified
  BY <1>1 DEF TypeInv, Inv, VoterInv, LockInv
<1>13. /\ ~ empty(fsi[f].lock) /\ fsi[f].lock.timestamp = TimeOf(fsi[f].lock.block_id)
       /\ fsi[f].lock.timestamp \in Nat
  BY <1>1, <1>12, RefFacts
<1>14. fsi[f].lock.timestamp < TimeOf(x) \/ fsi[f].lock.block_id = x
  <2>1. TimeOf(x) \in Nat /\ fsi[f].lock.timestamp <= TimeOf(x)
    BY <1>1, <1>12, <1>13, TimeType
  <2>2. fsi[f].lock.timestamp = TimeOf(x) => fsi[f].lock.block_id = x
    BY <1>1, <1>12, <1>13, OneQcPerSlot
  <2> QED BY <1>13, <2>1, <2>2
<1>15. empty(fsi[f].last_vote) \/ fsi[f].last_vote.timestamp < ts
  <2>1. fsi[f].last_vote \in Refs => fsi[f].last_vote.timestamp < MaxTime + 1
    BY <1>1, RefFacts, TimeAssumption
  <2> QED BY <1>12, <2>1, EmptyRefFacts DEF ts
<1>16. CanVote(fsi[f], [id |-> x, timestamp |-> ts, core |-> cc])
  <2>1. TimeOf(x) \in Nat
    BY <1>1, TimeType
  <2>2. monotony_check(fsi[f], [id |-> x, timestamp |-> ts, core |-> cc])
    BY <1>15 DEF monotony_check
  <2>3. \/ liveness_check(fsi[f], [id |-> x, timestamp |-> ts, core |-> cc])
        \/ safety_check(fsi[f], [id |-> x, timestamp |-> ts, core |-> cc])
    BY <1>10, <1>11, <1>13, <1>14, <2>1 DEF liveness_check, safety_check, ClaimedTime
  <2> QED BY <2>2, <2>3 DEF CanVote
<1> QED BY <1>16 DEF ts, cc, c, h, claim, k, Br

-------------------------------------------------------------------------------
\* Safety information, votes and tree stay within their types.
THEOREM TypeTheorem == Spec => []TypeOK
  BY Invariance, InvImpliesTypeOK, PTL

\* decide_vote: strong votes cover the finalizer's own votes, on all branches.
THEOREM CoversTheorem == Spec => []StrongVoteCoversOwnVotes
  BY Invariance, InvImpliesCovers, PTL

\* Safety of the consensus: final blocks are on one branch, for any number of
\* finalizers and blocks.
THEOREM AgreementTheorem == Spec => []FinalBlocksAgree
  BY Invariance, InvImpliesAgreement, PTL

\* What finality_core calls final is final by a strong QC.
THEOREM LibIsFinalTheorem == Spec => []LibIsFinal
  BY Invariance, InvImpliesLibIsFinal, PTL

\* The last irreversible blocks of any two nodes are on one branch.
THEOREM LibsAgreeTheorem == Spec => []LibsAgree
  BY Invariance, InvImpliesLibsAgree, PTL

\* No lock keeps a finalizer from voting on a child of the latest block with a QC.
THEOREM NobodyIsStuckTheorem == Spec => []NobodyIsStuck
  BY Invariance, InvImpliesNobodyIsStuck, PTL
===============================================================================
