-------------------------------- MODULE Savanna --------------------------------
(***************************************************************************)
(* The consensus: proposers extend a tree of blocks with any claim that    *)
(* the validation of received blocks accepts, honest finalizers vote by    *)
(* decide_vote, and a quorum of votes is what a QC claim needs.            *)
(*                                                                         *)
(* Blocks, votes and QCs may reach anyone at any time and in any order:    *)
(* every finalizer may consider any block of the tree, at any time, or     *)
(* never.  Byzantine finalizers are taken to vote strong and weak on every *)
(* block.  The finalizer policy is the same for all blocks.  The genesis   *)
(* block stands for the one that the default safety information names;     *)
(* transition blocks are never voted on.                                   *)
(***************************************************************************)
EXTENDS Branch, FinalizerVote, FiniteSets

CONSTANTS
  Honest,       \* finalizers that follow decide_vote and never lose their safety file
  Quorum,       \* sets of finalizers whose weights reach the policy's threshold
  GenesisHash,
  MaxTime,      \* bound: timestamp of the latest block
  MaxBlocks     \* bound: blocks of the tree

\* Thresholds are above half of the weights (set_finalizers in privileged.cpp),
\* and the weight of Byzantine finalizers is small enough for any two quorums to
\* share an honest finalizer.
ASSUME QuorumAssumption == \A Q1, Q2 \in Quorum : Q1 \cap Q2 \cap Honest # {}
ASSUME GenesisHashAssumption == GenesisHash \in Hash
ASSUME TimeAssumption == MaxTime \in Nat /\ GenesisTime <= MaxTime

VARIABLES
  tree,    \* block id -> its core and the branch that ends with it
  fsi,     \* safety information of the honest finalizers
  votes    \* the votes they sent: [id, strong]

vars == <<tree, fsi, votes>>

Ids     == DOMAIN tree
TimeOf(id)  == Tip(tree[id].branch).timestamp
BlockOf(id) == [id |-> id, timestamp |-> TimeOf(id), core |-> tree[id].core]
Genesis == GenesisId(GenesisHash)

EmptyRef   == BlockRef([num |-> 0, hash |-> GenesisHash], 0)
GenesisRef == BlockRef(Genesis, GenesisTime)

\* set_default_safety_information: at the transition to Savanna, or at startup.
Init ==
  /\ tree = [id \in {Genesis} |-> [core |-> GenesisCore(GenesisHash), branch |-> GenesisBranch(GenesisHash)]]
  /\ fsi \in [Honest -> [last_vote : {EmptyRef, GenesisRef}, lock : {GenesisRef}, other_branch_latest_time : {0}]]
  /\ votes = [f \in Honest |-> {}]

-------------------------------------------------------------------------------
VotedFor(f, id)    == \E s \in BOOLEAN : [id |-> id, strong |-> s] \in votes[f]
VotedStrong(f, id) == [id |-> id, strong |-> TRUE] \in votes[f]

\* A QC on a block: strong if every vote in it is strong (qc_t::verify).
HasQc(id)       == \E Q \in Quorum : \A f \in Q \cap Honest : VotedFor(f, id)
HasStrongQc(id) == \E Q \in Quorum : \A f \in Q \cap Honest : VotedStrong(f, id)

\* Mutant: the QC of a new claim is not verified.
Mut_ClaimUnverified(p, claim) ==
  /\ claim.block_num <= p.num
  /\ ClaimAccepted(tree[p].core, claim)

\* verify_basic_proper_block_invariants and verify_qc: a claim that is not the
\* parent's needs a QC of its strength on the ancestor it names.
ClaimVerified(p, claim) ==
  /\ claim.block_num <= p.num
  /\ ClaimAccepted(tree[p].core, claim)
  /\ \/ claim = latest_qc_claim(tree[p].core)
     \/ LET id == At(tree[p].branch, claim.block_num).id
        IN IF claim.is_strong_qc THEN HasStrongQc(id) ELSE HasQc(id)

\* A block extending p is accepted (create_block_state_i).
Propose(p, claim) ==
  /\ Cardinality(Ids) < MaxBlocks
  /\ ClaimVerified(p, claim)
  /\ \E hash \in Hash, ts \in 0..MaxTime :
       LET id == [num |-> p.num + 1, hash |-> hash]
       IN /\ id \notin Ids
          /\ TimeOf(p) < ts
          /\ tree' = [i \in Ids \cup {id} |->
                        IF i = id THEN [core   |-> ChildCore(tree[p].core, tree[p].branch, claim),
                                        branch |-> Extend(tree[p].branch, hash, ts, claim)]
                        ELSE tree[i]]
  /\ UNCHANGED <<fsi, votes>>

\* A finalizer votes on a block.  A vote that is lost, or that its node does not
\* send because it stopped or could not sign, is a vote that no QC uses.
Vote(f, id) ==
  /\ id # Genesis                       \* create_and_send_vote_msg: proper blocks only
  /\ CanVote(fsi[f], BlockOf(id))
  /\ fsi' = [fsi EXCEPT ![f] = VotedFsi(fsi[f], BlockOf(id))]
  /\ votes' = [votes EXCEPT ![f] = @ \cup {[id |-> id, strong |-> VotesStrong(fsi[f], BlockOf(id))]}]
  /\ UNCHANGED tree

Next ==
  \/ \E p, a \in Ids, s \in BOOLEAN : Propose(p, QcClaim(a.num, s))
  \/ \E f \in Honest, id \in Ids : Vote(f, id)

Spec == Init /\ [][Next]_vars

-------------------------------------------------------------------------------
\* x is an ancestor of y, or y itself.
Ancestor(x, y) == x.num <= y.num /\ At(tree[y].branch, x.num).id = x

\* The ancestor that a block claims a QC on, and the last final block of its core.
Claimed(id)   == At(tree[id].branch, latest_qc_claim(tree[id].core).block_num).id
LastFinal(id) == At(tree[id].branch, last_final_block_num(tree[id].core)).id

TypeOK ==
  /\ \A id \in Ids : id \in Id /\ Tip(tree[id].branch).id = id
  /\ \A f \in Honest :
       /\ fsi[f].last_vote \in [block_id : Ids \cup {EmptyRef.block_id}, timestamp : 0..MaxTime]
       /\ fsi[f].lock \in [block_id : Ids, timestamp : 0..MaxTime]
       /\ fsi[f].other_branch_latest_time \in 0..MaxTime
       /\ votes[f] \subseteq [id : Ids, strong : BOOLEAN]

\* A strong QC on a block makes final the block that it claims (get_new_block_numbers).
Final == {Claimed(d) : d \in {x \in Ids : HasStrongQc(x)}}

\* Safety: two final blocks are never on different branches.
FinalBlocksAgree == \A a, b \in Final : Ancestor(a, b) \/ Ancestor(b, a)

\* What nodes act on: a block that some core has as its last final block is final,
\* so irreversibility never rests on a claim without a QC.
LibIsFinal == {LastFinal(id) : id \in Ids} \subseteq Final \cup {Genesis}

\* Hence no two nodes make irreversible blocks of different branches.
LibsAgree ==
  \A x, y \in Ids : Ancestor(LastFinal(x), LastFinal(y)) \/ Ancestor(LastFinal(y), LastFinal(x))

\* decide_vote: when a finalizer votes strong on d, all its votes for blocks later
\* than the block d claims were for ancestors of d, also across weak votes and
\* votes on other branches (other_branch_latest_time).
StrongVoteCoversOwnVotes ==
  \A f \in Honest : \A d, e \in Ids :
    VotedStrong(f, d) /\ VotedFor(f, e) /\ TimeOf(Claimed(d)) < TimeOf(e) /\ TimeOf(e) <= TimeOf(d)
      => Ancestor(e, d)

\* Whatever was voted before, a new block that extends the latest block with a QC
\* and claims that QC gets the vote of every honest finalizer: nobody is locked
\* out for good (the liveness check of decide_vote).
Certified == {Genesis} \cup {id \in Ids : HasQc(id)}
LatestQc  == LET C == Certified IN {id \in C : \A x \in C : TimeOf(x) <= TimeOf(id)}

NobodyIsStuck ==
  \A f \in Honest, id \in LatestQc :
    CanVote(fsi[f], [id |-> id, timestamp |-> MaxTime + 1,
                     core |-> ChildCore(tree[id].core, tree[id].branch, QcClaim(id.num, FALSE))])
===============================================================================
