----------------------------- MODULE ForkDatabase -----------------------------
(***************************************************************************)
(* The operations of the Savanna fork database (fork_database_impl), as    *)
(* operators on its value d: root, index (the blocks above root),          *)
(* pending (pending_savanna_lib_id) and valid (the blocks of it that       *)
(* is_valid()).  Each runs under the database's mutex.                     *)
(*                                                                         *)
(* Blocks are given as a tree of ids by the functions below; an id is a    *)
(* number because by_best_branch compares ids.                             *)
(***************************************************************************)
EXTENDS Integers, Sequences, FiniteSets

CONSTANTS
  Blk, Genesis,   \* block ids; Genesis is the root the node starts with
  previous, num, timestamp,
  claim,          \* the QC claim in each header: [block_num, is_strong_qc]
  Ancestry        \* for each block the blocks it is built on, and itself

AncestorAt(b, n) == CHOOSE a \in Ancestry[b] : num[a] = n

ASSUME TreeAssumption ==
  /\ Blk \subseteq Nat /\ Genesis \in Blk /\ Ancestry[Genesis] = {Genesis}
  /\ previous[Genesis] \notin Blk /\ claim[Genesis].block_num = num[Genesis]
  /\ \A b \in Blk : num[b] \in Nat /\ timestamp[b] \in Nat /\ claim[b].block_num \in Nat
  /\ \A b \in Blk \ {Genesis} :
       /\ previous[b] \in Blk /\ Ancestry[b] = {b} \cup Ancestry[previous[b]]
       /\ num[b] = num[previous[b]] + 1
       /\ timestamp[b] > timestamp[previous[b]]
       /\ claim[b].block_num >= claim[previous[b]].block_num
       /\ claim[b].block_num < num[b]
       /\ \E a \in Ancestry[b] : num[a] = claim[b].block_num

\* core.get_block_reference(core.latest_qc_claim().block_num)
latest_qc_ref(b) == AncestorAt(b, claim[b].block_num)

-------------------------------------------------------------------------------
NewDb == [root |-> Genesis, index |-> {}, pending |-> Genesis, valid |-> {Genesis}]

\* by_best_branch: the latest claimed block, then the block's own time, then the id.
IsBetter(a, b) ==
  LET qa == timestamp[latest_qc_ref(a)]
      qb == timestamp[latest_qc_ref(b)]
  IN  \/ qa > qb
      \/ qa = qb /\ timestamp[a] > timestamp[b]
      \/ qa = qb /\ timestamp[a] = timestamp[b] /\ a > b

head(d) == IF d.index = {} THEN d.root
           ELSE CHOOSE b \in d.index : \A c \in d.index \ {b} : IsBetter(b, c)

get_block(d, b) == b \in d.index \cup {d.root}

\* The blocks that walking from h by previous() finds in index.
Walk(index, h) == {b \in Ancestry[h] : \A c \in Ancestry[h] : num[c] >= num[b] => c \in index}

search_on_branch(d, h, n) == {b \in Walk(d.index, h) : n > num[d.root] /\ num[b] = n}

\* Mutant: the branch of b is returned also when h is on another one.
Mut_fetch_branch(d, h, b) == {e \in Walk(d.index, b) : num[e] <= num[b]}

\* Empty unless b is on the branch of h.
fetch_branch(d, h, b) == {c \in Walk(d.index, h) : b \in Walk(d.index, h) /\ num[c] <= num[b]}

\* The number of the last block that both are built on.
ForkNum(a, b) ==
  LET common == {num[x] : x \in Ancestry[a] \cap Ancestry[b]}
  IN  CHOOSE n \in common : \A m \in common : m <= n

\* The blocks of b's branch with higher numbers than n, oldest first.
BranchAbove(b, n) == [i \in 1..(num[b] - n) |-> AncestorAt(b, n + i)]

\* The two branches down to the common ancestor, for blocks of one tree.
fetch_branch_from(first, second) ==
  LET n == ForkNum(first, second)
  IN  [first |-> BranchAbove(first, n), second |-> BranchAbove(second, n)]

-------------------------------------------------------------------------------
\* set_pending_savanna_lib_id
set_pending(d, b) == IF num[b] > num[d.pending] THEN [d EXCEPT !.pending = b] ELSE d

\* A strong claim makes the block final that the claimed block claims, whether or not
\* the carrier is valid.
WithClaim(d, n) ==
  LET claimed == search_on_branch(d, previous[n], claim[n].block_num)
  IN  IF claim[n].is_strong_qc /\ claimed # {}
      THEN set_pending(d, latest_qc_ref(CHOOSE c \in claimed : TRUE))
      ELSE d

Linkable(d, n) == get_block(d, previous[n])

\* add, for a linkable block; index keeps an entry it has
add(d, n) == [WithClaim(d, n) EXCEPT !.index = @ \cup {n}]

\* Mutant: only the block itself is removed.
Mut_Without(index, ids) == index \ ids

\* remove_impl, for each of ids: the block and what is built on it
Without(index, ids) ==
  {b \in index : ~ \E r \in ids \cap Ancestry[b] :
                     \A c \in Ancestry[b] : num[c] > num[r] => c \in index}

Shrink(d, index) == [d EXCEPT !.index = index, !.valid = @ \cap (index \cup {d.root})]

remove(d, b) == Shrink(d, Without(d.index, {b}))

\* advance_root: the new root leaves index, and what is not built on it is removed.
advance_root(d, b) ==
  Shrink([d EXCEPT !.root = b], Without(d.index \ {b}, Ancestry[b] \ {b}))

\* reset_root: pending stays as it is.
reset_root(d, b) == [d EXCEPT !.root = b, !.index = {}, !.valid = {b}]
===============================================================================
