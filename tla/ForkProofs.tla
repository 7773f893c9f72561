------------------------------ MODULE ForkProofs ------------------------------
(***************************************************************************)
(* The fork database and the controller that follows it, for any tree of   *)
(* blocks, any of them invalid, and any number of arrivals, stops, crashes *)
(* and starts: the fork database stays one tree whose root is the head of  *)
(* the block log; as long as no append to the block log failed, the chain  *)
(* head is on a validated branch, the chain database is at it, and fork    *)
(* switches stay in sync; and a start recovers the node.                   *)
(***************************************************************************)
EXTENDS Restart, FiniteSetTheorems, WellFoundedInduction, TLAPS

\* Most leaves are pure logic: Zenon is asked first, the SMT solver what it leaves open,
\* and Zenon once more when both ran out of time.
USE ZenonT(5), SMTT(60), ZenonT(60)

-------------------------------------------------------------------------------
(* The tree of blocks.                                                       *)

\* Every nonempty set of numbers has a least element.
LEMMA NatMin ==
  ASSUME NEW T \in SUBSET Nat, T # {}
  PROVE  \E x \in T : \A y \in T : x <= y
<1> DEFINE R == {p \in Nat \X Nat : p[1] < p[2]}
<1>1. IsWellFoundedOn(R, Nat)
  BY NatLessThanWellFounded DEF OpToRel
<1> HIDE DEF R
<1>2. PICK x \in T : \A y \in T : ~ (<<y, x>> \in R)
  BY <1>1, WFMin
<1>3. \A y \in T : x <= y
  <2> SUFFICES ASSUME NEW y \in T, y < x PROVE FALSE
    OBVIOUS
  <2>1. <<y, x>> \in Nat \X Nat /\ <<y, x>>[1] < <<y, x>>[2]
    OBVIOUS
  <2>2. <<y, x>> \in R
    BY <2>1 DEF R
  <2> QED BY <2>2, <1>2
<1> QED BY <1>3

\* Induction over numbers, for a set of them.
LEMMA NumInduction ==
  ASSUME NEW S \in SUBSET Nat, NEW n \in Nat, 0 \in S, \A m \in S : m < n => m + 1 \in S
  PROVE  \A m \in 0..n : m \in S
<1> DEFINE T == {m \in 0..n : m \notin S}
<1> SUFFICES ASSUME T # {} PROVE FALSE
  OBVIOUS
<1>1. T \in SUBSET Nat
  OBVIOUS
<1>2. PICK x \in T : \A y \in T : x <= y
  <2> HIDE DEF T
  <2> QED BY <1>1, NatMin
<1>3. x # 0 /\ x - 1 \in 0..n /\ x - 1 \notin T
  BY <1>2
<1> QED BY <1>2, <1>3

\* What the tree is.
LEMMA ParentIs ==
  ASSUME NEW b \in Blk, b # Genesis
  PROVE  /\ previous[b] \in Blk /\ Ancestry[b] = {b} \cup Ancestry[previous[b]]
         /\ num[b] = num[previous[b]] + 1 /\ timestamp[b] > timestamp[previous[b]]
BY TreeAssumption

\* Numbers and times are numbers.
LEMMA NumType ==
  ASSUME NEW b \in Blk
  PROVE  num[b] \in Nat /\ timestamp[b] \in Nat /\ b \in Nat /\ claim[b].block_num \in Nat
BY TreeAssumption

\* Induction from the genesis block up.
LEMMA TreeInduction ==
  ASSUME NEW S \in SUBSET Blk, Genesis \in S, \A b \in Blk \ {Genesis} : previous[b] \in S => b \in S
  PROVE  \A b \in Blk : b \in S
<1> DEFINE T == {num[b] : b \in Blk \ S}
<1> SUFFICES ASSUME NEW a \in Blk, a \notin S PROVE FALSE
  OBVIOUS
<1>1. T \in SUBSET Nat /\ T # {}
  BY NumType
<1>2. PICK x \in T : \A y \in T : x <= y
  <2> HIDE DEF T
  <2> QED BY <1>1, NatMin
<1>3. PICK b \in Blk \ S : x = num[b]
  BY <1>2
<1>4. b # Genesis
  BY <1>3
<1>5. previous[b] \in Blk /\ num[b] = num[previous[b]] + 1 /\ num[previous[b]] \in Nat
  BY <1>3, <1>4, ParentIs, NumType
<1>6. previous[b] \in S
  <2> SUFFICES ASSUME previous[b] \notin S PROVE FALSE
    OBVIOUS
  <2>1. num[previous[b]] \in T
    BY <1>5
  <2>2. x <= num[previous[b]]
    BY <1>2, <2>1
  <2> QED BY <1>3, <1>5, <2>2
<1> QED BY <1>3, <1>4, <1>6

\* The ancestors of a block are blocks, older than it but for itself, and built on
\* the genesis block.
LEMMA AncestorsAre ==
  ASSUME NEW b \in Blk
  PROVE  /\ Ancestry[b] \subseteq Blk /\ b \in Ancestry[b] /\ Genesis \in Ancestry[b]
         /\ \A a \in Ancestry[b] : num[a] <= num[b] /\ (num[a] = num[b] => a = b)
<1> DEFINE P(x) == /\ Ancestry[x] \subseteq Blk /\ x \in Ancestry[x] /\ Genesis \in Ancestry[x]
                   /\ \A a \in Ancestry[x] : num[a] <= num[x] /\ (num[a] = num[x] => a = x)
           S == {x \in Blk : P(x)}
<1>1. Genesis \in S
  BY TreeAssumption
<1>2. ASSUME NEW x \in Blk \ {Genesis}, previous[x] \in S PROVE x \in S
  <2>1. /\ previous[x] \in Blk /\ Ancestry[x] = {x} \cup Ancestry[previous[x]] /\ num[x] = num[previous[x]] + 1
    BY ParentIs
  <2>2. P(previous[x])
    BY <1>2
  <2>3. \A a \in Ancestry[previous[x]] : num[a] \in Nat /\ num[a] <= num[previous[x]]
    BY <2>2, NumType
  <2>4. num[previous[x]] \in Nat
    BY <2>1, NumType
  <2>5. P(x)
    BY <2>1, <2>2, <2>3, <2>4
  <2> QED BY <2>5
<1>3. S \in SUBSET Blk
  OBVIOUS
<1> HIDE DEF P
<1>4. b \in S
  <2> HIDE DEF S
  <2> QED BY <1>1, <1>2, <1>3, TreeInduction
<1> QED BY <1>4 DEF P

\* A block's ancestors other than itself are its parent's.
LEMMA ParentsAncestors ==
  ASSUME NEW b \in Blk, NEW a \in Ancestry[b], a # b
  PROVE  b # Genesis /\ previous[b] \in Blk /\ a \in Ancestry[previous[b]]
BY ParentIs, TreeAssumption

\* Ancestors of ancestors are ancestors.
LEMMA AncestorTransitive ==
  ASSUME NEW b \in Blk, NEW a \in Ancestry[b]
  PROVE  Ancestry[a] \subseteq Ancestry[b]
<1> DEFINE S == {x \in Blk : \A y \in Ancestry[x] : Ancestry[y] \subseteq Ancestry[x]}
<1>1. Genesis \in S
  BY TreeAssumption
<1>2. ASSUME NEW x \in Blk \ {Genesis}, previous[x] \in S PROVE x \in S
  BY <1>2, ParentIs
<1>3. S \in SUBSET Blk
  OBVIOUS
<1>4. b \in S
  <2> HIDE DEF S
  <2> QED BY <1>1, <1>2, <1>3, TreeInduction
<1> QED BY <1>4

\* The ancestors of a block are one branch.
LEMMA AncestorLinear ==
  ASSUME NEW b \in Blk, NEW x \in Ancestry[b], NEW y \in Ancestry[b], num[x] <= num[y]
  PROVE  x \in Ancestry[y]
<1> DEFINE S == {z \in Blk : \A u, v \in Ancestry[z] : num[u] <= num[v] => u \in Ancestry[v]}
<1>1. Genesis \in S
  BY TreeAssumption
<1>2. ASSUME NEW z \in Blk \ {Genesis}, previous[z] \in S PROVE z \in S
  <2> SUFFICES ASSUME NEW u \in Ancestry[z], NEW v \in Ancestry[z], num[u] <= num[v] PROVE u \in Ancestry[v]
    OBVIOUS
  <2>1. u = z \/ u \in Ancestry[previous[z]]
    BY ParentIs
  <2>2. v = z \/ v \in Ancestry[previous[z]]
    BY ParentIs
  <2>3. CASE v = z
    BY <2>3
  <2>4. CASE v # z /\ u = z
    <3>1. v \in Blk /\ num[v] <= num[z] /\ num[v] # num[z]
      BY <2>4, AncestorsAre
    <3>2. num[v] \in Nat /\ num[z] \in Nat
      BY <3>1, NumType
    <3> QED BY <2>4, <3>1, <3>2
  <2>5. CASE v # z /\ u # z
    BY <1>2, <2>1, <2>2, <2>5
  <2> QED BY <2>3, <2>4, <2>5
<1>3. S \in SUBSET Blk
  OBVIOUS
<1>4. b \in S
  <2> HIDE DEF S
  <2> QED BY <1>1, <1>2, <1>3, TreeInduction
<1> QED BY <1>4

\* There is one ancestor of each number from the genesis block's.
LEMMA AncestorAtIs ==
  ASSUME NEW b \in Blk, NEW n \in Nat, num[Genesis] <= n, n <= num[b]
  PROVE  AncestorAt(b, n) \in Ancestry[b] /\ num[AncestorAt(b, n)] = n
<1> DEFINE S == {x \in Blk : \A m \in Nat : num[Genesis] <= m /\ m <= num[x] => \E a \in Ancestry[x] : num[a] = m}
<1>1. Genesis \in S
  <2>1. Genesis \in Blk /\ Genesis \in Ancestry[Genesis] /\ num[Genesis] \in Nat
    BY TreeAssumption, NumType
  <2>2. ASSUME NEW m \in Nat, num[Genesis] <= m, m <= num[Genesis] PROVE num[Genesis] = m
    BY <2>1, <2>2
  <2> QED BY <2>1, <2>2
<1>2. ASSUME NEW x \in Blk \ {Genesis}, previous[x] \in S PROVE x \in S
  <2>1. num[previous[x]] \in Nat /\ num[x] = num[previous[x]] + 1 /\ Ancestry[x] = {x} \cup Ancestry[previous[x]]
    BY ParentIs, NumType
  <2> SUFFICES ASSUME NEW m \in Nat, num[Genesis] <= m, m <= num[x] PROVE \E a \in Ancestry[x] : num[a] = m
    OBVIOUS
  <2>2. CASE m = num[x]
    BY <2>1, <2>2
  <2>3. CASE m # num[x]
    <3>1. m <= num[previous[x]]
      BY <2>1, <2>3
    <3> QED BY <1>2, <2>1, <3>1
  <2> QED BY <2>2, <2>3
<1>3. S \in SUBSET Blk
  OBVIOUS
<1>4. b \in S
  <2> HIDE DEF S
  <2> QED BY <1>1, <1>2, <1>3, TreeInduction
<1>5. \E a \in Ancestry[b] : num[a] = n
  BY <1>4
<1> QED BY <1>5 DEF AncestorAt

\* Two ancestors of the same number are the same.
LEMMA AncestorUnique ==
  ASSUME NEW b \in Blk, NEW x \in Ancestry[b], NEW y \in Ancestry[b], num[x] = num[y]
  PROVE  x = y
<1>1. x \in Blk /\ y \in Blk /\ num[x] \in Nat
  BY AncestorsAre, NumType
<1>2. x \in Ancestry[y]
  BY <1>1, AncestorLinear
<1> QED BY <1>1, <1>2, AncestorsAre

-------------------------------------------------------------------------------
(* The inductive invariant.                                                  *)

\* What b's claim makes final is not above the pending irreversible block.
ClaimDone(d, b) ==
  \A x \in Ancestry[previous[b]] \ Ancestry[d.root] :
    claim[b].is_strong_qc /\ num[x] = claim[b].block_num => num[latest_qc_ref(x)] <= num[d.pending]

\* The fork database is one tree: what is in the index is built on the root.
DbInv(d) ==
  /\ d = [root |-> d.root, index |-> d.index, pending |-> d.pending, valid |-> d.valid]
  /\ d.root \in Blk /\ d.index \subseteq Blk /\ IsFiniteSet(d.index)
  /\ \A b \in d.index : b # d.root /\ d.root \in Ancestry[b] /\ get_block(d, previous[b])
  /\ d.pending \in Blk
  /\ \A b \in d.index : ClaimDone(d, b)

\* The root is final by a certificate.  A replay without the fork database's file
\* forgets the certificate.
Final(d) == d.root \in Ancestry[d.pending]

\* The root is where the block log ends, and what the chain database can not undo.
ChainInv(e) ==
  /\ e = [db |-> e.db, head |-> e.head, state |-> e.state, committed |-> e.committed, blog |-> e.blog]
  /\ DbInv(e.db)
  /\ e.head \in Blk /\ e.blog = e.db.root /\ e.committed = e.db.root

\* Blocks each built on the one before, the first on b.
ChainOn(s, b) == \A i \in 1..Len(s) : previous[s[i]] = IF i = 1 THEN b ELSE s[i - 1]

TaskType ==
  [at : {"idle", "apply", "reapply"}, single : BOOLEAN, todo : Seq(Blk), done : Nat, second : Seq(Blk)]

\* The validated blocks are branches from the root.
ValidInv(d) ==
  /\ d.valid \subseteq d.index \cup {d.root}
  /\ \A b \in d.valid : b # d.root => previous[b] \in d.valid
  /\ d.root \in d.valid

\* The head is the end of one of them, or its commit failed and it is built on that end;
\* then the chain database is not at the head.
BranchInv(e) ==
  /\ ValidInv(e.db)
  /\ e.head \in e.db.valid \/ (e.head # Genesis /\ previous[e.head] \in e.db.valid /\ e.state # e.head)

\* The chain database is at the head.
HeadInv(e) == BranchInv(e) /\ e.state = e.head

\* The block that a fork switch pops to.
ForkOf(t) == previous[t.second[1]]

\* What a fork switch has to do: blocks on top of the head and, if they fail, the old
\* branch, which is there as long as nothing above the fork is irreversible.
TaskInv(e, t) ==
  /\ t.at # "idle" => ChainOn(t.todo, e.head) /\ \A i \in 1..Len(t.todo) : t.todo[i] \in e.db.index
  /\ t.single => t.second = <<>>
  /\ t.at = "apply" /\ Switching(t) =>
       /\ ForkOf(t) \in Ancestry[e.head] /\ num[e.head] = num[ForkOf(t)] + t.done
       /\ ChainOn(t.second, ForkOf(t))
       /\ e.db.root \in Ancestry[ForkOf(t)] => \A i \in 1..Len(t.second) : t.second[i] \in e.db.index
       /\ \A i \in 1..Len(t.todo), j \in 1..Len(t.second) : t.todo[i] \notin Ancestry[t.second[j]]

StateInv ==
  /\ ChainInv(c) /\ BranchInv(c) /\ TaskInv(c, task)
  /\ creating \subseteq Blk /\ handles \subseteq Blk
  /\ task \in TaskType /\ (task.at # "idle" => task.todo # <<>>)
  /\ append_fails \in Nat

SyncInv == c.state = c.head /\ ~ lost_sync

ForkInv == StateInv /\ (append_fails = 0 => SyncInv)

\* maybe_switch_forks has nothing left to do.
LEMMA IdleTask ==
  /\ Idle \in TaskType /\ Idle.at = "idle" /\ Idle.single /\ Idle.second = <<>>
  /\ \A f : TaskInv(f, Idle)
<1>1. Idle \in TaskType /\ Idle.at = "idle" /\ Idle.single /\ Idle.second = <<>>
  BY DEF Idle, TaskType
<1>2. ASSUME NEW f PROVE TaskInv(f, Idle)
  BY <1>1 DEF TaskInv
<1> QED BY <1>1, <1>2

-------------------------------------------------------------------------------
(* The operations of the fork database.                                      *)

\* The index has the branch of each of its blocks, down to the root ...
LEMMA IndexHasBranch ==
  ASSUME NEW d, DbInv(d), NEW h \in d.index \cup {d.root}
  PROVE  Ancestry[h] \ Ancestry[d.root] \subseteq d.index /\ d.root \in Ancestry[h]
<1> DEFINE S == {x \in Blk : x \in d.index \cup {d.root} => Ancestry[x] \ Ancestry[d.root] \subseteq d.index}
<1>0. d.root \in Blk /\ d.index \subseteq Blk /\ d.root \in Ancestry[d.root]
  BY AncestorsAre DEF DbInv
<1>1. Genesis \in S
  BY TreeAssumption
<1>2. ASSUME NEW x \in Blk \ {Genesis}, previous[x] \in S PROVE x \in S
  <2>1. Ancestry[x] = {x} \cup Ancestry[previous[x]]
    BY ParentIs
  <2>2. CASE x = d.root
    BY <2>2
  <2>3. CASE x \in d.index
    <3>1. previous[x] \in d.index \cup {d.root}
      BY <2>3 DEF DbInv, get_block
    <3>2. Ancestry[previous[x]] \ Ancestry[d.root] \subseteq d.index
      BY <1>2, <3>1
    <3> QED BY <2>1, <2>3, <3>2
  <2> QED BY <2>2, <2>3
<1>3. S \in SUBSET Blk
  OBVIOUS
<1>4. \A x \in Blk : x \in S
  <2> HIDE DEF S
  <2> QED BY <1>1, <1>2, <1>3, TreeInduction
<1>5. Ancestry[h] \ Ancestry[d.root] \subseteq d.index
  BY <1>0, <1>4
<1>6. d.root \in Ancestry[h]
  BY <1>0 DEF DbInv
<1> QED BY <1>5, <1>6

\* ... and nothing else of it.
LEMMA RootIsBelow ==
  ASSUME NEW d, DbInv(d)
  PROVE  /\ \A x \in Ancestry[d.root] : x \notin d.index
         /\ \A x \in d.index : num[d.root] < num[x] /\ x # Genesis
<1>0. d.root \in Blk /\ d.index \subseteq Blk
  BY DEF DbInv
<1>1. ASSUME NEW x \in d.index PROVE num[d.root] < num[x] /\ x # Genesis
  <2>1. d.root \in Ancestry[x] /\ d.root # x /\ x \in Blk
    BY <1>1 DEF DbInv
  <2>2. num[d.root] <= num[x] /\ num[d.root] # num[x]
    BY <2>1, AncestorsAre
  <2>3. num[d.root] \in Nat /\ num[x] \in Nat
    BY <1>0, <2>1, NumType
  <2> QED BY <2>1, <2>2, <2>3, ParentsAncestors
<1>2. ASSUME NEW x \in Ancestry[d.root], x \in d.index PROVE FALSE
  <2>1. num[x] <= num[d.root] /\ num[x] \in Nat /\ num[d.root] \in Nat
    BY <1>0, <1>2, AncestorsAre, NumType
  <2> QED BY <1>1, <1>2, <2>1
<1> QED BY <1>1, <1>2

\* Walking down from a block of the tree finds the blocks above the root.
LEMMA WalkIs ==
  ASSUME NEW d, DbInv(d), NEW h \in Blk
  PROVE  /\ Walk(d.index, h) \subseteq Ancestry[h] \cap d.index
         /\ h \in d.index => Walk(d.index, h) = Ancestry[h] \ Ancestry[d.root]
         /\ h \notin d.index => Walk(d.index, h) = {}
<1>1. Walk(d.index, h) \subseteq Ancestry[h] \cap d.index
  <2> SUFFICES ASSUME NEW b \in Walk(d.index, h) PROVE b \in Ancestry[h] /\ b \in d.index
    OBVIOUS
  <2>1. b \in Ancestry[h] /\ \A x \in Ancestry[h] : num[x] >= num[b] => x \in d.index
    BY DEF Walk
  <2>2. num[b] \in Nat
    BY <2>1, AncestorsAre, NumType
  <2> QED BY <2>1, <2>2
<1>2. ASSUME h \notin d.index PROVE Walk(d.index, h) = {}
  <2>1. h \in Ancestry[h] /\ num[h] \in Nat
    BY AncestorsAre, NumType
  <2>2. \A b \in Ancestry[h] : num[b] \in Nat /\ num[b] <= num[h]
    BY AncestorsAre, NumType
  <2> QED BY <1>2, <2>1, <2>2 DEF Walk
<1>3. ASSUME h \in d.index PROVE Walk(d.index, h) = Ancestry[h] \ Ancestry[d.root]
  <2>1. \A b \in Blk : num[b] \in Nat
    BY NumType
  <2>2. Ancestry[h] \ Ancestry[d.root] \subseteq d.index
    BY <1>3, IndexHasBranch
  <2>3. \A x \in Ancestry[d.root] : x \notin d.index
    BY RootIsBelow
  <2>4. d.root \in Ancestry[h] /\ d.root \in Blk
    BY <1>3 DEF DbInv
  <2>5. ASSUME NEW b \in Ancestry[h], b \notin Ancestry[d.root], NEW x \in Ancestry[h], num[x] >= num[b]
        PROVE  x \in d.index
    <3>1. x \notin Ancestry[d.root]
      <4> SUFFICES ASSUME x \in Ancestry[d.root] PROVE FALSE
        OBVIOUS
      <4>1. b \in Ancestry[x]
        BY <2>1, <2>5, AncestorLinear, AncestorsAre
      <4>2. Ancestry[x] \subseteq Ancestry[d.root]
        BY <2>4, AncestorTransitive
      <4> QED BY <2>5, <4>1, <4>2
    <3> QED BY <2>2, <3>1
  <2>6. Walk(d.index, h) \subseteq d.index
    BY <1>1
  <2> QED BY <1>1, <2>3, <2>5, <2>6 DEF Walk
<1> QED BY <1>1, <1>2, <1>3

\* The block that a block's core claims a QC on is one of its ancestors.
LEMMA ClaimedIsAncestor ==
  ASSUME NEW b \in Blk
  PROVE  latest_qc_ref(b) \in Ancestry[b] /\ num[latest_qc_ref(b)] = claim[b].block_num
<1>1. \E a \in Ancestry[b] : num[a] = claim[b].block_num
  BY TreeAssumption
<1> QED BY <1>1 DEF latest_qc_ref, AncestorAt

\* add finds the block that the new block claims, if it is above the root.
LEMMA ClaimFound ==
  ASSUME NEW d, DbInv(d), NEW n \in Blk, Linkable(d, n), NEW claimed,
         claimed = search_on_branch(d, previous[n], claim[n].block_num)
  PROVE  /\ \A x \in claimed : x \in Ancestry[previous[n]] \ Ancestry[d.root] /\ num[x] = claim[n].block_num /\ x \in d.index
         /\ \A x \in Ancestry[previous[n]] \ Ancestry[d.root] :
              num[x] = claim[n].block_num => \A y \in claimed : y = x
         /\ \A x \in Ancestry[previous[n]] \ Ancestry[d.root] : num[x] = claim[n].block_num => x \in claimed
<1>1. previous[n] \in d.index \cup {d.root} /\ previous[n] \in Blk /\ d.root \in Blk /\ d.root \in Ancestry[previous[n]]
  <2>1. previous[n] \in d.index \cup {d.root}
    BY DEF Linkable, get_block
  <2> QED BY <2>1, IndexHasBranch DEF DbInv
<1>2. /\ Walk(d.index, previous[n]) \subseteq Ancestry[previous[n]] \cap d.index
      /\ previous[n] \in d.index => Walk(d.index, previous[n]) = Ancestry[previous[n]] \ Ancestry[d.root]
  BY <1>1, WalkIs
<1>3. \A x \in claimed : x \in Ancestry[previous[n]] \ Ancestry[d.root] /\ num[x] = claim[n].block_num /\ x \in d.index
  BY <1>2, RootIsBelow DEF search_on_branch
<1>4. ASSUME NEW x \in Ancestry[previous[n]] \ Ancestry[d.root], num[x] = claim[n].block_num PROVE x \in claimed
  <2>1. x \in Walk(d.index, previous[n])
    BY <1>1, <1>2
  <2>2. num[x] \in Nat /\ num[d.root] \in Nat
    BY <1>1, AncestorsAre, NumType
  <2>3. ~ (num[x] <= num[d.root])
    BY <1>1, AncestorLinear
  <2>4. claim[n].block_num > num[d.root]
    BY <1>4, <2>2, <2>3
  <2> QED BY <1>4, <2>1, <2>4 DEF search_on_branch
<1>5. ASSUME NEW x \in Ancestry[previous[n]] \ Ancestry[d.root], num[x] = claim[n].block_num, NEW y \in claimed PROVE y = x
  BY <1>1, <1>3, <1>5, AncestorUnique
<1> QED BY <1>3, <1>4, <1>5

\* add: the tree grows by one block, and what its claim makes final becomes pending.
LEMMA AddIs ==
  ASSUME NEW d, DbInv(d), NEW n \in Blk, Linkable(d, n), NEW r, r = add(d, n)
  PROVE  /\ DbInv(r) /\ (Final(d) => Final(r))
         /\ r.root = d.root /\ r.index = d.index \cup {n} /\ r.valid = d.valid
         /\ ClaimDone(d, n) => r.pending = d.pending
<1>1. /\ d = [root |-> d.root, index |-> d.index, pending |-> d.pending, valid |-> d.valid]
      /\ d.root \in Blk /\ d.index \subseteq Blk /\ IsFiniteSet(d.index)
      /\ \A b \in d.index : b # d.root /\ d.root \in Ancestry[b] /\ get_block(d, previous[b])
      /\ d.pending \in Blk /\ num[d.pending] \in Nat
      /\ \A b \in d.index : ClaimDone(d, b)
  BY NumType DEF DbInv
<1>2. previous[n] \in d.index \cup {d.root} /\ previous[n] \in Blk /\ n # Genesis
  BY <1>1, TreeAssumption DEF Linkable, get_block
<1>3. n # d.root /\ d.root \in Ancestry[n]
  <2>1. d.root \in Ancestry[previous[n]]
    BY <1>2, IndexHasBranch
  <2>2. num[d.root] <= num[previous[n]] /\ num[n] = num[previous[n]] + 1 /\ Ancestry[n] = {n} \cup Ancestry[previous[n]]
    BY <1>2, <2>1, AncestorsAre, ParentIs
  <2>3. num[d.root] \in Nat /\ num[previous[n]] \in Nat
    BY <1>1, <1>2, NumType
  <2> QED BY <2>1, <2>2, <2>3
<1> DEFINE Higher(q) == \A x \in Ancestry[previous[n]] \ Ancestry[d.root] :
                          claim[n].is_strong_qc /\ num[x] = claim[n].block_num => num[latest_qc_ref(x)] <= num[q]
<1>4. PICK q \in Blk : /\ Final(d) => d.root \in Ancestry[q]
                       /\ num[d.pending] <= num[q] /\ Higher(q)
                       /\ ClaimDone(d, n) => q = d.pending
                       /\ WithClaim(d, n) = [root |-> d.root, index |-> d.index, pending |-> q, valid |-> d.valid]
  <2>0. PICK claimed : claimed = search_on_branch(d, previous[n], claim[n].block_num)
    OBVIOUS
  <2>1. /\ \A x \in claimed : x \in Ancestry[previous[n]] \ Ancestry[d.root] /\ num[x] = claim[n].block_num /\ x \in d.index
        /\ \A x \in Ancestry[previous[n]] \ Ancestry[d.root] :
             num[x] = claim[n].block_num => \A y \in claimed : y = x
        /\ \A x \in Ancestry[previous[n]] \ Ancestry[d.root] : num[x] = claim[n].block_num => x \in claimed
    BY <2>0, ClaimFound
  <2>2. CASE ~ claim[n].is_strong_qc \/ claimed = {}
    <3>1. WithClaim(d, n) = d
      BY <2>0, <2>2 DEF WithClaim
    <3>2. Higher(d.pending)
      BY <2>1, <2>2
    <3> QED BY <1>1, <3>1, <3>2 DEF Final
  <2>3. CASE claim[n].is_strong_qc /\ claimed # {}
    <3>1. PICK x : x = CHOOSE y \in claimed : TRUE
      OBVIOUS
    <3>2. x \in claimed
      BY <2>3, <3>1
    <3>3. PICK q : q = latest_qc_ref(x)
      OBVIOUS
    <3>4. x \in Blk /\ q \in Ancestry[x] /\ q \in Blk /\ num[q] \in Nat
      BY <1>1, <2>1, <3>2, <3>3, ClaimedIsAncestor, AncestorsAre, NumType
    <3>5. \A y \in Ancestry[previous[n]] \ Ancestry[d.root] : num[y] = claim[n].block_num => y = x
      BY <2>1, <3>2
    <3>6. WithClaim(d, n) = set_pending(d, q)
      BY <2>0, <2>3, <3>1, <3>3 DEF WithClaim
    <3>7. CASE num[q] > num[d.pending]
      <4>1. WithClaim(d, n) = [d EXCEPT !.pending = q]
        BY <3>6, <3>7 DEF set_pending
      <4>2. [d EXCEPT !.pending = q] = [root |-> d.root, index |-> d.index, pending |-> q, valid |-> d.valid]
        BY <1>1
      <4>3. ASSUME Final(d) PROVE d.root \in Ancestry[q]
        <5>1. num[d.root] <= num[d.pending] /\ num[d.root] \in Nat
          BY <1>1, <4>3, AncestorsAre, NumType DEF Final
        <5>2. num[d.root] <= num[q]
          BY <1>1, <3>4, <3>7, <5>1
        <5>3. d.root \in Ancestry[x]
          BY <1>1, <2>1, <3>2
        <5> QED BY <3>4, <5>2, <5>3, AncestorLinear
      <4>4. Higher(q)
        BY <3>3, <3>4, <3>5
      <4>5. ~ ClaimDone(d, n)
        <5>1. x \in Ancestry[previous[n]] \ Ancestry[d.root] /\ num[x] = claim[n].block_num
          BY <2>1, <3>2
        <5>2. ~ (num[q] <= num[d.pending])
          BY <1>1, <3>4, <3>7
        <5> QED BY <2>3, <3>3, <5>1, <5>2 DEF ClaimDone
      <4>6. num[d.pending] <= num[q]
        BY <1>1, <3>4, <3>7
      <4> QED BY <3>4, <4>1, <4>2, <4>3, <4>4, <4>5, <4>6
    <3>8. CASE ~ (num[q] > num[d.pending])
      <4>1. WithClaim(d, n) = d
        BY <3>6, <3>8 DEF set_pending
      <4>2. num[q] <= num[d.pending]
        BY <1>1, <3>4, <3>8
      <4>3. Higher(d.pending)
        BY <3>3, <3>5, <4>2
      <4> QED BY <1>1, <4>1, <4>3 DEF Final
    <3> QED BY <3>7, <3>8
  <2> QED BY <2>2, <2>3
<1>5. r = [root |-> d.root, index |-> d.index \cup {n}, pending |-> q, valid |-> d.valid]
  <2>1. PICK w : w = WithClaim(d, n)
    OBVIOUS
  <2>2. w = [root |-> d.root, index |-> d.index, pending |-> q, valid |-> d.valid]
    BY <1>4, <2>1
  <2>3. r = [w EXCEPT !.index = w.index \cup {n}]
    BY <2>1 DEF add
  <2>4. w.index = d.index
    BY <2>2
  <2> QED BY <2>2, <2>3, <2>4
<1>6. IsFiniteSet(d.index \cup {n})
  BY <1>1, FS_AddElement
<1>7. r.root = d.root /\ r.index = d.index \cup {n} /\ r.pending = q /\ r.valid = d.valid
  BY <1>5
<1>8. \A b \in r.index : b # r.root /\ r.root \in Ancestry[b] /\ get_block(r, previous[b])
  <2>1. n # r.root /\ r.root \in Ancestry[n] /\ get_block(r, previous[n])
    BY <1>2, <1>3, <1>7 DEF get_block
  <2>2. ASSUME NEW b \in d.index PROVE b # r.root /\ r.root \in Ancestry[b] /\ get_block(r, previous[b])
    BY <1>1, <1>7, <2>2 DEF get_block
  <2> QED BY <1>7, <2>1, <2>2
<1>9. \A b \in r.index : ClaimDone(r, b)
  <2>1. ClaimDone(r, n)
    BY <1>4, <1>7 DEF ClaimDone
  <2>2. ASSUME NEW b \in d.index PROVE ClaimDone(r, b)
    <3> SUFFICES ASSUME NEW x \in Ancestry[previous[b]] \ Ancestry[d.root],
                        claim[b].is_strong_qc, num[x] = claim[b].block_num
                 PROVE  num[latest_qc_ref(x)] <= num[q]
      BY <1>7 DEF ClaimDone
    <3>1. num[latest_qc_ref(x)] <= num[d.pending]
      BY <1>1, <2>2 DEF ClaimDone
    <3>2. num[latest_qc_ref(x)] \in Nat /\ num[q] \in Nat
      <4>1. previous[b] \in Blk /\ x \in Blk
        BY <1>1, <2>2, AncestorsAre DEF get_block
      <4> QED BY <4>1, ClaimedIsAncestor, AncestorsAre, NumType
    <3> QED BY <1>1, <1>4, <3>1, <3>2
  <2> QED BY <1>7, <2>1, <2>2
<1>10. DbInv(r)
  BY <1>1, <1>5, <1>6, <1>7, <1>8, <1>9 DEF DbInv
<1> QED BY <1>4, <1>7, <1>10 DEF Final

\* remove: the block goes, and what is built on it.
LEMMA RemoveIs ==
  ASSUME NEW d, DbInv(d), NEW b \in Blk, NEW r, r = remove(d, b)
  PROVE  /\ DbInv(r)
         /\ r.root = d.root /\ r.pending = d.pending /\ r.index \subseteq d.index
         /\ \A x \in d.index : b \notin Ancestry[x] => x \in r.index
         /\ r.valid = d.valid \cap (r.index \cup {r.root})
<1>1. /\ d = [root |-> d.root, index |-> d.index, pending |-> d.pending, valid |-> d.valid]
      /\ d.root \in Blk /\ d.index \subseteq Blk /\ IsFiniteSet(d.index)
      /\ \A x \in d.index : x # d.root /\ d.root \in Ancestry[x] /\ get_block(d, previous[x])
      /\ d.pending \in Blk /\ \A x \in d.index : ClaimDone(d, x)
  BY DEF DbInv
<1> DEFINE Goes(x) == b \in Ancestry[x] /\ \A y \in Ancestry[x] : num[y] > num[b] => y \in d.index
           left == {x \in d.index : ~ Goes(x)}
<1>2. Without(d.index, {b}) = left
  BY DEF Without
<1>3. r = [root |-> d.root, index |-> left, pending |-> d.pending, valid |-> d.valid \cap (left \cup {d.root})]
  BY <1>1, <1>2 DEF remove, Shrink
<1>4. r.root = d.root /\ r.index = left /\ r.pending = d.pending /\ r.valid = d.valid \cap (left \cup {d.root})
  BY <1>3
<1>5. left \in SUBSET d.index
  OBVIOUS
<1>6. IsFiniteSet(left)
  <2> HIDE DEF left
  <2> QED BY <1>1, <1>5, FS_Subset
<1>7. \A x \in left : x # d.root /\ d.root \in Ancestry[x] /\ get_block(r, previous[x])
  <2> SUFFICES ASSUME NEW x \in left PROVE get_block(r, previous[x])
    BY <1>1
  <2>1. previous[x] \in d.index \cup {d.root} /\ x # Genesis /\ x \in Blk
    BY <1>1, RootIsBelow DEF get_block
  <2>2. Ancestry[x] = {x} \cup Ancestry[previous[x]]
    BY <2>1, ParentIs
  <2>3. Goes(previous[x]) => Goes(x)
    BY <2>2
  <2> QED BY <1>4, <2>1, <2>3 DEF get_block
<1>8. DbInv(r)
  <2>1. \A x \in left : ClaimDone(r, x)
    BY <1>1, <1>4 DEF ClaimDone
  <2> HIDE DEF left
  <2> QED BY <1>1, <1>3, <1>4, <1>5, <1>6, <1>7, <2>1 DEF DbInv
<1>9. \A x \in d.index : b \notin Ancestry[x] => x \in left
  OBVIOUS
<1> HIDE DEF left
<1> QED BY <1>4, <1>5, <1>8, <1>9

\* advance_root: what is built on the new root stays.
LEMMA AdvanceIs ==
  ASSUME NEW d, DbInv(d), NEW b \in d.index, NEW r, r = advance_root(d, b)
  PROVE  /\ DbInv(r) /\ r.pending = d.pending
         /\ r.root = b /\ r.index = {x \in d.index : b \in Ancestry[x] /\ x # b}
         /\ r.valid = d.valid \cap (r.index \cup {b})
<1>1. /\ d = [root |-> d.root, index |-> d.index, pending |-> d.pending, valid |-> d.valid]
      /\ d.root \in Blk /\ d.index \subseteq Blk /\ IsFiniteSet(d.index)
      /\ \A x \in d.index : x # d.root /\ d.root \in Ancestry[x] /\ get_block(d, previous[x])
      /\ d.pending \in Blk /\ b \in Blk /\ \A x \in d.index : ClaimDone(d, x)
  BY DEF DbInv
<1> DEFINE left == {x \in d.index : b \in Ancestry[x] /\ x # b}
<1>2. Without(d.index \ {b}, Ancestry[b] \ {b}) = left
  <2>1. ASSUME NEW x \in d.index, x # b, b \in Ancestry[x], NEW y \in (Ancestry[b] \ {b}) \cap Ancestry[x]
        PROVE  \E z \in Ancestry[x] : num[z] > num[y] /\ z \notin d.index \ {b}
    <3>1. num[y] <= num[b] /\ num[y] # num[b] /\ num[y] \in Nat /\ num[b] \in Nat
      BY <1>1, <2>1, AncestorsAre, NumType
    <3> QED BY <2>1, <3>1
  <2>2. ASSUME NEW x \in d.index, x # b, b \notin Ancestry[x]
        PROVE  \E y \in (Ancestry[b] \ {b}) \cap Ancestry[x] :
                 \A z \in Ancestry[x] : num[z] > num[y] => z \in d.index \ {b}
    \* the root is such an ancestor
    <3>1. d.root \in Ancestry[b] /\ d.root \in Ancestry[x] /\ d.root # b /\ x \in Blk
      BY <1>1, <2>2
    <3>2. ASSUME NEW z \in Ancestry[x], num[z] > num[d.root] PROVE z \in d.index \ {b}
      <4>1. z \notin Ancestry[d.root]
        <5>1. num[z] \in Nat /\ num[d.root] \in Nat /\ \A y \in Ancestry[d.root] : num[y] <= num[d.root]
          BY <1>1, <3>1, AncestorsAre, NumType
        <5> QED BY <3>2, <5>1
      <4>2. z \in d.index
        BY <2>2, <3>1, <4>1, IndexHasBranch
      <4> QED BY <2>2, <4>2
    <3> QED BY <3>1, <3>2
  <2> QED BY <2>1, <2>2 DEF Without
<1>3. r = [root |-> b, index |-> left, pending |-> d.pending, valid |-> d.valid \cap (left \cup {b})]
  BY <1>1, <1>2 DEF advance_root, Shrink
<1>4. r.root = b /\ r.index = left /\ r.pending = d.pending /\ r.valid = d.valid \cap (left \cup {b})
  BY <1>3
<1>5. left \in SUBSET d.index
  OBVIOUS
<1>6. IsFiniteSet(left)
  <2> HIDE DEF left
  <2> QED BY <1>1, <1>5, FS_Subset
<1>7. \A x \in left : x # b /\ b \in Ancestry[x] /\ get_block(r, previous[x])
  <2> SUFFICES ASSUME NEW x \in left PROVE get_block(r, previous[x])
    BY <1>1
  <2>1. previous[x] \in d.index \cup {d.root} /\ x # Genesis /\ x \in Blk
    BY <1>1, RootIsBelow DEF get_block
  <2>2. b \in Ancestry[previous[x]]
    BY <2>1, ParentsAncestors
  <2>3. previous[x] # d.root
    BY <2>2, RootIsBelow
  <2> QED BY <1>4, <2>1, <2>2, <2>3 DEF get_block
<1>8. DbInv(r)
  <2>1. Ancestry[d.root] \subseteq Ancestry[b]
    BY <1>1, AncestorTransitive
  <2>2. \A x \in left : ClaimDone(r, x)
    BY <1>1, <1>4, <2>1 DEF ClaimDone
  <2> HIDE DEF left
  <2> QED BY <1>1, <1>3, <1>4, <1>5, <1>6, <1>7, <2>2 DEF DbInv
<1> QED BY <1>4, <1>8

\* The head descends from the root.
LEMMA RootBelowHead ==
  ASSUME NEW e, ChainInv(e), BranchInv(e)
  PROVE  e.db.root \in Ancestry[e.head]
<1>1. DbInv(e.db) /\ e.head \in Blk /\ e.db.valid \subseteq e.db.index \cup {e.db.root}
  BY DEF ChainInv, BranchInv, ValidInv
<1>2. CASE e.head \in e.db.valid
  BY <1>1, <1>2, IndexHasBranch
<1>3. CASE e.head # Genesis /\ previous[e.head] \in e.db.valid
  <2>1. e.db.root \in Ancestry[previous[e.head]]
    BY <1>1, <1>3, IndexHasBranch
  <2> QED BY <1>1, <1>3, <2>1, ParentIs
<1> QED BY <1>2, <1>3 DEF BranchInv

-------------------------------------------------------------------------------
(* log_irreversible.                                                         *)

\* What is made irreversible is validated, on the branch of the head and of the
\* pending block.
LEMMA ToProcessIs ==
  ASSUME NEW e, ChainInv(e), NEW x \in ToProcess(e)
  PROVE  x \in e.db.index /\ x \in Ancestry[e.head] /\ x \in Ancestry[e.db.pending] /\ x \in e.db.valid
<1>1. DbInv(e.db) /\ e.head \in Blk
  BY DEF ChainInv
<1>2. /\ x \in fetch_branch(e.db, e.head, e.db.pending)
      /\ \A a \in fetch_branch(e.db, e.head, e.db.pending) : num[a] <= num[x] => a \in e.db.valid
  BY DEF ToProcess
<1>3. x \in Walk(e.db.index, e.head) /\ e.db.pending \in Walk(e.db.index, e.head) /\ num[x] <= num[e.db.pending]
  BY <1>2 DEF fetch_branch
<1>4. x \in Ancestry[e.head] /\ x \in e.db.index /\ e.db.pending \in Ancestry[e.head]
  BY <1>1, <1>3, WalkIs
<1>5. x \in Ancestry[e.db.pending]
  BY <1>1, <1>3, <1>4, AncestorLinear
<1>6. num[x] \in Nat
  BY <1>1, <1>4, AncestorsAre, NumType
<1> QED BY <1>2, <1>4, <1>5, <1>6

\* Among the ancestors of a block there is a highest one.
LEMMA HighestIs ==
  ASSUME NEW h \in Blk, NEW S \in SUBSET Ancestry[h], S # {}, NEW default
  PROVE  Highest(S, default) \in S /\ \A a \in S : num[a] <= num[Highest(S, default)]
<1> DEFINE T == {num[h] - num[a] : a \in S}
<1>1. \A a \in S : num[a] \in Nat /\ num[a] <= num[h] /\ num[h] \in Nat
  BY AncestorsAre, NumType
<1>2. T \in SUBSET Nat /\ T # {}
  BY <1>1
<1>3. PICK x \in T : \A y \in T : x <= y
  <2> HIDE DEF T
  <2> QED BY <1>2, NatMin
<1>4. PICK b \in S : x = num[h] - num[b]
  BY <1>3
<1>5. \A a \in S : num[a] <= num[b]
  <2> SUFFICES ASSUME NEW a \in S PROVE num[a] <= num[b]
    OBVIOUS
  <2>1. x <= num[h] - num[a]
    BY <1>3
  <2> QED BY <1>1, <1>4, <2>1
<1> QED BY <1>4, <1>5 DEF Highest

\* What log_irreversible does, whether or not an append throws half way: the root, the
\* block log and the chain database move together, or not at all.
Logged(e, r) ==
  \/ r = e
  \/ \E b \in ToProcess(e) :
       r = [db |-> advance_root(e.db, b), head |-> e.head, state |-> e.state, committed |-> b, blog |-> b]

\* It does no more than that.
LEMMA LogIs ==
  ASSUME NEW e, ChainInv(e), NEW r, r = log_irreversible(e) \/ r \in FailedLogs(e)
  PROVE  Logged(e, r)
<1>1. /\ e = [db |-> e.db, head |-> e.head, state |-> e.state, committed |-> e.committed, blog |-> e.blog]
      /\ e.head \in Blk /\ e.blog = e.db.root /\ e.committed = e.db.root
  BY DEF ChainInv
<1>2. ToProcess(e) \in SUBSET Ancestry[e.head]
  BY ToProcessIs
<1>3. CASE ToProcess(e) = {}
  BY <1>3 DEF log_irreversible, FailedLogs, Logged
<1>4. CASE ToProcess(e) # {} /\ r = log_irreversible(e)
  <2>1. PICK b \in ToProcess(e) : Highest(ToProcess(e), e.blog) = b
    BY <1>1, <1>2, <1>4, HighestIs
  <2>4. r = [e EXCEPT !.blog = b, !.committed = b, !.db = advance_root(@, b)]
    BY <1>4, <2>1 DEF log_irreversible
  <2>5. r = [db |-> advance_root(e.db, b), head |-> e.head, state |-> e.state, committed |-> b, blog |-> b]
    BY <1>1, <2>4
  <2> QED BY <2>5 DEF Logged
<1>5. CASE ToProcess(e) # {} /\ r \in FailedLogs(e)
  <2>1. PICK last \in ToProcess(e) \cup {e.db.root} : r = AfterFailure(e, last)
    BY <1>5 DEF FailedLogs
  <2>2. CASE last = e.db.root
    <3>1. r = [e EXCEPT !.blog = last, !.committed = last, !.db = e.db]
      BY <2>1, <2>2 DEF AfterFailure
    <3>2. r = e
      BY <1>1, <2>2, <3>1
    <3> QED BY <3>2 DEF Logged
  <2>3. CASE last # e.db.root
    <3>1. r = [e EXCEPT !.blog = last, !.committed = last, !.db = advance_root(e.db, last)]
      BY <2>1, <2>3 DEF AfterFailure
    <3>2. r = [db |-> advance_root(e.db, last), head |-> e.head, state |-> e.state, committed |-> last, blog |-> last]
      BY <1>1, <3>1
    <3> QED BY <2>1, <2>3, <3>2 DEF Logged
  <2> QED BY <2>2, <2>3
<1> QED BY <1>3, <1>4, <1>5

\* What is irreversible in e is irreversible in r, and final as far as it was.
Onward(e, r) == e.db.root \in Ancestry[r.db.root] /\ (Final(e.db) => Final(r.db))

\* It is so while the root stays.
LEMMA OnwardSame ==
  ASSUME NEW e, ChainInv(e), NEW r, r.db.root = e.db.root, r.db.pending = e.db.pending
  PROVE  Onward(e, r)
BY AncestorsAre DEF ChainInv, DbInv, Onward, Final

\* It stays so step by step.
LEMMA OnwardTransitive ==
  ASSUME NEW e, NEW f, NEW r, ChainInv(r), Onward(e, f), Onward(f, r)
  PROVE  Onward(e, r)
<1>1. r.db.root \in Blk
  BY DEF ChainInv, DbInv
<1> QED BY <1>1, AncestorTransitive DEF Onward

\* And that keeps the tree and the validated branch; it keeps what is built on the new root.
LEMMA LoggedInv ==
  ASSUME NEW e, ChainInv(e), NEW r, Logged(e, r)
  PROVE  /\ ChainInv(r) /\ r.head = e.head /\ r.state = e.state
         /\ Onward(e, r)
         /\ r.db.index = {x \in e.db.index : r.db.root \in Ancestry[x] /\ x # r.db.root}
         /\ BranchInv(e) => BranchInv(r)
<1>1. DbInv(e.db) /\ e.head \in Blk /\ e.blog = e.db.root /\ e.committed = e.db.root
  BY DEF ChainInv
<1>2. /\ e.db.root \in Blk /\ e.db.index \subseteq Blk
      /\ \A b \in e.db.index : b # e.db.root /\ e.db.root \in Ancestry[b] /\ get_block(e.db, previous[b])
  BY <1>1 DEF DbInv
<1>3. CASE r = e
  BY <1>2, <1>3, OnwardSame
<1>4. ASSUME NEW b \in ToProcess(e),
             r = [db |-> advance_root(e.db, b), head |-> e.head, state |-> e.state, committed |-> b, blog |-> b]
      PROVE  /\ ChainInv(r) /\ r.head = e.head /\ r.state = e.state
             /\ Onward(e, r)
             /\ r.db.index = {x \in e.db.index : r.db.root \in Ancestry[x] /\ x # r.db.root}
             /\ BranchInv(e) => BranchInv(r)
  <2>1. b \in e.db.index /\ b \in Ancestry[e.head] /\ b \in Ancestry[e.db.pending] /\ b \in e.db.valid
    BY ToProcessIs
  <2>2. r.db = advance_root(e.db, b) /\ r.head = e.head /\ r.state = e.state /\ r.committed = b /\ r.blog = b
    BY <1>4
  <2>3. /\ DbInv(r.db) /\ r.db.root = b /\ r.db.pending = e.db.pending
        /\ r.db.index = {x \in e.db.index : b \in Ancestry[x] /\ x # b}
        /\ r.db.valid = e.db.valid \cap (r.db.index \cup {b})
    BY <1>1, <2>1, <2>2, AdvanceIs
  <2>4. ChainInv(r)
    BY <1>1, <1>4, <2>2, <2>3 DEF ChainInv
  <2>5. Onward(e, r)
    BY <1>2, <2>1, <2>3 DEF Onward, Final
  <2>6. ASSUME BranchInv(e) PROVE BranchInv(r)
    \* what is validated and built on b, stays so
    <3>1. ASSUME NEW x \in e.db.valid, b \in Ancestry[x] PROVE x \in r.db.valid
      <4>1. x \in e.db.index \cup {e.db.root}
        BY <2>6, <3>1 DEF BranchInv, ValidInv
      <4>2. x # e.db.root
        BY <1>1, <2>1, <3>1, RootIsBelow
      <4> QED BY <2>3, <3>1, <4>1, <4>2
    <3>2. ASSUME NEW x \in r.db.valid, x # b PROVE previous[x] \in r.db.valid
      <4>1. x \in e.db.valid /\ x \in e.db.index /\ b \in Ancestry[x]
        BY <2>3, <3>2
      <4>2. previous[x] \in e.db.valid
        BY <1>2, <2>6, <4>1 DEF BranchInv, ValidInv
      <4>3. b \in Ancestry[previous[x]]
        BY <1>2, <3>2, <4>1, ParentsAncestors
      <4> QED BY <3>1, <4>2, <4>3
    <3>3. ValidInv(r.db)
      BY <2>1, <2>3, <3>2 DEF ValidInv
    <3>4. CASE e.head \in e.db.valid
      BY <2>1, <2>2, <3>1, <3>3, <3>4 DEF BranchInv
    <3>5. CASE e.head \notin e.db.valid
      <4>1. e.head # Genesis /\ previous[e.head] \in e.db.valid /\ e.state # e.head
        BY <2>6, <3>5 DEF BranchInv
      <4>2. b \in Ancestry[previous[e.head]]
        BY <1>1, <2>1, <3>5, ParentsAncestors
      <4> QED BY <2>2, <3>1, <3>3, <4>1, <4>2 DEF BranchInv
    <3> QED BY <3>4, <3>5
  <2> QED BY <2>2, <2>3, <2>4, <2>5, <2>6
<1> QED BY <1>3, <1>4 DEF Logged

-------------------------------------------------------------------------------
(* Popping blocks.                                                           *)

\* g[i] is the chain after i calls of pop_block.
Pops(e, n, g) ==
  g = [i \in 0..n |-> IF i = 0 THEN e ELSE IF CanPop(g[i - 1]) THEN pop_block(g[i - 1]) ELSE g[i - 1]]

\* There is such a g: a least n without one would extend the one for n - 1.
LEMMA PopsExist ==
  ASSUME NEW e, NEW n \in Nat
  PROVE  \E g : Pops(e, n, g)
<1> DEFINE Step(f) == IF CanPop(f) THEN pop_block(f) ELSE f
           S == {m \in Nat : \E g : Pops(e, m, g)}
<1>1. 0 \in S
  <2>1. PICK g : g = [i \in 0..0 |-> e]
    OBVIOUS
  <2>2. g = [i \in 0..0 |-> IF i = 0 THEN e ELSE IF CanPop(g[i - 1]) THEN pop_block(g[i - 1]) ELSE g[i - 1]]
    BY <2>1
  <2> QED BY <2>2 DEF Pops
<1>2. ASSUME NEW m \in S PROVE m + 1 \in S
  <2>1. PICK g : Pops(e, m, g)
    OBVIOUS
  <2>2. g[0] = e /\ \A i \in 1..m : g[i] = Step(g[i - 1])
    <3> DEFINE G == [i \in 0..m |-> IF i = 0 THEN e ELSE Step(g[i - 1])]
    <3>1. g = G
      BY <2>1 DEF Pops
    <3> HIDE DEF Step
    <3>2. G[0] = e /\ \A i \in 1..m : G[i] = Step(g[i - 1])
      OBVIOUS
    <3> HIDE DEF G
    <3> QED BY <3>1, <3>2
  <2> HIDE DEF Step
  <2>3. PICK h : h = [i \in 0..(m + 1) |-> IF i = m + 1 THEN Step(g[m]) ELSE g[i]]
    OBVIOUS
  <2>4. \A i \in 0..m : h[i] = g[i]
    BY <2>3
  <2>5. \A i \in 0..(m + 1) : h[i] = IF i = 0 THEN e ELSE Step(h[i - 1])
    <3> SUFFICES ASSUME NEW i \in 0..(m + 1) PROVE h[i] = IF i = 0 THEN e ELSE Step(h[i - 1])
      OBVIOUS
    <3>1. CASE i = 0
      BY <2>2, <2>4, <3>1
    <3>2. CASE i = m + 1
      <4>1. h[m] = g[m] /\ h[m + 1] = Step(g[m])
        BY <2>3, <2>4
      <4> QED BY <3>2, <4>1
    <3>3. CASE i # 0 /\ i # m + 1
      <4>1. i \in 1..m /\ i - 1 \in 0..m /\ i \in 0..m
        BY <3>3
      <4>2. h[i] = g[i] /\ h[i - 1] = g[i - 1] /\ g[i] = Step(g[i - 1])
        BY <2>2, <2>4, <4>1
      <4> QED BY <3>3, <4>2
    <3> QED BY <3>1, <3>2, <3>3
  <2>6. h = [i \in 0..(m + 1) |-> IF i = 0 THEN e ELSE Step(h[i - 1])]
    BY <2>3, <2>5
  <2>7. Pops(e, m + 1, h)
    BY <2>6 DEF Pops, Step
  <2> QED BY <2>7
<1>3. S \in SUBSET Nat
  OBVIOUS
<1>4. n \in S
  <2> HIDE DEF S
  <2>1. \A m \in 0..n : m \in S
    BY <1>1, <1>2, <1>3, NumInduction
  <2> QED BY <2>1
<1> QED BY <1>4

\* One call of pop_block.
LEMMA PopOne ==
  ASSUME NEW f, ChainInv(f), CanPop(f), NEW r, r = pop_block(f)
  PROVE  /\ ChainInv(r) /\ r.db = f.db /\ r.head = previous[f.head]
         /\ f.head # Genesis /\ (BranchInv(f) => BranchInv(r)) /\ (HeadInv(f) => HeadInv(r))
<1>1. /\ f = [db |-> f.db, head |-> f.head, state |-> f.state, committed |-> f.committed, blog |-> f.blog]
      /\ DbInv(f.db) /\ f.head \in Blk /\ f.blog = f.db.root /\ f.committed = f.db.root
  BY DEF ChainInv
<1>2. f.head # Genesis /\ previous[f.head] \in f.db.index \cup {f.db.root}
  BY DEF CanPop, get_block
<1>3. previous[f.head] \in Blk
  BY <1>1, <1>2, ParentIs
<1>4. r = [db |-> f.db, head |-> previous[f.head],
           state |-> IF f.state = f.committed THEN f.state ELSE previous[f.state],
           committed |-> f.committed, blog |-> f.blog]
  BY <1>1 DEF pop_block, Undo
<1>5. /\ r.db = f.db /\ r.head = previous[f.head] /\ r.committed = f.committed /\ r.blog = f.blog
      /\ r.state = IF f.state = f.committed THEN f.state ELSE previous[f.state]
  BY <1>4
<1>6. ChainInv(r)
  BY <1>1, <1>3, <1>4, <1>5 DEF ChainInv
<1>7. f.head # f.db.root
  <2> SUFFICES ASSUME f.head = f.db.root PROVE FALSE
    OBVIOUS
  <2>1. num[f.head] = num[previous[f.head]] + 1 /\ num[previous[f.head]] \in Nat
    BY <1>1, <1>2, <1>3, ParentIs, NumType
  <2>2. previous[f.head] \in f.db.index
    BY <1>2, <2>1
  <2>3. num[f.db.root] < num[previous[f.head]]
    BY <1>1, <2>2, RootIsBelow
  <2> QED BY <2>1, <2>3
<1>8. BranchInv(f) => BranchInv(r)
  BY <1>5, <1>7 DEF BranchInv, ValidInv
<1>9. HeadInv(f) => r.state = r.head
  BY <1>1, <1>5, <1>7 DEF HeadInv
<1> QED BY <1>2, <1>5, <1>6, <1>8, <1>9 DEF HeadInv

\* n calls of it: down the branch of the head, by at most n blocks.
LEMMA PopIs ==
  ASSUME NEW e, ChainInv(e), NEW n \in Nat, NEW f, f = Pop(e, n)
  PROVE  /\ ChainInv(f) /\ f.db = e.db /\ f.head \in Ancestry[e.head] /\ (BranchInv(e) => BranchInv(f)) /\ (HeadInv(e) => HeadInv(f))
<1>1. PICK g : g = CHOOSE h : Pops(e, n, h)
  OBVIOUS
<1>2. Pops(e, n, g)
  BY <1>1, PopsExist
<1>3. f = g[n]
  BY <1>1 DEF Pop, Pops
<1> DEFINE Step(x) == IF CanPop(x) THEN pop_block(x) ELSE x
<1>4. g[0] = e /\ \A i \in 0..(n - 1) : g[i + 1] = Step(g[i])
  <2> DEFINE G == [i \in 0..n |-> IF i = 0 THEN e ELSE Step(g[i - 1])]
  <2>1. g = G
    BY <1>2 DEF Pops
  <2> HIDE DEF Step
  <2>2. G[0] = e /\ \A i \in 0..(n - 1) : G[i + 1] = Step(g[i])
    OBVIOUS
  <2> HIDE DEF G
  <2> QED BY <2>1, <2>2
<1> DEFINE P(x) == /\ ChainInv(x) /\ x.db = e.db /\ x.head \in Ancestry[e.head]
                   /\ (BranchInv(e) => BranchInv(x)) /\ (HeadInv(e) => HeadInv(x))
           S == {i \in 0..n : P(g[i])}
<1>5. 0 \in S
  <2>1. e.head \in Ancestry[e.head]
    BY AncestorsAre DEF ChainInv
  <2> QED BY <1>4, <2>1
<1>6. ASSUME NEW m \in S, m < n PROVE m + 1 \in S
  <2>1. m \in 0..(n - 1) /\ m + 1 \in 0..n
    BY <1>6
  <2>2. PICK x : x = g[m]
    OBVIOUS
  <2>3. P(x) /\ g[m + 1] = Step(x)
    BY <1>4, <2>1, <2>2
  <2>4. CASE ~ CanPop(x)
    BY <2>1, <2>3, <2>4
  <2>5. CASE CanPop(x)
    <3>1. PICK r : r = pop_block(x)
      OBVIOUS
    <3>2. /\ ChainInv(r) /\ r.db = x.db /\ r.head = previous[x.head]
          /\ x.head # Genesis /\ (BranchInv(x) => BranchInv(r)) /\ (HeadInv(x) => HeadInv(r))
      BY <2>3, <2>5, <3>1, PopOne
    <3>3. previous[x.head] \in Ancestry[x.head]
      <4>1. x.head \in Blk /\ previous[x.head] \in Blk
        BY <2>3, <3>2 DEF ChainInv
      <4> QED BY <3>2, <4>1, ParentIs, AncestorsAre
    <3>4. Ancestry[x.head] \subseteq Ancestry[e.head]
      BY <2>3, AncestorTransitive DEF ChainInv
    <3>5. P(r)
      BY <2>3, <3>2, <3>3, <3>4
    <3>6. g[m + 1] = r
      BY <2>3, <2>5, <3>1
    <3> QED BY <2>1, <3>5, <3>6
  <2> QED BY <2>4, <2>5
<1>7. S \in SUBSET Nat
  OBVIOUS
<1>8. n \in S
  <2> HIDE DEF S
  <2>1. \A m \in 0..n : m \in S
    BY <1>5, <1>6, <1>7, NumInduction
  <2> QED BY <2>1
<1> HIDE DEF P
<1>9. P(g[n])
  BY <1>8
<1> QED BY <1>3, <1>9 DEF P

-------------------------------------------------------------------------------
(* The best branch, and the two branches of a fork switch.                   *)

\* by_best_branch is a strict total order.
LEMMA BetterOrder ==
  ASSUME NEW x \in Blk, NEW y \in Blk, NEW z \in Blk
  PROVE  /\ x # y => IsBetter(x, y) \/ IsBetter(y, x)
         /\ ~ (IsBetter(x, y) /\ IsBetter(y, x))
         /\ IsBetter(x, y) /\ IsBetter(y, z) => IsBetter(x, z)
<1>1. \A b \in Blk : timestamp[latest_qc_ref(b)] \in Nat /\ timestamp[b] \in Nat /\ b \in Nat
  BY ClaimedIsAncestor, AncestorsAre, NumType
<1> QED BY <1>1 DEF IsBetter

\* So finitely many blocks have a best and a worst.
LEMMA ExtremesExist ==
  ASSUME NEW U \in SUBSET Blk, IsFiniteSet(U), U # {}
  PROVE  /\ \E b \in U : \A x \in U \ {b} : IsBetter(b, x)
         /\ \E b \in U : \A x \in U \ {b} : IsBetter(x, b)
<1> DEFINE HasBest(S) == \E b \in S : \A x \in S \ {b} : IsBetter(b, x)
           HasWorst(S) == \E b \in S : \A x \in S \ {b} : IsBetter(x, b)
           HasBoth(S) == HasBest(S) /\ HasWorst(S)
           T == {n \in Nat : \E S \in SUBSET U : S # {} /\ Cardinality(S) = n /\ ~ HasBoth(S)}
<1> SUFFICES ASSUME ~ HasBoth(U) PROVE FALSE
  OBVIOUS
<1>1. T \in SUBSET Nat /\ T # {}
  <2>1. Cardinality(U) \in Nat
    BY FS_CardinalityType
  <2> HIDE DEF HasBoth
  <2> QED BY <2>1
<1>2. PICK n \in T : \A m \in T : n <= m
  <2> HIDE DEF T
  <2> QED BY <1>1, NatMin
<1>3. PICK S \in SUBSET U : S # {} /\ Cardinality(S) = n /\ ~ HasBoth(S)
  BY <1>2
<1>4. PICK a \in S : TRUE
  BY <1>3
<1>5. IsFiniteSet(S)
  BY FS_Subset
<1>6. IsFiniteSet(S \ {a}) /\ Cardinality(S \ {a}) = n - 1
  BY <1>3, <1>5, FS_RemoveElement
<1>7. n - 1 \in Nat
  BY <1>6, FS_CardinalityType
<1>8. S \ {a} # {}
  <2> SUFFICES ASSUME S \ {a} = {} PROVE FALSE
    OBVIOUS
  <2>1. (\A x \in S \ {a} : IsBetter(a, x)) /\ (\A x \in S \ {a} : IsBetter(x, a))
    OBVIOUS
  <2> QED BY <1>3, <2>1
<1>9. HasBoth(S \ {a})
  <2> SUFFICES ASSUME ~ HasBoth(S \ {a}) PROVE FALSE
    OBVIOUS
  <2>1. S \ {a} \in SUBSET U
    OBVIOUS
  <2> HIDE DEF HasBoth
  <2>2. n - 1 \in T
    BY <1>6, <1>7, <1>8, <2>1
  <2>3. n <= n - 1 /\ n \in Nat
    BY <1>2, <2>2
  <2> QED BY <2>3
<1>10. a \in Blk /\ S \subseteq Blk
  OBVIOUS
<1>11. HasBest(S)
  <2>1. PICK b \in S \ {a} : \A x \in (S \ {a}) \ {b} : IsBetter(b, x)
    BY <1>9
  <2>2. CASE IsBetter(b, a)
    <3>1. \A x \in S \ {b} : IsBetter(b, x)
      BY <2>1, <2>2
    <3> QED BY <3>1
  <2>3. CASE IsBetter(a, b)
    <3>1. \A x \in S \ {a} : IsBetter(a, x)
      BY <1>10, <2>1, <2>3, BetterOrder
    <3> QED BY <3>1
  <2> QED BY <1>10, <2>1, <2>2, <2>3, BetterOrder
<1>12. HasWorst(S)
  <2>1. PICK b \in S \ {a} : \A x \in (S \ {a}) \ {b} : IsBetter(x, b)
    BY <1>9
  <2>2. CASE IsBetter(a, b)
    <3>1. \A x \in S \ {b} : IsBetter(x, b)
      BY <2>1, <2>2
    <3> QED BY <3>1
  <2>3. CASE IsBetter(b, a)
    <3>1. \A x \in S \ {a} : IsBetter(x, a)
      BY <1>10, <2>1, <2>3, BetterOrder
    <3> QED BY <3>1
  <2> QED BY <1>10, <2>1, <2>2, <2>3, BetterOrder
<1> QED BY <1>3, <1>11, <1>12

\* The best block of the index.
LEMMA BestIs ==
  ASSUME NEW d, DbInv(d), d.index # {}
  PROVE  head(d) \in d.index /\ \A x \in d.index \ {head(d)} : IsBetter(head(d), x)
<1>1. d.index \in SUBSET Blk /\ IsFiniteSet(d.index)
  BY DEF DbInv
<1>2. \E b \in d.index : \A x \in d.index \ {b} : IsBetter(b, x)
  BY <1>1, ExtremesExist
<1>3. PICK b : b = CHOOSE y \in d.index : \A x \in d.index \ {y} : IsBetter(y, x)
  OBVIOUS
<1>4. b \in d.index /\ \A x \in d.index \ {b} : IsBetter(b, x)
  BY <1>2, <1>3
<1>5. head(d) = b
  BY <1>3 DEF head
<1> QED BY <1>4, <1>5

\* A block is better than those it is built on.
LEMMA DescendantIsBetter ==
  ASSUME NEW b \in Blk, NEW a \in Ancestry[b], a # b
  PROVE  IsBetter(b, a) /\ ~ IsBetter(a, b)
<1> DEFINE P(x) == \A y \in Ancestry[x] : /\ claim[y].block_num <= claim[x].block_num
                                          /\ timestamp[y] <= timestamp[x]
                                          /\ y # x => timestamp[y] < timestamp[x]
           S == {x \in Blk : P(x)}
<1>1. Genesis \in S
  <2>1. /\ Ancestry[Genesis] = {Genesis} /\ Genesis \in Blk
        /\ timestamp[Genesis] \in Nat /\ claim[Genesis].block_num \in Nat
    BY TreeAssumption
  <2>2. P(Genesis)
    BY <2>1
  <2> QED BY <2>1, <2>2
<1>2. ASSUME NEW x \in Blk \ {Genesis}, previous[x] \in S PROVE x \in S
  <2>1. /\ Ancestry[x] = {x} \cup Ancestry[previous[x]] /\ timestamp[x] > timestamp[previous[x]]
        /\ claim[x].block_num >= claim[previous[x]].block_num /\ previous[x] \in Blk
    BY TreeAssumption
  <2>2. /\ timestamp[x] \in Nat /\ timestamp[previous[x]] \in Nat
        /\ claim[x].block_num \in Nat /\ claim[previous[x]].block_num \in Nat
        /\ \A y \in Ancestry[previous[x]] : timestamp[y] \in Nat /\ claim[y].block_num \in Nat
    BY <2>1, AncestorsAre, NumType
  <2>3. \A y \in Ancestry[previous[x]] : /\ claim[y].block_num <= claim[previous[x]].block_num
                                         /\ timestamp[y] <= timestamp[previous[x]]
    <3>1. P(previous[x])
      BY <1>2
    <3> QED BY <3>1
  <2>4. \A y \in Ancestry[previous[x]] : claim[y].block_num <= claim[x].block_num /\ timestamp[y] < timestamp[x]
    BY <2>1, <2>2, <2>3
  <2>5. \A y \in Ancestry[x] : y = x \/ y \in Ancestry[previous[x]]
    BY <2>1
  <2>6. P(x)
    BY <2>2, <2>4, <2>5
  <2> HIDE DEF P
  <2> QED BY <2>6
<1>3. S \in SUBSET Blk
  OBVIOUS
<1>4. \A x \in Blk : P(x)
  <2>1. \A x \in Blk : x \in S
    <3> HIDE DEF S
    <3> QED BY <1>1, <1>2, <1>3, TreeInduction
  <2> HIDE DEF P
  <2> QED BY <2>1
<1>5. claim[a].block_num <= claim[b].block_num /\ timestamp[a] < timestamp[b] /\ a \in Blk
  BY <1>4, AncestorsAre
<1>6. PICK qa : qa = latest_qc_ref(a)
  OBVIOUS
<1>7. PICK qb : qb = latest_qc_ref(b)
  OBVIOUS
<1>8. qa \in Ancestry[b] /\ qb \in Ancestry[b] /\ num[qa] <= num[qb] /\ qa \in Blk /\ qb \in Blk
  BY <1>5, <1>6, <1>7, ClaimedIsAncestor, AncestorTransitive, AncestorsAre
<1>9. timestamp[qa] <= timestamp[qb]
  BY <1>4, <1>8, AncestorLinear
<1>10. timestamp[qa] \in Nat /\ timestamp[qb] \in Nat /\ timestamp[a] \in Nat /\ timestamp[b] \in Nat
  BY <1>5, <1>8, NumType
<1> QED BY <1>5, <1>6, <1>7, <1>9, <1>10 DEF IsBetter

\* The blocks of a branch above an ancestor, oldest first.
LEMMA BranchAboveIs ==
  ASSUME NEW b \in Blk, NEW a \in Ancestry[b], NEW s, s = BranchAbove(b, num[a])
  PROVE  /\ s \in Seq(Blk) /\ Len(s) = num[b] - num[a]
         /\ ChainOn(s, a)
         /\ \A i \in 1..Len(s) : s[i] \in Ancestry[b] /\ num[s[i]] = num[a] + i
<1>1. num[a] \in Nat /\ num[b] \in Nat /\ num[a] <= num[b] /\ num[Genesis] \in Nat /\ num[Genesis] <= num[a] /\ a \in Blk
  BY AncestorsAre, NumType, TreeAssumption
<1> DEFINE n == num[b] - num[a]
<1>2. n \in Nat /\ s = [i \in 1..n |-> AncestorAt(b, num[a] + i)]
  BY <1>1 DEF BranchAbove
<1>3. \A i \in 1..n : AncestorAt(b, num[a] + i) \in Ancestry[b] /\ num[AncestorAt(b, num[a] + i)] = num[a] + i
  BY <1>1, AncestorAtIs
<1>4. \A i \in 1..n : s[i] \in Ancestry[b] /\ num[s[i]] = num[a] + i /\ s[i] \in Blk
  BY <1>2, <1>3, AncestorsAre
<1>5. s \in Seq(Blk) /\ Len(s) = n
  <2>1. s \in [1..n -> Blk]
    BY <1>2, <1>4
  <2> QED BY <1>2, <2>1
<1>6. ASSUME NEW i \in 1..n PROVE previous[s[i]] = IF i = 1 THEN a ELSE s[i - 1]
  <2>1. s[i] \in Blk /\ s[i] # Genesis
    BY <1>1, <1>4
  <2>2. previous[s[i]] \in Blk /\ num[s[i]] = num[previous[s[i]]] + 1 /\ previous[s[i]] \in Ancestry[s[i]] /\ num[previous[s[i]]] \in Nat
    BY <2>1, ParentIs, AncestorsAre, NumType
  <2>3. previous[s[i]] \in Ancestry[b] /\ num[previous[s[i]]] = num[a] + i - 1
    BY <1>1, <1>4, <2>2, AncestorTransitive
  <2>4. CASE i = 1
    BY <1>1, <2>3, <2>4, AncestorUnique
  <2>5. CASE i # 1
    <3>1. i - 1 \in 1..n
      BY <1>2, <2>5
    <3>2. s[i - 1] \in Ancestry[b] /\ num[s[i - 1]] = num[a] + i - 1
      BY <1>1, <1>4, <3>1
    <3> QED BY <2>3, <2>5, <3>2, AncestorUnique
  <2> QED BY <2>4, <2>5
<1> QED BY <1>4, <1>5, <1>6 DEF ChainOn

\* The block a fork switch goes back to.
LEMMA ForkIs ==
  ASSUME NEW a \in Blk, NEW b \in Blk
  PROVE  \E x \in Ancestry[a] \cap Ancestry[b] :
           num[x] = ForkNum(a, b) /\ \A y \in Ancestry[a] \cap Ancestry[b] : num[y] <= num[x]
<1> DEFINE common == {num[x] : x \in Ancestry[a] \cap Ancestry[b]}
<1>1. Ancestry[a] \cap Ancestry[b] # {} /\ Ancestry[a] \cap Ancestry[b] \in SUBSET Ancestry[a]
  BY AncestorsAre
<1>2. PICK x \in Ancestry[a] \cap Ancestry[b] : \A y \in Ancestry[a] \cap Ancestry[b] : num[y] <= num[x]
  BY <1>1, HighestIs
<1>3. \E n \in common : \A m \in common : m <= n
  BY <1>2
<1>4. ForkNum(a, b) \in common /\ \A m \in common : m <= ForkNum(a, b)
  BY <1>3 DEF ForkNum
<1> QED BY <1>4

-------------------------------------------------------------------------------
(* Steps of the main thread: for the tree, and, as long as no append failed, for *)
(* the head.                                                                     *)

\* A block is applied on the head (commit_block), before log_irreversible.
LEMMA ValidatedIs ==
  ASSUME NEW e, ChainInv(e), NEW b \in Blk, NEW r, r = Validated(e, b)
  PROVE  /\ ChainInv(r) /\ r.head = b /\ r.state = b /\ r.db.root = e.db.root /\ r.db.index = e.db.index
         /\ r.db.pending = e.db.pending
         /\ HeadInv(e) /\ previous[b] = e.head /\ b \in e.db.index => HeadInv(r)
<1>1. /\ e = [db |-> e.db, head |-> e.head, state |-> e.state, committed |-> e.committed, blog |-> e.blog]
      /\ DbInv(e.db) /\ e.blog = e.db.root /\ e.committed = e.db.root
  BY DEF ChainInv
<1>2. /\ e.db = [root |-> e.db.root, index |-> e.db.index, pending |-> e.db.pending, valid |-> e.db.valid]
  BY <1>1 DEF DbInv
<1>3. PICK d : d = [root |-> e.db.root, index |-> e.db.index, pending |-> e.db.pending, valid |-> e.db.valid \cup {b}]
  OBVIOUS
<1>4. r = [db |-> d, head |-> b, state |-> b, committed |-> e.committed, blog |-> e.blog]
  BY <1>1, <1>2, <1>3 DEF Validated
<1>5. /\ d.root = e.db.root /\ d.index = e.db.index /\ d.pending = e.db.pending /\ d.valid = e.db.valid \cup {b}
      /\ r.db = d /\ r.head = b /\ r.state = b /\ r.committed = e.committed /\ r.blog = e.blog
  BY <1>3, <1>4
<1>6. DbInv(d)
  <2>1. \A x \in d.index : ClaimDone(d, x)
    BY <1>1, <1>5 DEF DbInv, ClaimDone
  <2> QED BY <1>1, <1>3, <1>5, <2>1 DEF DbInv, get_block
<1>7. ChainInv(r)
  BY <1>1, <1>4, <1>5, <1>6 DEF ChainInv
<1>8. HeadInv(e) /\ previous[b] = e.head /\ b \in e.db.index => HeadInv(r)
  <2> SUFFICES ASSUME HeadInv(e), previous[b] = e.head, b \in e.db.index PROVE HeadInv(r)
    OBVIOUS
  <2>1. e.head \in e.db.valid
    BY DEF HeadInv, BranchInv
  <2> QED BY <1>5, <2>1 DEF HeadInv, BranchInv, ValidInv
<1> QED BY <1>5, <1>7, <1>8

\* commit_block, with log_irreversible.
LEMMA AppliedIs ==
  ASSUME NEW e, ChainInv(e), NEW b \in Blk, NEW r, r = Applied(e, b)
  PROVE  /\ ChainInv(r) /\ r.head = b /\ r.state = b
         /\ Onward(e, r)
         /\ r.db.index = {x \in e.db.index : r.db.root \in Ancestry[x] /\ x # r.db.root}
         /\ HeadInv(e) /\ previous[b] = e.head /\ b \in e.db.index => HeadInv(r) /\ r.db.root \in Ancestry[b]
<1>1. PICK v : v = Validated(e, b)
  OBVIOUS
<1>2. /\ ChainInv(v) /\ v.head = b /\ v.state = b /\ v.db.root = e.db.root /\ v.db.index = e.db.index
      /\ v.db.pending = e.db.pending
      /\ HeadInv(e) /\ previous[b] = e.head /\ b \in e.db.index => HeadInv(v)
  BY <1>1, ValidatedIs
<1>3. Logged(v, r)
  BY <1>1, <1>2, LogIs DEF Applied
<1>4. /\ ChainInv(r) /\ r.head = v.head /\ r.state = v.state
      /\ Onward(v, r)
      /\ r.db.index = {x \in v.db.index : r.db.root \in Ancestry[x] /\ x # r.db.root}
      /\ BranchInv(v) => BranchInv(r)
  BY <1>2, <1>3, LoggedInv
<1>5. Onward(e, r)
  BY <1>2, <1>4 DEF Onward, Final
<1>6. ASSUME HeadInv(e), previous[b] = e.head, b \in e.db.index PROVE HeadInv(r) /\ r.db.root \in Ancestry[b]
  <2>1. HeadInv(r)
    BY <1>2, <1>4, <1>6 DEF HeadInv
  <2> QED BY <1>2, <1>4, <2>1, RootBelowHead DEF HeadInv
<1> QED BY <1>2, <1>4, <1>5, <1>6

\* commit_block, when log_irreversible throws: the block's session is undone, since the
\* block is not the last one that was appended.
LEMMA FailedIs ==
  ASSUME NEW e, ChainInv(e), HeadInv(e), NEW b \in e.db.index, previous[b] = e.head, NEW r \in FailedApplies(e, b)
  PROVE  /\ ChainInv(r) /\ Onward(e, r) /\ BranchInv(r)
         /\ r.head = b /\ b # Genesis /\ previous[b] \in r.db.valid /\ r.state # b
         /\ r.db.index = {x \in e.db.index : r.db.root \in Ancestry[x] /\ x # r.db.root}
<1>0. b \in Blk /\ b # e.db.root
  BY DEF ChainInv, DbInv
<1>1. PICK v : v = Validated(e, b)
  OBVIOUS
<1>2. /\ ChainInv(v) /\ v.head = b /\ v.state = b /\ v.db.root = e.db.root /\ v.db.index = e.db.index
      /\ v.db.pending = e.db.pending /\ HeadInv(v)
  BY <1>0, <1>1, ValidatedIs
<1>3. PICK f \in FailedLogs(v) : r = Undo(f)
  BY <1>1 DEF FailedApplies
<1>4. /\ ChainInv(f) /\ f.head = b /\ f.state = b /\ Onward(v, f) /\ BranchInv(f)
      /\ f.db.index = {x \in e.db.index : f.db.root \in Ancestry[x] /\ x # f.db.root}
  BY <1>2, <1>3, LogIs, LoggedInv DEF HeadInv
<1>5. f.committed # b
  <2>1. ToProcess(v) # {}
    BY <1>3 DEF FailedLogs
  <2>2. PICK top : top = Highest(ToProcess(v), v.blog)
    OBVIOUS
  <2>3. PICK last \in (ToProcess(v) \cup {v.db.root}) \ {top} : f = AfterFailure(v, last)
    BY <1>3, <2>1, <2>2 DEF FailedLogs
  <2>4. f.committed = last
    BY <1>2, <2>3 DEF AfterFailure, ChainInv
  <2>5. ToProcess(v) \in SUBSET Ancestry[b]
    BY <1>2, ToProcessIs
  <2>6. top \in Ancestry[b] /\ \A a \in ToProcess(v) : num[a] <= num[top]
    BY <1>0, <2>1, <2>2, <2>5, HighestIs
  <2>7. ASSUME b \in ToProcess(v) PROVE b = top
    <3>1. num[b] <= num[top] /\ num[top] <= num[b] /\ num[b] \in Nat /\ num[top] \in Nat
      BY <1>0, <2>6, <2>7, AncestorsAre, NumType
    <3>2. num[top] = num[b]
      BY <3>1
    <3> QED BY <1>0, <2>6, <3>2, AncestorsAre
  <2> QED BY <1>0, <1>2, <2>3, <2>4, <2>7
<1>6. r = [db |-> f.db, head |-> f.head, state |-> IF f.state = f.committed THEN f.state ELSE previous[f.state],
           committed |-> f.committed, blog |-> f.blog]
  BY <1>3, <1>4 DEF Undo, ChainInv
<1>7. r.db = f.db /\ r.head = b /\ r.committed = f.committed /\ r.blog = f.blog /\ r.state = previous[b]
  BY <1>4, <1>5, <1>6
<1>8. r = [db |-> r.db, head |-> r.head, state |-> r.state, committed |-> r.committed, blog |-> r.blog]
  BY <1>6
<1>9. ChainInv(r)
  BY <1>0, <1>4, <1>7, <1>8 DEF ChainInv
<1>10. b # Genesis /\ previous[b] # b
  <2>1. b # Genesis
    BY RootIsBelow DEF ChainInv
  <2>2. num[b] = num[previous[b]] + 1 /\ num[b] \in Nat
    BY <1>0, <2>1, ParentIs, NumType
  <2> QED BY <2>1, <2>2
<1>11. ValidInv(r.db) /\ previous[b] \in r.db.valid
  <2>1. b \in f.db.valid /\ ValidInv(f.db) /\ b # f.db.root
    BY <1>4, <1>5 DEF BranchInv, ChainInv
  <2> QED BY <1>7, <2>1 DEF ValidInv
<1>12. Onward(e, r)
  BY <1>2, <1>4, <1>7 DEF Onward, Final
<1> QED BY <1>4, <1>7, <1>9, <1>10, <1>11, <1>12 DEF BranchInv

\* A block that can not be applied is removed, with what is built on it and nothing else.
LEMMA RejectedIs ==
  ASSUME NEW e, ChainInv(e), NEW b \in Blk, NEW r, r = Rejected(e, b)
  PROVE  /\ ChainInv(r) /\ r.head = e.head /\ r.state = e.state
         /\ r.db.root = e.db.root /\ r.db.pending = e.db.pending
         /\ \A x \in e.db.index : b \notin Ancestry[x] => x \in r.db.index
         /\ ValidInv(e.db) => ValidInv(r.db) /\ \A x \in e.db.valid : b \notin Ancestry[x] => x \in r.db.valid
<1>1. /\ e = [db |-> e.db, head |-> e.head, state |-> e.state, committed |-> e.committed, blog |-> e.blog]
      /\ DbInv(e.db) /\ e.head \in Blk /\ e.blog = e.db.root /\ e.committed = e.db.root
  BY DEF ChainInv
<1>2. PICK d : d = remove(e.db, b)
  OBVIOUS
<1>3. r = [db |-> d, head |-> e.head, state |-> e.state, committed |-> e.committed, blog |-> e.blog]
  BY <1>1, <1>2 DEF Rejected
<1>4. r.db = d /\ r.head = e.head /\ r.state = e.state /\ r.committed = e.committed /\ r.blog = e.blog
  BY <1>3
<1>5. /\ DbInv(d) /\ d.root = e.db.root /\ d.pending = e.db.pending /\ d.index \subseteq e.db.index
      /\ \A x \in e.db.index : b \notin Ancestry[x] => x \in d.index
      /\ d.valid = e.db.valid \cap (d.index \cup {d.root})
  BY <1>1, <1>2, RemoveIs
<1>6. ChainInv(r)
  BY <1>1, <1>3, <1>4, <1>5 DEF ChainInv
<1>7. ASSUME ValidInv(e.db) PROVE ValidInv(d) /\ \A x \in e.db.valid : b \notin Ancestry[x] => x \in d.valid
  <2>1. \A x \in e.db.valid : b \notin Ancestry[x] => x \in d.valid
    BY <1>5, <1>7 DEF ValidInv
  <2>2. ASSUME NEW x \in d.valid, x # e.db.root PROVE previous[x] \in d.valid
    <3>1. x \in e.db.valid /\ x \in d.index /\ previous[x] \in e.db.valid
      BY <1>5, <1>7, <2>2 DEF ValidInv
    <3>2. previous[x] \in d.index \cup {d.root}
      BY <1>5, <3>1 DEF DbInv, get_block
    <3> QED BY <1>5, <3>1, <3>2
  <2>3. d.root \in d.valid /\ d.valid \subseteq d.index \cup {d.root}
    BY <1>5, <1>7 DEF ValidInv
  <2> QED BY <1>5, <2>1, <2>2, <2>3 DEF ValidInv
<1> QED BY <1>4, <1>5, <1>6, <1>7

\* Blocks each built on the one before descend from the block that the first is built on.
LEMMA ChainDescends ==
  ASSUME NEW h \in Blk, NEW s \in Seq(Blk), ChainOn(s, h)
  PROVE  \A i \in 1..Len(s) : h \in Ancestry[s[i]] /\ num[s[i]] = num[h] + i
<1> DEFINE P(i) == i > 0 => h \in Ancestry[s[i]] /\ num[s[i]] = num[h] + i
           S == {i \in 0..Len(s) : P(i)}
<1>1. 0 \in S
  OBVIOUS
<1>2. ASSUME NEW m \in S, m < Len(s) PROVE m + 1 \in S
  <2>1. m + 1 \in 1..Len(s) /\ m + 1 \in 0..Len(s) /\ m \in Nat
    BY <1>2
  <2>2. s[m + 1] \in Blk /\ previous[s[m + 1]] = IF m + 1 = 1 THEN h ELSE s[m + 1 - 1]
    BY <2>1 DEF ChainOn
  <2>3. CASE m = 0
    <3>1. previous[s[m + 1]] = h
      BY <2>2, <2>3
    <3>2. s[m + 1] # Genesis
      BY <2>2, <3>1, TreeAssumption
    <3>3. num[s[m + 1]] = num[h] + 1 /\ h \in Ancestry[s[m + 1]]
      BY <2>2, <3>1, <3>2, ParentIs, AncestorsAre
    <3> QED BY <2>1, <2>3, <3>3
  <2>4. CASE m # 0
    <3>1. m \in 1..Len(s) /\ previous[s[m + 1]] = s[m] /\ s[m] \in Blk
      BY <2>1, <2>2, <2>4
    <3>2. h \in Ancestry[s[m]] /\ num[s[m]] = num[h] + m
      BY <1>2, <3>1
    <3>3. s[m + 1] # Genesis
      BY <2>2, <3>1, TreeAssumption
    <3>4. num[s[m + 1]] = num[s[m]] + 1 /\ h \in Ancestry[s[m + 1]]
      BY <2>2, <3>1, <3>2, <3>3, ParentIs
    <3>5. num[h] \in Nat
      BY NumType
    <3>6. num[s[m + 1]] = num[h] + (m + 1)
      BY <2>1, <3>2, <3>4, <3>5
    <3> QED BY <2>1, <3>4, <3>6
  <2> QED BY <2>3, <2>4
<1>3. S \in SUBSET Nat /\ Len(s) \in Nat
  OBVIOUS
<1>4. \A m \in 0..Len(s) : m \in S
  <2> HIDE DEF S
  <2> QED BY <1>1, <1>2, <1>3, NumInduction
<1> QED BY <1>4

\* What a failed block leaves of a fork switch: the branch to go back to, ...
ForkKept(e, t) ==
  Switching(t) =>
    /\ ChainOn(t.second, ForkOf(t))
    /\ e.db.root \in Ancestry[ForkOf(t)] => \A i \in 1..Len(t.second) : t.second[i] \in e.db.index

\* ... and the number of blocks down to the fork.
InSync(e, t) == Switching(t) => ForkOf(t) \in Ancestry[e.head] /\ num[e.head] = num[ForkOf(t)] + t.done

\* maybe_switch_forks, when a block of the new branch fails: back to the fork, which it
\* reaches unless something above it is irreversible.
LEMMA RollBackStep ==
  ASSUME NEW e, ChainInv(e), BranchInv(e), NEW t \in TaskType, RollBack(t, e),
         t.single => t.second = <<>>, ForkKept(e, t)
  PROVE  /\ ChainInv(c') /\ task' \in TaskType /\ (task'.at # "idle" => task'.todo # <<>>) /\ c'.db = e.db
         /\ BranchInv(c') /\ TaskInv(c', task')
         /\ HeadInv(e) => HeadInv(c')
         /\ InSync(e, t) /\ ~ lost_sync => ~ lost_sync'
<1>1. t.done \in Nat /\ t.second \in Seq(Blk) /\ t.single \in BOOLEAN
  BY DEF TaskType
<1>2. PICK f : f = Pop(e, t.done)
  OBVIOUS
<1>3. ChainInv(f) /\ f.db = e.db /\ f.head \in Ancestry[e.head] /\ BranchInv(f) /\ (HeadInv(e) => HeadInv(f))
  BY <1>1, <1>2, PopIs
<1> DEFINE sync == Switching(t) => f.head = ForkOf(t)
           reached == num[f.head] = num[e.head] - t.done
<1>4. /\ c' = f
      /\ IF reached /\ sync /\ Switching(t) THEN task' = [t EXCEPT !.at = "reapply", !.todo = t.second]
         ELSE task' = Idle
      /\ lost_sync' = (lost_sync \/ (reached /\ ~ sync))
  BY <1>2 DEF RollBack, ToUndo, Popped, ForkOf
<1>5. Idle \in TaskType /\ Idle.at = "idle" /\ Idle.single /\ Idle.second = <<>> /\ TaskInv(f, Idle)
  BY IdleTask
<1>6. CASE task' = Idle /\ ~ (reached /\ ~ sync)
  BY <1>3, <1>4, <1>5, <1>6
<1>7. CASE reached /\ sync /\ Switching(t)
  <2>1. task' = [at |-> "reapply", single |-> t.single, todo |-> t.second, done |-> t.done, second |-> t.second]
    BY <1>4, <1>7 DEF TaskType
  <2>2. /\ task'.at = "reapply" /\ task'.single = t.single /\ task'.todo = t.second /\ task'.second = t.second
        /\ task' \in TaskType /\ task'.todo # <<>>
    BY <1>1, <1>7, <2>1 DEF TaskType, Switching
  <2>3. f.head = ForkOf(t)
    BY <1>7
  <2>4. f.db.root \in Ancestry[f.head]
    BY <1>3, RootBelowHead
  <2>5. TaskInv(f, task')
    BY <1>3, <1>7, <2>2, <2>3, <2>4 DEF TaskInv, ForkKept
  <2> QED BY <1>3, <1>4, <1>7, <2>2, <2>5
<1>8. CASE reached /\ ~ sync
  <2>1. task' = Idle
    BY <1>4, <1>8
  <2>2. ASSUME InSync(e, t) PROVE FALSE
    <3>1. Switching(t) /\ ForkOf(t) \in Ancestry[e.head] /\ num[e.head] = num[ForkOf(t)] + t.done
      BY <1>8, <2>2 DEF InSync
    <3>2. num[f.head] \in Nat /\ num[e.head] \in Nat /\ num[ForkOf(t)] \in Nat /\ e.head \in Blk
      BY <1>3, <3>1, AncestorsAre, NumType DEF ChainInv
    <3>3. num[f.head] = num[ForkOf(t)]
      BY <1>1, <1>8, <3>1, <3>2
    <3>4. f.head = ForkOf(t)
      BY <1>3, <3>1, <3>2, <3>3, AncestorUnique
    <3> QED BY <1>8, <3>4
  <2> QED BY <1>3, <1>4, <1>5, <2>1, <2>2
<1> QED BY <1>4, <1>6, <1>7, <1>8

\* The old branch stays as long as nothing above the fork is irreversible.
LEMMA SecondKept ==
  ASSUME NEW e, NEW r, ChainInv(r), NEW t \in TaskType, ForkKept(e, t),
         Switching(t), ForkOf(t) \in Blk, e.db.root \in Ancestry[r.db.root],
         r.db.index = {x \in e.db.index : r.db.root \in Ancestry[x] /\ x # r.db.root}
  PROVE  ForkKept(r, t)
<1>1. /\ t.second \in Seq(Blk) /\ ChainOn(t.second, ForkOf(t))
      /\ e.db.root \in Ancestry[ForkOf(t)] => \A i \in 1..Len(t.second) : t.second[i] \in e.db.index
  BY DEF TaskType, ForkKept
<1>2. ASSUME r.db.root \in Ancestry[ForkOf(t)], NEW i \in 1..Len(t.second) PROVE t.second[i] \in r.db.index
  <2>1. e.db.root \in Ancestry[ForkOf(t)]
    BY <1>2, AncestorTransitive
  <2>2. t.second[i] \in e.db.index /\ t.second[i] \in Blk
    BY <1>1, <1>2, <2>1
  <2>3. ForkOf(t) \in Ancestry[t.second[i]] /\ num[t.second[i]] = num[ForkOf(t)] + i
    BY <1>1, <1>2, ChainDescends
  <2>4. r.db.root \in Ancestry[t.second[i]]
    BY <1>2, <2>2, <2>3, AncestorTransitive
  <2>5. num[r.db.root] <= num[ForkOf(t)] /\ num[r.db.root] \in Nat /\ num[ForkOf(t)] \in Nat
    BY <1>2, AncestorsAre, NumType
  <2>6. t.second[i] # r.db.root
    BY <1>1, <2>3, <2>5
  <2> QED BY <2>2, <2>4, <2>6
<1> QED BY <1>1, <1>2 DEF ForkKept

\* An exception from apply_block: the block is removed, also if it is the head because
\* its commit failed.
LEMMA ThrownStep ==
  ASSUME NEW e, ChainInv(e), NEW b \in Blk, task \in TaskType, Thrown(e, b), BranchInv(e),
         \/ b \notin Ancestry[e.head]
         \/ b = e.head /\ b # Genesis /\ previous[b] \in e.db.valid /\ e.state # b,
         task.single => task.second = <<>>, ForkKept(e, task),
         Switching(task) => \A j \in 1..Len(task.second) : b \notin Ancestry[task.second[j]]
  PROVE  /\ ChainInv(c') /\ task' \in TaskType /\ (task'.at # "idle" => task'.todo # <<>>)
         /\ c'.db.root = e.db.root /\ c'.db.pending = e.db.pending
         /\ BranchInv(c') /\ TaskInv(c', task')
         /\ HeadInv(e) => HeadInv(c')
         /\ InSync(e, task) /\ ~ lost_sync => ~ lost_sync'
<1>1. PICK r : r = Rejected(e, b)
  OBVIOUS
<1>2. /\ ChainInv(r) /\ r.head = e.head /\ r.state = e.state
      /\ r.db.root = e.db.root /\ r.db.pending = e.db.pending
      /\ \A x \in e.db.index : b \notin Ancestry[x] => x \in r.db.index
      /\ ValidInv(e.db) => ValidInv(r.db) /\ \A x \in e.db.valid : b \notin Ancestry[x] => x \in r.db.valid
  BY <1>1, RejectedIs
<1>3. ForkKept(r, task) /\ (InSync(e, task) => InSync(r, task))
  BY <1>2 DEF ForkKept, InSync
<1>4. BranchInv(r)
  <2>1. ValidInv(r.db) /\ \A x \in e.db.valid : b \notin Ancestry[x] => x \in r.db.valid
    BY <1>2 DEF BranchInv
  <2>2. e.head \in Blk
    BY DEF ChainInv
  <2>3. CASE b \notin Ancestry[e.head] /\ e.head \in e.db.valid
    BY <1>2, <2>1, <2>3 DEF BranchInv
  <2>4. CASE b \notin Ancestry[e.head] /\ e.head # Genesis /\ previous[e.head] \in e.db.valid /\ e.state # e.head
    <3>1. b \notin Ancestry[previous[e.head]]
      BY <2>2, <2>4, ParentIs
    <3> QED BY <1>2, <2>1, <2>4, <3>1 DEF BranchInv
  <2>5. CASE b = e.head /\ b # Genesis /\ previous[b] \in e.db.valid /\ e.state # b
    <3>1. num[b] = num[previous[b]] + 1 /\ num[previous[b]] \in Nat /\ previous[b] \in Blk
      BY <2>5, ParentIs, NumType
    <3>2. b \in Ancestry[previous[b]] => num[b] <= num[previous[b]]
      BY <3>1, AncestorsAre
    <3>3. b \notin Ancestry[previous[b]]
      BY <3>1, <3>2
    <3> QED BY <1>2, <2>1, <2>5, <3>3 DEF BranchInv
  <2> QED BY <2>3, <2>4, <2>5 DEF BranchInv
<1>5. HeadInv(e) => HeadInv(r)
  BY <1>2, <1>4 DEF HeadInv
<1>6. CASE task.single
  <2>1. c' = r /\ task' = Idle /\ lost_sync' = lost_sync
    BY <1>1, <1>6 DEF Thrown
  <2>2. Idle \in TaskType /\ Idle.at = "idle" /\ TaskInv(r, Idle)
    BY IdleTask
  <2> QED BY <1>2, <1>4, <1>5, <2>1, <2>2
<1>7. CASE ~ task.single
  <2>1. RollBack(task, r)
    BY <1>1, <1>7 DEF Thrown
  <2>2. /\ ChainInv(c') /\ task' \in TaskType /\ (task'.at # "idle" => task'.todo # <<>>) /\ c'.db = r.db
        /\ BranchInv(c') /\ TaskInv(c', task')
        /\ HeadInv(r) => HeadInv(c')
        /\ InSync(r, task) /\ ~ lost_sync => ~ lost_sync'
    BY <1>2, <1>3, <1>4, <2>1, RollBackStep
  <2> QED BY <1>2, <1>3, <1>5, <2>2
<1> QED BY <1>6, <1>7

\* The block that is applied next.
LEMMA NextBlock ==
  ASSUME NEW e, ChainInv(e), NEW t \in TaskType, t.at # "idle", TaskInv(e, t), t.todo # <<>>, NEW b, b = t.todo[1]
  PROVE  /\ b \in e.db.index /\ b \in Blk /\ previous[b] = e.head /\ b # Genesis /\ b \notin Ancestry[e.head]
         /\ t.single => t.second = <<>>
         /\ t.at = "apply" => /\ ForkKept(e, t) /\ InSync(e, t)
                              /\ Switching(t) => /\ ForkOf(t) \in Blk
                                                 /\ \A j \in 1..Len(t.second) : b \notin Ancestry[t.second[j]]
<1>1. t.todo \in Seq(Blk) /\ t.second \in Seq(Blk) /\ 1 \in 1..Len(t.todo) /\ b \in Blk
  BY DEF TaskType
<1>2. previous[b] = e.head /\ b \in e.db.index
  BY <1>1 DEF TaskInv, ChainOn
<1>3. e.head \in Blk /\ b # Genesis
  BY <1>2, TreeAssumption DEF ChainInv
<1>4. num[b] = num[e.head] + 1 /\ num[e.head] \in Nat
  BY <1>1, <1>2, <1>3, ParentIs, NumType
<1>5. b \notin Ancestry[e.head]
  <2>1. b \in Ancestry[e.head] => num[b] <= num[e.head]
    BY <1>3, AncestorsAre
  <2> QED BY <1>4, <2>1
<1>6. ASSUME t.at = "apply", Switching(t)
      PROVE  ForkOf(t) \in Blk /\ \A j \in 1..Len(t.second) : b \notin Ancestry[t.second[j]]
  BY <1>1, <1>3, <1>6, AncestorsAre DEF TaskInv
<1>7. t.at = "apply" => ForkKept(e, t) /\ InSync(e, t)
  BY DEF TaskInv, ForkKept, InSync
<1> QED BY <1>1, <1>2, <1>3, <1>5, <1>6, <1>7 DEF TaskInv

\* After a block was applied, the task goes on with the next.
LEMMA TaskMoves ==
  ASSUME NEW e, ChainInv(e), NEW t \in TaskType, t.at # "idle", TaskInv(e, t), Len(t.todo) > 1,
         NEW r, ChainInv(r), r.head = t.todo[1], e.db.root \in Ancestry[r.db.root], r.db.root \in Ancestry[r.head],
         r.db.index = {x \in e.db.index : r.db.root \in Ancestry[x] /\ x # r.db.root},
         NEW u, u.at = t.at, u.single = t.single, u.todo = Tail(t.todo), u.second = t.second,
         t.at = "apply" => u.done = t.done + 1
  PROVE  TaskInv(r, u)
<1>1. /\ t.todo \in Seq(Blk) /\ t.second \in Seq(Blk) /\ t.done \in Nat
      /\ Len(t.todo) \in Nat
  BY DEF TaskType
<1>2. PICK s : s = Tail(t.todo)
  OBVIOUS
<1>3. s \in Seq(Blk) /\ Len(s) = Len(t.todo) - 1 /\ \A i \in 1..Len(s) : s[i] = t.todo[i + 1]
  BY <1>1, <1>2
<1>4. ChainOn(t.todo, e.head) /\ \A i \in 1..Len(t.todo) : t.todo[i] \in e.db.index
  BY DEF TaskInv
<1>5. PICK b \in Blk : b = t.todo[1]
  BY <1>1
<1>6. ChainOn(s, b)
  <2> SUFFICES ASSUME NEW i \in 1..Len(s) PROVE previous[s[i]] = IF i = 1 THEN b ELSE s[i - 1]
    BY DEF ChainOn
  <2>1. i + 1 \in 1..Len(t.todo) /\ i + 1 # 1 /\ (i + 1) - 1 = i
    BY <1>1, <1>3
  <2>2. previous[t.todo[i + 1]] = t.todo[i]
    BY <1>4, <2>1 DEF ChainOn
  <2>3. CASE i = 1
    BY <1>3, <1>5, <2>2, <2>3
  <2>4. CASE i # 1
    <3>1. i - 1 \in 1..Len(s) /\ (i - 1) + 1 = i
      BY <1>1, <1>3, <2>4
    <3>2. s[i - 1] = t.todo[i]
      BY <1>3, <3>1
    <3> QED BY <1>3, <2>2, <2>4, <3>2
  <2> QED BY <2>3, <2>4
<1>7. r.db.root \in Ancestry[b] /\ b \in Blk /\ num[b] \in Nat /\ num[r.db.root] <= num[b] /\ num[r.db.root] \in Nat
      /\ r.db.root \in Blk
  BY <1>5, AncestorsAre, NumType
<1>8. \A i \in 1..Len(s) : s[i] \in r.db.index
  <2> SUFFICES ASSUME NEW i \in 1..Len(s) PROVE s[i] \in r.db.index
    OBVIOUS
  <2>1. s[i] \in e.db.index /\ s[i] \in Blk
    BY <1>1, <1>3, <1>4
  <2>2. b \in Ancestry[s[i]] /\ num[s[i]] = num[b] + i
    BY <1>3, <1>6, ChainDescends
  <2>3. r.db.root \in Ancestry[s[i]]
    BY <1>7, <2>1, <2>2, AncestorTransitive
  <2>4. s[i] # r.db.root
    BY <1>7, <2>2
  <2> QED BY <2>1, <2>3, <2>4
<1>9. ASSUME t.at = "apply", Switching(t)
      PROVE  /\ ForkOf(t) \in Ancestry[b] /\ num[b] = num[ForkOf(t)] + (t.done + 1)
             /\ ChainOn(t.second, ForkOf(t))
             /\ r.db.root \in Ancestry[ForkOf(t)] => \A i \in 1..Len(t.second) : t.second[i] \in r.db.index
             /\ \A i \in 1..Len(s), j \in 1..Len(t.second) : s[i] \notin Ancestry[t.second[j]]
  <2>1. /\ ForkOf(t) \in Ancestry[e.head] /\ num[e.head] = num[ForkOf(t)] + t.done
        /\ ChainOn(t.second, ForkOf(t))
        /\ e.db.root \in Ancestry[ForkOf(t)] => \A i \in 1..Len(t.second) : t.second[i] \in e.db.index
        /\ \A i \in 1..Len(t.todo), j \in 1..Len(t.second) : t.todo[i] \notin Ancestry[t.second[j]]
    BY <1>9 DEF TaskInv
  <2>2. previous[b] = e.head /\ e.head \in Blk /\ b # Genesis
    <3>1. 1 \in 1..Len(t.todo)
      BY <1>1
    <3>2. previous[b] = e.head
      BY <1>4, <1>5, <3>1 DEF ChainOn
    <3> QED BY <3>2, TreeAssumption DEF ChainInv
  <2>3. num[b] = num[e.head] + 1 /\ Ancestry[b] = {b} \cup Ancestry[e.head]
    BY <2>2, ParentIs
  <2>4. ForkOf(t) \in Blk /\ num[ForkOf(t)] \in Nat /\ num[e.head] \in Nat
    BY <2>1, <2>2, AncestorsAre, NumType
  <2>5. ForkKept(r, t)
    <3>1. ForkKept(e, t)
      BY <2>1 DEF ForkKept
    <3> QED BY <1>9, <2>4, <3>1, SecondKept
  <2>6. \A i \in 1..Len(s), j \in 1..Len(t.second) : s[i] \notin Ancestry[t.second[j]]
    <3>1. \A i \in 1..Len(s) : i + 1 \in 1..Len(t.todo)
      BY <1>1, <1>3
    <3> QED BY <1>3, <2>1, <3>1
  <2>7. num[b] = num[ForkOf(t)] + (t.done + 1)
    BY <1>1, <2>1, <2>3, <2>4
  <2> QED BY <1>9, <2>1, <2>3, <2>5, <2>6, <2>7 DEF ForkKept
<1>10. ForkOf(u) = ForkOf(t) /\ (Switching(u) <=> Switching(t))
  BY DEF ForkOf, Switching
<1>11. u.single => u.second = <<>>
  BY DEF TaskInv
<1> QED BY <1>2, <1>5, <1>6, <1>8, <1>9, <1>10, <1>11 DEF TaskInv

\* The best block of the fork database is on no branch of its other blocks.
LEMMA BestIsNew ==
  ASSUME NEW d, DbInv(d), NEW h, get_block(d, h), head(d) # h
  PROVE  head(d) \in d.index /\ h \in Blk /\ head(d) \notin Ancestry[h]
<1>1. h \in d.index \cup {d.root} /\ h \in Blk
  BY DEF get_block, DbInv
<1>2. d.index # {}
  BY <1>1 DEF head
<1>3. PICK b \in d.index : b = head(d) /\ \A x \in d.index \ {b} : IsBetter(b, x)
  BY <1>2, BestIs
<1>4. ASSUME b \in Ancestry[h] PROVE FALSE
  <2>1. h # d.root
    BY <1>3, <1>4, RootIsBelow
  <2>2. IsBetter(b, h)
    BY <1>1, <1>3, <2>1
  <2> QED BY <1>1, <1>3, <1>4, <2>2, DescendantIsBetter
<1> QED BY <1>1, <1>3, <1>4

\* maybe_switch_forks pops the old branch: it arrives at the fork, and has both branches.
LEMMA StartSwitchStep ==
  ASSUME NEW e, ChainInv(e), BranchInv(e), get_block(e.db, e.head), NEW h, h = head(e.db), h # e.head, StartSwitch(e, h)
  PROVE  /\ ChainInv(c') /\ task' \in TaskType /\ (task'.at # "idle" => task'.todo # <<>>) /\ c'.db = e.db
         /\ BranchInv(c') /\ TaskInv(c', task') /\ (HeadInv(e) => HeadInv(c')) /\ (~ lost_sync => ~ lost_sync')
<1>1. DbInv(e.db) /\ h \in e.db.index /\ e.head \in Blk /\ h \in Blk /\ h \notin Ancestry[e.head]
  BY BestIsNew DEF ChainInv, DbInv
<1>2. PICK x \in Ancestry[h] \cap Ancestry[e.head] :
         num[x] = ForkNum(h, e.head) /\ \A y \in Ancestry[h] \cap Ancestry[e.head] : num[y] <= num[x]
  BY <1>1, ForkIs
<1>3. x \in Blk /\ x # h /\ num[x] \in Nat /\ num[h] \in Nat /\ num[x] < num[h] /\ num[x] <= num[e.head] /\ num[e.head] \in Nat
  BY <1>1, <1>2, AncestorsAre, NumType
<1>4. PICK first : first = BranchAbove(h, num[x])
  OBVIOUS
<1>5. PICK second : second = BranchAbove(e.head, num[x])
  OBVIOUS
<1>6. /\ first \in Seq(Blk) /\ Len(first) = num[h] - num[x] /\ ChainOn(first, x)
      /\ \A i \in 1..Len(first) : first[i] \in Ancestry[h] /\ num[first[i]] = num[x] + i
  BY <1>1, <1>2, <1>4, BranchAboveIs
<1>7. /\ second \in Seq(Blk) /\ Len(second) = num[e.head] - num[x] /\ ChainOn(second, x)
      /\ \A i \in 1..Len(second) : second[i] \in Ancestry[e.head] /\ num[second[i]] = num[x] + i
  BY <1>1, <1>2, <1>5, BranchAboveIs
<1>8. PICK n \in Nat : n = Len(second)
  BY <1>7
<1>9. PICK f : f = Pop(e, n)
  OBVIOUS
<1>10. ChainInv(f) /\ f.db = e.db /\ f.head \in Ancestry[e.head] /\ BranchInv(f) /\ (HeadInv(e) => HeadInv(f))
  BY <1>9, PopIs
<1> DEFINE reached == num[f.head] = num[e.head] - n
           sync == n > 0 => f.head = previous[second[1]]
           go == [at |-> "apply", single |-> FALSE, todo |-> first, done |-> 0, second |-> second]
<1>11. fetch_branch_from(h, e.head).first = first /\ fetch_branch_from(h, e.head).second = second
  BY <1>2, <1>4, <1>5 DEF fetch_branch_from
<1>12. c' = f /\ task' = (IF reached /\ sync THEN go ELSE Idle) /\ lost_sync' = (lost_sync \/ (reached /\ ~ sync))
  BY <1>8, <1>9, <1>11 DEF StartSwitch, Popped
<1>13. reached => f.head = x
  <2>1. SUFFICES ASSUME reached PROVE f.head = x
    OBVIOUS
  <2>2. num[f.head] = num[x]
    BY <1>3, <1>7, <1>8, <2>1
  <2> QED BY <1>1, <1>2, <1>10, <2>2, AncestorUnique
<1>14. n > 0 => previous[second[1]] = x
  <2>1. n > 0 => 1 \in 1..Len(second)
    BY <1>8
  <2> QED BY <1>7, <2>1 DEF ChainOn
<1>15. ~ (reached /\ ~ sync)
  BY <1>13, <1>14
<1>16. go \in TaskType /\ go.todo # <<>> /\ go.at = "apply" /\ go.todo = first /\ go.second = second /\ go.done = 0
       /\ go.single = FALSE
  <2>1. first # <<>>
    BY <1>3, <1>6
  <2> QED BY <1>6, <1>7, <2>1 DEF TaskType
<1>17. Idle \in TaskType /\ Idle.at = "idle" /\ Idle.single /\ Idle.second = <<>>
  BY IdleTask
<1>18. ASSUME reached PROVE TaskInv(f, go)
  <2>1. f.head = x
    BY <1>13, <1>18
  <2>2. DbInv(f.db)
    BY <1>10 DEF ChainInv
  <2>4. f.db.root \in Ancestry[x] /\ f.db.root \in Blk
    BY <1>10, <2>1, <2>2, RootBelowHead DEF DbInv
  <2>5. num[f.db.root] <= num[x] /\ num[f.db.root] \in Nat
    BY <1>3, <2>4, AncestorsAre, NumType
  <2>6. ASSUME NEW y \in Blk, num[y] > num[x] PROVE y \notin Ancestry[f.db.root]
    BY <1>3, <2>4, <2>5, <2>6, AncestorsAre, NumType
  <2>7. ASSUME NEW i \in 1..Len(first) PROVE first[i] \in f.db.index
    <3>1. first[i] \in Blk /\ first[i] \in Ancestry[h] /\ num[first[i]] > num[x]
      BY <1>3, <1>6, <2>7
    <3>2. Ancestry[h] \ Ancestry[f.db.root] \subseteq f.db.index
      BY <1>1, <1>10, <2>2, IndexHasBranch
    <3> QED BY <2>6, <3>1, <3>2
  <2>8. ASSUME NEW i \in 1..Len(second) PROVE second[i] \in f.db.index
    <3>1. second[i] \in Blk /\ second[i] \in Ancestry[e.head] /\ num[second[i]] > num[x]
      BY <1>3, <1>7, <2>8
    <3>2. e.head \in f.db.index \cup {f.db.root}
      BY <1>10 DEF get_block
    <3>3. Ancestry[e.head] \ Ancestry[f.db.root] \subseteq f.db.index
      BY <2>2, <3>2, IndexHasBranch
    <3> QED BY <2>6, <3>1, <3>3
  <2>9. ASSUME NEW i \in 1..Len(first), NEW j \in 1..Len(second) PROVE first[i] \notin Ancestry[second[j]]
    <3>1. first[i] \in Ancestry[h] /\ num[first[i]] = num[x] + i /\ second[j] \in Ancestry[e.head]
      BY <1>6, <1>7, <2>9
    <3>2. Ancestry[second[j]] \subseteq Ancestry[e.head]
      BY <1>1, <3>1, AncestorTransitive
    <3>3. first[i] \in Ancestry[e.head] => num[first[i]] <= num[x]
      BY <1>2, <3>1
    <3> QED BY <1>3, <3>1, <3>2, <3>3
  <2>10. Switching(go) => n > 0
    BY <1>7, <1>8, <1>16 DEF Switching
  <2>11. ASSUME Switching(go)
         PROVE  /\ ForkOf(go) = x /\ x \in Ancestry[f.head] /\ num[f.head] = num[x] + go.done
    <3>1. ForkOf(go) = x
      BY <1>14, <1>16, <2>10, <2>11 DEF ForkOf
    <3>2. x \in Ancestry[f.head]
      BY <1>3, <2>1, AncestorsAre
    <3> QED BY <1>3, <1>16, <2>1, <3>1, <3>2
  <2>12. ChainOn(go.todo, f.head)
    BY <1>6, <1>16, <2>1
  <2> HIDE DEF go
  <2> QED BY <1>7, <1>16, <2>7, <2>8, <2>9, <2>11, <2>12 DEF TaskInv
<1>19. TaskInv(f, Idle)
  BY IdleTask
<1> HIDE DEF go
<1>20. CASE reached
  <2>1. task' = go
    BY <1>12, <1>15, <1>20
  <2> QED BY <1>10, <1>12, <1>15, <1>16, <1>18, <1>20, <2>1
<1>21. CASE ~ reached
  <2>1. task' = Idle
    BY <1>12, <1>21
  <2> QED BY <1>10, <1>12, <1>15, <1>17, <1>19, <2>1
<1> QED BY <1>20, <1>21

\* What a step of the main thread keeps, if it begins with e.
Keeps(e) ==
  /\ ChainInv(c') /\ task' \in TaskType /\ (task'.at # "idle" => task'.todo # <<>>)
  /\ append_fails' \in Nat /\ Onward(e, c')
  /\ BranchInv(c') /\ TaskInv(c', task')
  /\ append_fails' = 0 =>
       append_fails = 0 /\ (e.state = e.head /\ ~ lost_sync => c'.state = c'.head /\ ~ lost_sync')

\* maybe_switch_forks, up to the first block it applies.
LEMMA SwitchStep ==
  ASSUME NEW e, ChainInv(e), BranchInv(e), task = Idle, append_fails \in Nat, NEW h, h = head(e.db),
         maybe_switch_forks(e, h)
  PROVE  Keeps(e)
<1>1. Idle \in TaskType /\ Idle.at = "idle" /\ Idle.single /\ Idle.second = <<>>
  BY IdleTask
<1>2. ASSUME NEW f PROVE TaskInv(f, Idle)
  BY IdleTask
<1>3. DbInv(e.db) /\ e.db.root \in Blk
  BY DEF ChainInv, DbInv
<1>4. h \in Blk /\ (h \in e.db.index \/ (e.db.index = {} /\ h = e.db.root))
  <2>1. CASE e.db.index = {}
    BY <1>3, <2>1 DEF head
  <2>2. CASE e.db.index # {}
    BY <1>3, <2>2, BestIs DEF DbInv
  <2> QED BY <2>1, <2>2
<1>5. CASE previous[h] = e.head /\ c' = e /\ task' = [Idle EXCEPT !.at = "apply", !.todo = <<h>>]
           /\ UNCHANGED <<lost_sync, append_fails>>
  <2>1. task' = [at |-> "apply", single |-> TRUE, todo |-> <<h>>, done |-> 0, second |-> <<>>]
    BY <1>5 DEF Idle
  <2>2. /\ task'.at = "apply" /\ task'.single /\ task'.todo = <<h>> /\ task'.second = <<>>
        /\ task' \in TaskType /\ task'.todo # <<>>
    BY <1>4, <2>1 DEF TaskType
  <2>3. h # e.db.root
    <3>1. e.db.root # Genesis => num[e.db.root] = num[previous[e.db.root]] + 1 /\ previous[e.db.root] \in Blk
      BY <1>3, ParentIs
    <3>2. e.head \in Blk /\ e.db.root \in Ancestry[e.head]
      BY RootBelowHead DEF ChainInv
    <3>3. num[e.db.root] <= num[e.head] /\ num[e.db.root] \in Nat /\ num[e.head] \in Nat
      BY <1>3, <3>2, AncestorsAre, NumType
    <3> QED BY <1>5, <3>1, <3>2, <3>3, TreeAssumption
  <2>4. h \in e.db.index
    BY <1>4, <2>3
  <2>5. ChainOn(task'.todo, e.head) /\ \A i \in 1..Len(task'.todo) : task'.todo[i] \in e.db.index
    BY <1>5, <2>2, <2>4 DEF ChainOn
  <2>6. TaskInv(e, task')
    BY <2>2, <2>5 DEF TaskInv, Switching
  <2> QED BY <1>5, <2>2, <2>6, OnwardSame DEF Keeps
<1>6. CASE h # e.head /\ get_block(e.db, e.head) /\ StartSwitch(e, h) /\ UNCHANGED append_fails
  <2>1. /\ ChainInv(c') /\ task' \in TaskType /\ (task'.at # "idle" => task'.todo # <<>>) /\ c'.db = e.db
        /\ BranchInv(c') /\ TaskInv(c', task') /\ (HeadInv(e) => HeadInv(c')) /\ (~ lost_sync => ~ lost_sync')
    BY <1>6, StartSwitchStep
  <2>2. Onward(e, c')
    BY <2>1, OnwardSame
  <2> QED BY <1>6, <2>1, <2>2 DEF Keeps, HeadInv
<1>7. CASE c' = e /\ UNCHANGED <<task, lost_sync, append_fails>>
  BY <1>1, <1>2, <1>7, OnwardSame DEF Keeps
<1>8. CASE c' = log_irreversible(e) /\ UNCHANGED <<task, lost_sync, append_fails>>
  <2>1. ChainInv(c') /\ BranchInv(c') /\ c'.head = e.head /\ c'.state = e.state /\ Onward(e, c')
    BY <1>8, LogIs, LoggedInv
  <2> QED BY <1>1, <1>2, <1>8, <2>1 DEF Keeps
<1>9. CASE append_fails' = append_fails + 1 /\ c' \in FailedLogs(e) /\ UNCHANGED <<task, lost_sync>>
  <2>1. ChainInv(c') /\ BranchInv(c') /\ Onward(e, c')
    BY <1>9, LogIs, LoggedInv
  <2> QED BY <1>1, <1>2, <1>9, <2>1 DEF Keeps
<1> QED BY <1>5, <1>6, <1>7, <1>8, <1>9 DEF maybe_switch_forks

\* A block that is added disturbs neither the head nor what the main thread is doing.
LEMMA AddedIs ==
  ASSUME NEW e, ChainInv(e), NEW b \in Blk, Linkable(e.db, b), NEW r, r = [e EXCEPT !.db = add(@, b)]
  PROVE  /\ ChainInv(r) /\ r.head = e.head /\ r.state = e.state /\ Onward(e, r)
         /\ BranchInv(e) => BranchInv(r)
         /\ \A t : TaskInv(e, t) => TaskInv(r, t)
<1>1. PICK d : d = add(e.db, b)
  OBVIOUS
<1>2. DbInv(e.db)
  BY DEF ChainInv
<1>3. /\ DbInv(d) /\ (Final(e.db) => Final(d))
      /\ d.root = e.db.root /\ d.index = e.db.index \cup {b} /\ d.valid = e.db.valid
  BY <1>1, <1>2, AddIs
<1>4. r = [db |-> d, head |-> e.head, state |-> e.state, committed |-> e.committed, blog |-> e.blog]
  BY <1>1 DEF ChainInv
<1>5. r.db = d /\ r.head = e.head /\ r.state = e.state /\ r.committed = e.committed /\ r.blog = e.blog
  BY <1>4
<1>6. ChainInv(r)
  BY <1>3, <1>4, <1>5 DEF ChainInv
<1>7. BranchInv(e) => BranchInv(r)
  BY <1>3, <1>5 DEF BranchInv, ValidInv
<1>8. ASSUME NEW t, TaskInv(e, t) PROVE TaskInv(r, t)
  BY <1>3, <1>5, <1>8 DEF TaskInv
<1>9. Onward(e, r)
  <2>1. e.db.root \in Ancestry[e.db.root]
    BY <1>2, AncestorsAre DEF DbInv
  <2> QED BY <1>3, <1>5, <2>1 DEF Onward
<1> QED BY <1>5, <1>6, <1>7, <1>8, <1>9

\* r's index has b, and all that e's has.
Indexed(e, b, r) == b \in r.db.index /\ e.db.index \subseteq r.db.index

\* The block that is added is in the index then, with all that was.
LEMMA AddedIndex ==
  ASSUME NEW e, ChainInv(e), NEW b \in Blk, Linkable(e.db, b), NEW r, r = [e EXCEPT !.db = add(@, b)]
  PROVE  Indexed(e, b, r)
<1>1. PICK d : d = add(e.db, b)
  OBVIOUS
<1>2. DbInv(e.db)
  BY DEF ChainInv
<1>3. d.index = e.db.index \cup {b}
  BY <1>1, <1>2, AddIs
<1>4. r.db = d
  BY <1>1 DEF ChainInv
<1> QED BY <1>3, <1>4 DEF Indexed

\* What the steps have to show.
LEMMA KeepsInv ==
  ASSUME ForkInv, Keeps(c), creating' \subseteq Blk, handles' \subseteq Blk
  PROVE  ForkInv' /\ Onward(c, c')
BY DEF ForkInv, StateInv, SyncInv, Keeps

\* There are blocks after the first.
LEMMA TailIs ==
  ASSUME NEW s \in Seq(Blk), s # <<>>, Len(s) # 1
  PROVE  Len(s) > 1 /\ Tail(s) \in Seq(Blk) /\ Tail(s) # <<>>
<1>0. Len(s) \in Nat /\ Len(s) > 1
  OBVIOUS
<1>1. Tail(s) \in Seq(Blk) /\ Len(Tail(s)) = Len(s) - 1
  OBVIOUS
<1>2. Len(Tail(s)) # 0
  BY <1>0, <1>1
<1>3. Len(<<>>) = 0
  OBVIOUS
<1>4. Tail(s) # <<>>
  BY <1>2, <1>3
<1> QED BY <1>0, <1>1, <1>4

\* One block of the new branch is applied, or fails and undoes the switch.
LEMMA ApplyNextStep ==
  ASSUME ForkInv, ApplyNext
  PROVE  Keeps(c)
<1>1. /\ ChainInv(c) /\ BranchInv(c) /\ TaskInv(c, task) /\ append_fails \in Nat
      /\ task \in TaskType /\ task.at = "apply" /\ task.at # "idle" /\ task.todo # <<>>
  BY DEF ForkInv, StateInv, ApplyNext
<1>2. task.todo \in Seq(Blk) /\ Len(task.todo) \in Nat /\ 1 \in 1..Len(task.todo) /\ task.done \in Nat
  BY <1>1 DEF TaskType
<1>3. PICK b \in Blk : b = task.todo[1] /\ b = Head(task.todo)
  BY <1>2
<1>4. /\ b \in c.db.index /\ previous[b] = c.head /\ b # Genesis /\ b \notin Ancestry[c.head]
      /\ task.single => task.second = <<>>
      /\ ForkKept(c, task) /\ InSync(c, task)
      /\ Switching(task) => ForkOf(task) \in Blk /\ \A j \in 1..Len(task.second) : b \notin Ancestry[task.second[j]]
  BY <1>1, <1>3, NextBlock
<1>5. Idle \in TaskType /\ Idle.at = "idle" /\ Idle.single /\ Idle.second = <<>>
  BY IdleTask
<1>6. CASE /\ Applies(c, b)
           /\ c' = Applied(c, b)
           /\ task' = IF Len(task.todo) = 1 \/ (quit /\ ~ Switching(task)) THEN Idle
                      ELSE [task EXCEPT !.todo = Tail(@), !.done = @ + 1]
           /\ UNCHANGED <<lost_sync, append_fails>>
  <2>1. PICK r : r = Applied(c, b)
    OBVIOUS
  <2>2. /\ ChainInv(r) /\ r.head = b /\ r.state = b
        /\ Onward(c, r)
        /\ r.db.index = {x \in c.db.index : r.db.root \in Ancestry[x] /\ x # r.db.root}
        /\ HeadInv(c) /\ previous[b] = c.head /\ b \in c.db.index => HeadInv(r) /\ r.db.root \in Ancestry[b]
    BY <1>1, <2>1, AppliedIs
  <2>3. BranchInv(r) /\ r.db.root \in Ancestry[b]
    BY <1>1, <1>4, <1>6, <2>2 DEF HeadInv, Applies
  <2>4. CASE task' = Idle
    <3>1. TaskInv(r, Idle)
      BY IdleTask
    <3> QED BY <1>1, <1>5, <1>6, <2>1, <2>2, <2>3, <2>4, <3>1 DEF Keeps
  <2>5. CASE Len(task.todo) # 1 /\ task' = [task EXCEPT !.todo = Tail(@), !.done = @ + 1]
    <3>1. task' = [at |-> task.at, single |-> task.single, todo |-> Tail(task.todo), done |-> task.done + 1,
                   second |-> task.second]
      BY <1>1, <2>5 DEF TaskType
    <3>2. PICK u : u = task'
      OBVIOUS
    <3>3. /\ u.at = task.at /\ u.single = task.single /\ u.todo = Tail(task.todo) /\ u.second = task.second
          /\ u.done = task.done + 1
      BY <3>1, <3>2
    <3>4. Len(task.todo) > 1 /\ Tail(task.todo) \in Seq(Blk) /\ Tail(task.todo) # <<>>
      <4>1. Len(task.todo) # 1
        BY <2>5
      <4> QED BY <1>1, <1>2, <4>1, TailIs
    <3>5. u \in TaskType
      BY <1>1, <1>2, <3>1, <3>2, <3>4 DEF TaskType
    <3>6. c.db.root \in Ancestry[r.db.root]
      BY <2>2 DEF Onward
    <3>7. TaskInv(r, u)
      BY <1>1, <1>3, <2>2, <2>3, <3>3, <3>4, <3>6, TaskMoves
    <3> QED BY ZenonT(60), SMTT(60), <1>1, <1>6, <2>1, <2>2, <2>3, <3>2, <3>3, <3>4, <3>5, <3>7 DEF Keeps
  <2> QED BY <1>6, <2>4, <2>5
<1>7. CASE Thrown(c, b) /\ UNCHANGED append_fails
  <2>1. /\ ChainInv(c') /\ task' \in TaskType /\ (task'.at # "idle" => task'.todo # <<>>)
        /\ c'.db.root = c.db.root /\ c'.db.pending = c.db.pending
        /\ BranchInv(c') /\ TaskInv(c', task')
        /\ HeadInv(c) => HeadInv(c')
        /\ InSync(c, task) /\ ~ lost_sync => ~ lost_sync'
    BY <1>1, <1>4, <1>7, ThrownStep
  <2>2. Onward(c, c')
    BY <1>1, <2>1, OnwardSame
  <2> QED BY <1>1, <1>4, <1>7, <2>1, <2>2 DEF Keeps, HeadInv
<1>8. CASE Applies(c, b) /\ append_fails' = append_fails + 1 /\ \E e \in FailedApplies(c, b) : Thrown(e, b)
  <2>1. PICK e \in FailedApplies(c, b) : Thrown(e, b)
    BY <1>8
  <2>2. HeadInv(c)
    BY <1>1, <1>8 DEF HeadInv, Applies
  <2>3. /\ ChainInv(e) /\ Onward(c, e) /\ BranchInv(e)
        /\ e.head = b /\ previous[b] \in e.db.valid /\ e.state # b
        /\ e.db.index = {x \in c.db.index : e.db.root \in Ancestry[x] /\ x # e.db.root}
    BY <1>1, <1>4, <2>1, <2>2, FailedIs
  <2>4. ForkKept(e, task)
    <3>1. CASE Switching(task)
      <4>1. c.db.root \in Ancestry[e.db.root]
        BY <2>3 DEF Onward
      <4> QED BY <1>1, <1>4, <2>3, <3>1, <4>1, SecondKept
    <3>2. CASE ~ Switching(task)
      BY <3>2 DEF ForkKept
    <3> QED BY <3>1, <3>2
  <2>5. /\ ChainInv(c') /\ task' \in TaskType /\ (task'.at # "idle" => task'.todo # <<>>)
        /\ c'.db.root = e.db.root /\ c'.db.pending = e.db.pending
        /\ BranchInv(c') /\ TaskInv(c', task')
    BY <1>1, <1>4, <2>1, <2>3, <2>4, ThrownStep
  <2>6. Onward(c, c')
    BY <2>3, <2>5 DEF Onward, Final
  <2> QED BY <1>1, <1>8, <2>5, <2>6 DEF Keeps
<1> QED BY <1>3, <1>6, <1>7, <1>8 DEF ApplyNext

\* One block of the old branch is applied again.
LEMMA ReapplyNextStep ==
  ASSUME ForkInv, ReapplyNext
  PROVE  Keeps(c)
<1>1. /\ ChainInv(c) /\ BranchInv(c) /\ TaskInv(c, task) /\ append_fails \in Nat
      /\ task \in TaskType /\ task.at = "reapply" /\ task.at # "idle" /\ task.at # "apply" /\ task.todo # <<>>
      /\ lost_sync' = lost_sync
  BY DEF ForkInv, StateInv, ReapplyNext
<1>2. task.todo \in Seq(Blk) /\ Len(task.todo) \in Nat /\ 1 \in 1..Len(task.todo) /\ task.done \in Nat
  BY <1>1 DEF TaskType
<1>3. PICK b \in Blk : b = task.todo[1] /\ b = Head(task.todo)
  BY <1>2
<1>4. b \in c.db.index /\ previous[b] = c.head
  BY <1>1, <1>3, NextBlock
<1>5. Idle \in TaskType /\ Idle.at = "idle" /\ Idle.single /\ Idle.second = <<>>
  BY IdleTask
<1>6. ASSUME NEW f PROVE TaskInv(f, Idle)
  BY IdleTask
<1>7. CASE /\ Applies(c, b)
           /\ c' = Applied(c, b)
           /\ task' = IF Len(task.todo) = 1 THEN Idle ELSE [task EXCEPT !.todo = Tail(@)]
           /\ UNCHANGED append_fails
  <2>1. PICK r : r = Applied(c, b)
    OBVIOUS
  <2>2. /\ ChainInv(r) /\ r.head = b /\ r.state = b
        /\ Onward(c, r)
        /\ r.db.index = {x \in c.db.index : r.db.root \in Ancestry[x] /\ x # r.db.root}
        /\ HeadInv(c) /\ previous[b] = c.head /\ b \in c.db.index => HeadInv(r) /\ r.db.root \in Ancestry[b]
    BY <1>1, <2>1, AppliedIs
  <2>3. BranchInv(r) /\ r.db.root \in Ancestry[b]
    BY <1>1, <1>4, <1>7, <2>2 DEF HeadInv, Applies
  <2>4. CASE task' = Idle
    BY <1>1, <1>5, <1>6, <1>7, <2>1, <2>2, <2>3, <2>4 DEF Keeps
  <2>5. CASE Len(task.todo) # 1 /\ task' = [task EXCEPT !.todo = Tail(@)]
    <3>1. task' = [at |-> task.at, single |-> task.single, todo |-> Tail(task.todo), done |-> task.done,
                   second |-> task.second]
      BY <1>1, <2>5 DEF TaskType
    <3>2. PICK u : u = task'
      OBVIOUS
    <3>3. u.at = task.at /\ u.single = task.single /\ u.todo = Tail(task.todo) /\ u.second = task.second
      BY <3>1, <3>2
    <3>4. Len(task.todo) > 1 /\ Tail(task.todo) \in Seq(Blk) /\ Tail(task.todo) # <<>>
      <4>1. Len(task.todo) # 1
        BY <2>5
      <4> QED BY <1>1, <1>2, <4>1, TailIs
    <3>5. u \in TaskType
      BY <1>1, <1>2, <3>1, <3>2, <3>4 DEF TaskType
    <3>6. c.db.root \in Ancestry[r.db.root]
      BY <2>2 DEF Onward
    <3>7. TaskInv(r, u)
      BY <1>1, <1>3, <2>2, <2>3, <3>3, <3>4, <3>6, TaskMoves
    <3> QED BY <1>1, <1>7, <2>1, <2>2, <2>3, <3>2, <3>3, <3>4, <3>5, <3>7 DEF Keeps
  <2> QED BY <1>7, <2>4, <2>5
<1>8. CASE task' = Idle /\ UNCHANGED <<c, append_fails>>
  BY <1>1, <1>5, <1>6, <1>8, OnwardSame DEF Keeps
<1>9. CASE Applies(c, b) /\ append_fails' = append_fails + 1 /\ c' \in FailedApplies(c, b) /\ task' = Idle
  <2>1. HeadInv(c)
    BY <1>1, <1>9 DEF HeadInv, Applies
  <2>2. ChainInv(c') /\ Onward(c, c') /\ BranchInv(c')
    BY <1>1, <1>4, <1>9, <2>1, FailedIs
  <2> QED BY <1>1, <1>5, <1>6, <1>9, <2>2 DEF Keeps
<1> QED BY <1>3, <1>7, <1>8, <1>9 DEF ReapplyNext

\* Every step of every thread keeps the invariant.
LEMMA ForkStep ==
  ASSUME ForkInv, [Next]_vars
  PROVE  ForkInv' /\ Onward(c, c')
<1>1. /\ ChainInv(c) /\ BranchInv(c) /\ TaskInv(c, task)
      /\ task \in TaskType /\ append_fails \in Nat /\ creating \subseteq Blk /\ handles \subseteq Blk
      /\ task.at # "idle" => task.todo # <<>>
  BY DEF ForkInv, StateInv
<1>2. Idle \in TaskType /\ Idle.at = "idle" /\ Idle.single /\ Idle.second = <<>>
  BY IdleTask
<1>3. ASSUME NEW f PROVE TaskInv(f, Idle)
  BY IdleTask
<1>4. CASE ApplyNext
  <2>1. creating' \subseteq Blk /\ handles' \subseteq Blk
    BY <1>1, <1>4 DEF ApplyNext, MainOnly
  <2> QED BY <1>4, <2>1, ApplyNextStep, KeepsInv
<1>5. CASE ReapplyNext
  <2>1. creating' \subseteq Blk /\ handles' \subseteq Blk
    BY <1>1, <1>5 DEF ReapplyNext, MainOnly
  <2> QED BY <1>5, <2>1, ReapplyNextStep, KeepsInv
<1>6. CASE SwitchForks
  <2>1. creating' \subseteq Blk /\ handles' \subseteq Blk
    BY <1>1, <1>6 DEF SwitchForks, MainOnly
  <2>2. task = Idle /\ maybe_switch_forks(c, head(c.db))
    BY <1>6 DEF SwitchForks, Ready
  <2> QED BY <1>1, <2>1, <2>2, SwitchStep, KeepsInv
<1>7. ASSUME NEW b \in Blk, PushBlock(b) PROVE ForkInv' /\ Onward(c, c')
  <2>1. task = Idle /\ creating' \subseteq Blk /\ handles' \subseteq Blk
    BY <1>1, <1>7 DEF PushBlock, Ready
  <2>2. CASE UNCHANGED <<c, task, lost_sync, append_fails>>
    BY <1>1, <2>1, <2>2, OnwardSame, KeepsInv DEF Keeps
  <2>3. CASE ~ UNCHANGED <<c, task, lost_sync, append_fails>>
    <3>1. PICK e : e = [c EXCEPT !.db = add(@, b)]
      OBVIOUS
    <3>2. Linkable(c.db, b) /\ maybe_switch_forks(e, head(e.db))
      BY <1>7, <2>3, <3>1 DEF PushBlock
    <3>3. ChainInv(e) /\ BranchInv(e) /\ e.head = c.head /\ e.state = c.state /\ Onward(c, e)
      BY <1>1, <3>1, <3>2, AddedIs
    <3>4. Keeps(e)
      BY <1>1, <2>1, <3>2, <3>3, SwitchStep
    <3>5. Keeps(c)
      BY <3>3, <3>4, OnwardTransitive DEF Keeps
    <3> QED BY <2>1, <3>5, KeepsInv
  <2> QED BY <2>2, <2>3
<1>8. ASSUME NEW b \in Blk, c' = [c EXCEPT !.db = add(@, b)], Linkable(c.db, b), UNCHANGED <<task, lost_sync, append_fails>>,
             creating' \subseteq Blk, handles' \subseteq Blk
      PROVE  ForkInv' /\ Onward(c, c')
  <2>1. ChainInv(c') /\ Onward(c, c') /\ BranchInv(c') /\ c'.head = c.head /\ c'.state = c.state /\ TaskInv(c', task)
    BY <1>1, <1>8, AddedIs
  <2>2. Keeps(c)
    BY <1>1, <1>8, <2>1 DEF Keeps
  <2> QED BY <1>8, <2>2, KeepsInv
<1>9. ASSUME UNCHANGED <<c, task, lost_sync, append_fails>>, creating' \subseteq Blk, handles' \subseteq Blk
      PROVE  ForkInv' /\ Onward(c, c')
  BY <1>1, <1>9, OnwardSame, KeepsInv DEF Keeps
<1>10. ASSUME NEW b \in Blk, AcceptBlock(b) PROVE ForkInv' /\ Onward(c, c')
  <2>1. creating' \subseteq Blk /\ handles' \subseteq Blk /\ UNCHANGED <<task, lost_sync, append_fails>>
    BY <1>1, <1>10 DEF AcceptBlock
  <2>2. CASE Linkable(c.db, b)
    BY <1>8, <1>10, <2>1, <2>2 DEF AcceptBlock
  <2>3. CASE ~ Linkable(c.db, b)
    BY <1>9, <1>10, <2>1, <2>3 DEF AcceptBlock
  <2> QED BY <2>2, <2>3
<1>11. ASSUME NEW b \in Blk, Produce(b) PROVE ForkInv' /\ Onward(c, c')
  <2>1. /\ task = Idle /\ creating' \subseteq Blk /\ handles' \subseteq Blk /\ UNCHANGED <<task, lost_sync>>
        /\ Linkable(c.db, b) /\ previous[b] = c.head /\ c.state = c.head
    BY <1>1, <1>11 DEF Produce, Ready, Applies
  <2>2. PICK e : e = [c EXCEPT !.db = add(@, b)]
    OBVIOUS
  <2>3. ChainInv(e) /\ BranchInv(e) /\ e.head = c.head /\ e.state = c.state /\ Onward(c, e)
    BY <1>1, <2>1, <2>2, AddedIs
  <2>4. HeadInv(e) /\ b \in e.db.index
    <3>1. Indexed(c, b, e)
      BY <1>1, <2>1, <2>2, AddedIndex
    <3> QED BY <2>1, <2>3, <3>1 DEF HeadInv, Indexed
  <2>5. CASE c' = Applied(e, b) /\ UNCHANGED append_fails
    <3>1. ChainInv(c') /\ HeadInv(c') /\ Onward(e, c')
      BY <2>1, <2>3, <2>4, <2>5, AppliedIs
    <3>2. Onward(c, c')
      BY <2>3, <3>1, OnwardTransitive
    <3>3. Keeps(c)
      BY <1>1, <1>2, <1>3, <2>1, <2>5, <3>1, <3>2 DEF Keeps, HeadInv
    <3> QED BY <2>1, <3>3, KeepsInv
  <2>6. CASE append_fails' = append_fails + 1 /\ c' \in FailedApplies(e, b)
    <3>1. ChainInv(c') /\ Onward(e, c') /\ BranchInv(c')
      BY <2>1, <2>3, <2>4, <2>6, FailedIs
    <3>2. Onward(c, c')
      BY <2>3, <3>1, OnwardTransitive
    <3>3. Keeps(c)
      BY <1>1, <1>2, <1>3, <2>1, <2>6, <3>1, <3>2 DEF Keeps
    <3> QED BY <2>1, <3>3, KeepsInv
  <2> QED BY <1>11, <2>2, <2>5, <2>6 DEF Produce
<1>12. ASSUME NEW b \in Blk, CreateBlock(b) PROVE ForkInv' /\ Onward(c, c')
  <2>1. creating' \subseteq Blk /\ handles' \subseteq Blk /\ UNCHANGED <<c, task, lost_sync, append_fails>>
    BY <1>1, <1>12 DEF CreateBlock
  <2> QED BY <1>9, <2>1
<1>13. ASSUME NEW b \in Blk, AddBlock(b) PROVE ForkInv' /\ Onward(c, c')
  <2>1. creating' \subseteq Blk /\ handles' \subseteq Blk /\ UNCHANGED <<task, lost_sync, append_fails>>
    BY <1>1, <1>13 DEF AddBlock
  <2>2. CASE Linkable(c.db, b)
    BY <1>8, <1>13, <2>1, <2>2 DEF AddBlock
  <2>3. CASE ~ Linkable(c.db, b)
    BY <1>9, <1>13, <2>1, <2>3 DEF AddBlock
  <2> QED BY <2>2, <2>3
<1>14. CASE Quit
  BY <1>1, <1>9, <1>14 DEF Quit
<1>15. CASE UNCHANGED vars
  BY <1>1, <1>9, <1>15 DEF vars
<1> QED BY <1>4, <1>5, <1>6, <1>7, <1>10, <1>11, <1>12, <1>13, <1>14, <1>15 DEF Next, MainThread

\* A node that starts at the genesis block.
LEMMA ForkInit ==
  Init => ForkInv
<1> SUFFICES ASSUME Init PROVE ForkInv
  OBVIOUS
<1>1. c = [db |-> [root |-> Genesis, index |-> {}, pending |-> Genesis, valid |-> {Genesis}],
           head |-> Genesis, state |-> Genesis, committed |-> Genesis, blog |-> Genesis]
  BY DEF Init, NewDb
<1>2. PICK d : d = c.db
  OBVIOUS
<1>3. /\ d = [root |-> Genesis, index |-> {}, pending |-> Genesis, valid |-> {Genesis}]
      /\ d.root = Genesis /\ d.index = {} /\ d.pending = Genesis /\ d.valid = {Genesis}
      /\ c.head = Genesis /\ c.state = Genesis /\ c.committed = Genesis /\ c.blog = Genesis
  BY <1>1, <1>2
<1>4. Genesis \in Blk /\ Genesis \in Ancestry[Genesis] /\ IsFiniteSet({})
  BY TreeAssumption, FS_EmptySet
<1>5. DbInv(d)
  BY <1>3, <1>4 DEF DbInv
<1>6. ChainInv(c)
  BY <1>1, <1>2, <1>3, <1>4, <1>5 DEF ChainInv
<1>7. BranchInv(c) /\ c.state = c.head
  BY <1>2, <1>3 DEF BranchInv, ValidInv
<1>8. Idle \in TaskType /\ Idle.at = "idle" /\ Idle.single /\ Idle.second = <<>> /\ task = Idle
  BY IdleTask DEF Init
<1>9. TaskInv(c, task)
  BY <1>8, IdleTask
<1> QED BY <1>6, <1>7, <1>8, <1>9 DEF ForkInv, StateInv, SyncInv, Init

-------------------------------------------------------------------------------
(* A start of the node.                                                      *)

\* The branch of a validated block, down to the root, is validated.
LEMMA ValidatedBranch ==
  ASSUME NEW e, ChainInv(e), BranchInv(e), NEW h \in e.db.valid
  PROVE  Ancestry[h] \ Ancestry[e.db.root] \subseteq e.db.valid
<1> DEFINE P(x) == x \in e.db.valid => Ancestry[x] \ Ancestry[e.db.root] \subseteq e.db.valid
           S == {x \in Blk : P(x)}
<1>0. e.db.root \in Blk /\ e.db.root \in Ancestry[e.db.root] /\ e.db.valid \subseteq Blk
  BY AncestorsAre DEF ChainInv, DbInv, BranchInv, ValidInv
<1>1. Genesis \in S
  BY TreeAssumption
<1>2. ASSUME NEW x \in Blk \ {Genesis}, previous[x] \in S PROVE x \in S
  <2>1. Ancestry[x] = {x} \cup Ancestry[previous[x]]
    BY ParentIs
  <2>2. P(previous[x])
    BY <1>2
  <2>3. CASE x = e.db.root
    BY <2>3
  <2>4. CASE x # e.db.root
    <3>1. x \in e.db.valid => previous[x] \in e.db.valid
      BY <2>4 DEF BranchInv, ValidInv
    <3>2. P(x)
      BY <2>1, <2>2, <3>1
    <3> QED BY <3>2
  <2> QED BY <2>3, <2>4
<1>3. \A x \in Blk : x \in S
  <2>1. S \in SUBSET Blk
    OBVIOUS
  <2> HIDE DEF S
  <2> QED BY <1>1, <1>2, <2>1, TreeInduction
<1>4. h \in S
  BY <1>0, <1>3
<1> QED BY <1>4

\* g[i] is what was read after i blocks of d's file.
Reads(d, n, g) == g = [i \in 0..n |-> IF i = 0 THEN reset_root(d, d.root) ELSE ReadNext(d, g[i - 1])]

\* There is such a g.
LEMMA ReadsExist ==
  ASSUME NEW d, NEW n \in Nat
  PROVE  \E g : Reads(d, n, g)
<1> DEFINE z == reset_root(d, d.root)
           Step(r) == ReadNext(d, r)
           S == {m \in Nat : \E g : Reads(d, m, g)}
<1>1. 0 \in S
  <2>1. PICK g : g = [i \in 0..0 |-> z]
    OBVIOUS
  <2>2. g = [i \in 0..0 |-> IF i = 0 THEN z ELSE Step(g[i - 1])]
    <3> HIDE DEF z, Step
    <3> QED BY <2>1
  <2> QED BY <2>2 DEF Reads
<1>2. ASSUME NEW m \in S PROVE m + 1 \in S
  <2>1. PICK g : Reads(d, m, g)
    OBVIOUS
  <2>2. g = [i \in 0..m |-> IF i = 0 THEN z ELSE Step(g[i - 1])]
    BY <2>1 DEF Reads
  <2> HIDE DEF z, Step
  <2>3. g[0] = z /\ \A i \in 1..m : g[i] = Step(g[i - 1])
    <3> DEFINE G == [i \in 0..m |-> IF i = 0 THEN z ELSE Step(g[i - 1])]
    <3>1. G[0] = z /\ \A i \in 1..m : G[i] = Step(g[i - 1])
      OBVIOUS
    <3> HIDE DEF G
    <3>2. g = G
      BY <2>2 DEF G
    <3> QED BY <3>1, <3>2
  <2>4. PICK h : h = [i \in 0..(m + 1) |-> IF i = m + 1 THEN Step(g[m]) ELSE g[i]]
    OBVIOUS
  <2>5. \A i \in 0..m : h[i] = g[i]
    BY <2>4
  <2>6. \A i \in 0..(m + 1) : h[i] = IF i = 0 THEN z ELSE Step(h[i - 1])
    <3> SUFFICES ASSUME NEW i \in 0..(m + 1) PROVE h[i] = IF i = 0 THEN z ELSE Step(h[i - 1])
      OBVIOUS
    <3>1. CASE i = 0
      BY <2>3, <2>5, <3>1
    <3>2. CASE i = m + 1
      <4>1. h[m] = g[m] /\ h[m + 1] = Step(g[m])
        BY <2>4, <2>5
      <4> QED BY <3>2, <4>1
    <3>3. CASE i # 0 /\ i # m + 1
      <4>1. i \in 1..m /\ i - 1 \in 0..m /\ i \in 0..m
        BY <3>3
      <4>2. h[i] = g[i] /\ h[i - 1] = g[i - 1] /\ g[i] = Step(g[i - 1])
        BY <2>3, <2>5, <4>1
      <4> QED BY <3>3, <4>2
    <3> QED BY <3>1, <3>2, <3>3
  <2>7. h = [i \in 0..(m + 1) |-> IF i = 0 THEN z ELSE Step(h[i - 1])]
    BY <2>4, <2>6
  <2>8. Reads(d, m + 1, h)
    BY <2>7 DEF Reads, z, Step
  <2> QED BY <2>8
<1>3. S \in SUBSET Nat
  OBVIOUS
<1>4. n \in S
  <2> HIDE DEF S
  <2>1. \A m \in 0..n : m \in S
    BY <1>1, <1>2, <1>3, NumInduction
  <2> QED BY <2>1
<1> QED BY <1>4

\* r is a part of d, as it was read from d's file.
PartOf(r, d) ==
  /\ DbInv(r) /\ r.root = d.root /\ r.pending = d.pending
  /\ r.index \subseteq d.index /\ r.valid = {d.root} \cup (r.index \cap d.valid)

\* The worst block that was not read yet is built on one that was, so that it is
\* linkable; and what it claims is pending already.
LEMMA ReadOne ==
  ASSUME NEW d, DbInv(d), NEW r, PartOf(r, d), r.index # d.index, NEW q, q = ReadNext(d, r)
  PROVE  PartOf(q, d) /\ Cardinality(q.index) = Cardinality(r.index) + 1
<1>1. /\ DbInv(r) /\ r.root = d.root /\ r.pending = d.pending
      /\ r.index \subseteq d.index /\ r.valid = {d.root} \cup (r.index \cap d.valid)
      /\ d.index \subseteq Blk /\ IsFiniteSet(d.index) /\ IsFiniteSet(r.index)
  BY DEF PartOf, DbInv
<1>2. PICK left : left = d.index \ r.index
  OBVIOUS
<1>3. left # {} /\ left \in SUBSET Blk /\ left \in SUBSET d.index
  BY <1>1, <1>2
<1>4. IsFiniteSet(left)
  BY <1>1, <1>3, FS_Subset
<1>5. PICK b : b = Worst(left)
  OBVIOUS
<1>6. b \in left /\ \A x \in left \ {b} : IsBetter(x, b)
  <2>1. \E y \in left : \A x \in left \ {y} : IsBetter(x, y)
    BY <1>3, <1>4, ExtremesExist
  <2> QED BY <1>5, <2>1 DEF Worst
<1>7. b \in Blk /\ b \in d.index /\ b \notin r.index /\ b # Genesis
  BY <1>2, <1>3, <1>6, RootIsBelow
<1>8. previous[b] \in d.index \cup {d.root}
  BY <1>7 DEF DbInv, get_block
<1>9. previous[b] \notin left
  <2>1. previous[b] \in Ancestry[b] /\ previous[b] # b
    <3>1. previous[b] \in Blk /\ num[b] = num[previous[b]] + 1 /\ Ancestry[b] = {b} \cup Ancestry[previous[b]]
      BY <1>7, ParentIs
    <3>2. num[previous[b]] \in Nat /\ previous[b] \in Ancestry[previous[b]]
      BY <3>1, NumType, AncestorsAre
    <3> QED BY <3>1, <3>2
  <2>2. ~ IsBetter(previous[b], b)
    BY <1>7, <2>1, DescendantIsBetter
  <2> QED BY <1>6, <2>1, <2>2
<1>10. Linkable(r, b)
  BY <1>1, <1>2, <1>8, <1>9 DEF Linkable, get_block
<1>11. ClaimDone(r, b)
  BY <1>1, <1>7 DEF DbInv, ClaimDone
<1>12. PICK a : a = add(r, b)
  OBVIOUS
<1>13. DbInv(a) /\ a.root = r.root /\ a.index = r.index \cup {b} /\ a.valid = r.valid /\ a.pending = r.pending
  BY <1>1, <1>7, <1>10, <1>11, <1>12, AddIs
<1>14. q = [a EXCEPT !.valid = @ \cup ({b} \cap d.valid)]
  BY <1>2, <1>5, <1>10, <1>12 DEF ReadNext
<1>15. q = [root |-> a.root, index |-> a.index, pending |-> a.pending, valid |-> a.valid \cup ({b} \cap d.valid)]
  BY <1>13, <1>14 DEF DbInv
<1>16. q.root = a.root /\ q.index = a.index /\ q.pending = a.pending /\ q.valid = a.valid \cup ({b} \cap d.valid)
  BY <1>15
<1>17. DbInv(q)
  <2>1. \A x \in q.index : ClaimDone(q, x)
    BY <1>13, <1>16 DEF DbInv, ClaimDone
  <2> QED BY <1>13, <1>15, <1>16, <2>1 DEF DbInv, get_block
<1>18. q.valid = {d.root} \cup (q.index \cap d.valid)
  BY <1>1, <1>13, <1>16
<1>19. Cardinality(q.index) = Cardinality(r.index) + 1
  <2>1. q.index = r.index \cup {b}
    BY <1>13, <1>16
  <2>2. Cardinality(r.index \cup {b}) = Cardinality(r.index) + 1
    BY <1>1, <1>7, FS_AddElement
  <2> QED BY <2>1, <2>2
<1> QED BY <1>1, <1>7, <1>13, <1>16, <1>17, <1>18, <1>19 DEF PartOf

\* The fork database's file is read back as it was written.
LEMMA OpenedIs ==
  ASSUME NEW d, DbInv(d), ValidInv(d)
  PROVE  Opened(d) = d
<1>1. /\ d = [root |-> d.root, index |-> d.index, pending |-> d.pending, valid |-> d.valid]
      /\ d.root \in Blk /\ d.pending \in Blk /\ IsFiniteSet(d.index)
  BY DEF DbInv
<1>2. PICK n \in Nat : n = Cardinality(d.index)
  BY <1>1, FS_CardinalityType
<1>3. PICK g : g = CHOOSE h : Reads(d, n, h)
  OBVIOUS
<1>4. Reads(d, n, g)
  BY <1>3, ReadsExist
<1>5. Opened(d) = g[n]
  BY <1>2, <1>3 DEF Opened, Reads
<1> DEFINE z == reset_root(d, d.root)
           Step(r) == ReadNext(d, r)
<1>6. g = [i \in 0..n |-> IF i = 0 THEN z ELSE Step(g[i - 1])]
  BY <1>4 DEF Reads
<1>7. g[0] = z /\ \A i \in 0..(n - 1) : g[i + 1] = Step(g[i])
  <2> HIDE DEF z, Step
  <2> DEFINE G == [i \in 0..n |-> IF i = 0 THEN z ELSE Step(g[i - 1])]
  <2>1. G[0] = z /\ \A i \in 0..(n - 1) : G[i + 1] = Step(g[i])
    OBVIOUS
  <2> HIDE DEF G
  <2>2. g = G
    BY <1>6 DEF G
  <2> QED BY <2>1, <2>2
<1> DEFINE P(i) == PartOf(g[i], d) /\ Cardinality(g[i].index) = i
           S == {i \in 0..n : P(i)}
<1>8. 0 \in S
  <2>1. PICK r : r = g[0]
    OBVIOUS
  <2>2. r = [root |-> d.root, index |-> {}, pending |-> d.pending, valid |-> {d.root}]
    BY <1>1, <1>7, <2>1 DEF reset_root
  <2>3. r.root = d.root /\ r.index = {} /\ r.pending = d.pending /\ r.valid = {d.root}
    BY <2>2
  <2>4. IsFiniteSet({}) /\ Cardinality({}) = 0
    BY FS_EmptySet
  <2>5. DbInv(r)
    BY <1>1, <2>2, <2>3, <2>4 DEF DbInv
  <2>6. PartOf(r, d) /\ Cardinality(r.index) = 0
    BY <2>3, <2>4, <2>5 DEF PartOf
  <2> QED BY <2>1, <2>6
<1>9. ASSUME NEW m \in S, m < n PROVE m + 1 \in S
  <2>1. m \in 0..(n - 1) /\ m + 1 \in 0..n /\ m # n
    BY <1>9
  <2>2. PICK r : r = g[m]
    OBVIOUS
  <2>3. PICK q : q = g[m + 1]
    OBVIOUS
  <2>4. PartOf(r, d) /\ Cardinality(r.index) = m
    BY <2>2
  <2>5. q = ReadNext(d, r)
    BY <1>7, <2>1, <2>2, <2>3
  <2>6. r.index # d.index
    BY <1>2, <2>1, <2>4
  <2>7. PartOf(q, d) /\ Cardinality(q.index) = m + 1
    BY <2>4, <2>5, <2>6, ReadOne
  <2> QED BY <2>1, <2>3, <2>7
<1>10. S \in SUBSET Nat
  OBVIOUS
<1>11. n \in S
  <2> HIDE DEF S
  <2>1. \A m \in 0..n : m \in S
    BY <1>8, <1>9, <1>10, NumInduction
  <2> QED BY <2>1
<1>12. PICK r : r = g[n]
  OBVIOUS
<1>13. PartOf(r, d) /\ Cardinality(r.index) = n
  BY <1>11, <1>12
<1>14. r.index = d.index
  BY <1>1, <1>2, <1>13, FS_Subset DEF PartOf
<1>15. r.valid = d.valid
  BY <1>13, <1>14 DEF PartOf, ValidInv
<1>16. r = d
  BY <1>1, <1>13, <1>14, <1>15 DEF PartOf, DbInv
<1> QED BY <1>5, <1>12, <1>16

\* g[i] is the chain after i blocks of todo were replayed.
Pushes(e, todo, n, g) == g = [i \in 0..n |-> IF i = 0 THEN e ELSE replay_push_block(g[i - 1], todo[i])]

\* There is such a g.
LEMMA PushesExist ==
  ASSUME NEW e, NEW todo, NEW n \in Nat
  PROVE  \E g : Pushes(e, todo, n, g)
<1> DEFINE Step(f, i) == replay_push_block(f, todo[i])
           S == {m \in Nat : \E g : Pushes(e, todo, m, g)}
<1>1. 0 \in S
  <2>1. PICK g : g = [i \in 0..0 |-> e]
    OBVIOUS
  <2>2. g = [i \in 0..0 |-> IF i = 0 THEN e ELSE Step(g[i - 1], i)]
    <3> HIDE DEF Step
    <3> QED BY <2>1
  <2> QED BY <2>2 DEF Pushes
<1>2. ASSUME NEW m \in S PROVE m + 1 \in S
  <2>1. PICK g : Pushes(e, todo, m, g)
    OBVIOUS
  <2>2. g = [i \in 0..m |-> IF i = 0 THEN e ELSE Step(g[i - 1], i)]
    BY <2>1 DEF Pushes
  <2> HIDE DEF Step
  <2>3. g[0] = e /\ \A i \in 1..m : g[i] = Step(g[i - 1], i)
    <3> DEFINE G == [i \in 0..m |-> IF i = 0 THEN e ELSE Step(g[i - 1], i)]
    <3>1. G[0] = e /\ \A i \in 1..m : G[i] = Step(g[i - 1], i)
      OBVIOUS
    <3> HIDE DEF G
    <3>2. g = G
      BY <2>2 DEF G
    <3> QED BY <3>1, <3>2
  <2>4. PICK h : h = [i \in 0..(m + 1) |-> IF i = m + 1 THEN Step(g[m], m + 1) ELSE g[i]]
    OBVIOUS
  <2>5. \A i \in 0..m : h[i] = g[i]
    BY <2>4
  <2>6. \A i \in 0..(m + 1) : h[i] = IF i = 0 THEN e ELSE Step(h[i - 1], i)
    <3> SUFFICES ASSUME NEW i \in 0..(m + 1) PROVE h[i] = IF i = 0 THEN e ELSE Step(h[i - 1], i)
      OBVIOUS
    <3>1. CASE i = 0
      BY <2>3, <2>5, <3>1
    <3>2. CASE i = m + 1
      <4>1. h[m] = g[m] /\ h[m + 1] = Step(g[m], m + 1)
        BY <2>4, <2>5
      <4> QED BY <3>2, <4>1
    <3>3. CASE i # 0 /\ i # m + 1
      <4>1. i \in 1..m /\ i - 1 \in 0..m /\ i \in 0..m
        BY <3>3
      <4>2. h[i] = g[i] /\ h[i - 1] = g[i - 1] /\ g[i] = Step(g[i - 1], i)
        BY <2>3, <2>5, <4>1
      <4> QED BY <3>3, <4>2
    <3> QED BY <3>1, <3>2, <3>3
  <2>7. h = [i \in 0..(m + 1) |-> IF i = 0 THEN e ELSE Step(h[i - 1], i)]
    BY <2>4, <2>6
  <2>8. Pushes(e, todo, m + 1, h)
    BY <2>7 DEF Pushes, Step
  <2> QED BY <2>8
<1>3. S \in SUBSET Nat
  OBVIOUS
<1>4. n \in S
  <2> HIDE DEF S
  <2>1. \A m \in 0..n : m \in S
    BY <1>1, <1>2, <1>3, NumInduction
  <2> QED BY <2>1
<1> QED BY <1>4

\* One block is replayed on the head: what is built on it stays.
LEMMA PushOne ==
  ASSUME NEW e, ChainInv(e), HeadInv(e), NEW b \in e.db.index, previous[b] = e.head,
         NEW r, r = replay_push_block(e, b)
  PROVE  /\ ChainInv(r) /\ HeadInv(r) /\ Onward(e, r) /\ r.head = b
         /\ \A x \in e.db.index : b \in Ancestry[x] /\ num[b] < num[x] => x \in r.db.index
<1>1. b \in Blk /\ DbInv(e.db)
  BY DEF ChainInv, DbInv
<1>2. e.head \in e.db.index \cup {e.db.root}
  BY DEF HeadInv, BranchInv, ValidInv
<1>3. Linkable(e.db, b)
  BY <1>2 DEF Linkable, get_block
<1>4. PICK a : a = [e EXCEPT !.db = add(@, b)]
  OBVIOUS
<1>5. /\ ChainInv(a) /\ BranchInv(a) /\ a.head = e.head /\ a.state = e.state /\ Onward(e, a)
      /\ b \in a.db.index /\ e.db.index \subseteq a.db.index
  <2>1. BranchInv(e)
    BY DEF HeadInv
  <2>2. ChainInv(a) /\ BranchInv(a) /\ a.head = e.head /\ a.state = e.state /\ Onward(e, a)
    BY <1>1, <1>3, <1>4, <2>1, AddedIs
  <2>3. Indexed(e, b, a)
    BY <1>1, <1>3, <1>4, AddedIndex
  <2> QED BY <2>2, <2>3 DEF Indexed
<1>6. HeadInv(a) /\ previous[b] = a.head /\ b \in a.db.index
  BY <1>5 DEF HeadInv
<1>7. r = Applied(a, b)
  BY <1>4 DEF replay_push_block
<1>8. /\ ChainInv(r) /\ r.head = b /\ Onward(a, r)
      /\ r.db.index = {x \in a.db.index : r.db.root \in Ancestry[x] /\ x # r.db.root}
      /\ HeadInv(r) /\ r.db.root \in Ancestry[b]
  BY <1>1, <1>5, <1>6, <1>7, AppliedIs
<1>9. Onward(e, r)
  BY <1>5, <1>8, OnwardTransitive
<1>10. ASSUME NEW x \in e.db.index, b \in Ancestry[x], num[b] < num[x] PROVE x \in r.db.index
  <2>1. x \in Blk
    BY <1>1 DEF DbInv
  <2>2. r.db.root \in Ancestry[x]
    BY <1>8, <1>10, <2>1, AncestorTransitive
  <2>3. num[r.db.root] <= num[b] /\ num[r.db.root] \in Nat /\ num[b] \in Nat /\ num[x] \in Nat
    BY <1>1, <1>8, <2>1, AncestorsAre, NumType
  <2>4. x # r.db.root
    BY <1>10, <2>3
  <2> QED BY <1>5, <1>8, <2>2, <2>4
<1> QED BY <1>8, <1>9, <1>10

\* The blocks of a branch above the head are replayed one after the other, whatever
\* becomes irreversible on the way.
LEMMA PushedIs ==
  ASSUME NEW e, ChainInv(e), HeadInv(e), NEW h \in Blk, NEW s \in Seq(Blk), ChainOn(s, e.head),
         \A i \in 1..Len(s) : s[i] \in Ancestry[h] /\ num[s[i]] = num[e.head] + i /\ s[i] \in e.db.index,
         NEW f, f = Pushed(e, s)
  PROVE  /\ ChainInv(f) /\ HeadInv(f) /\ Onward(e, f)
         /\ f.head = IF Len(s) = 0 THEN e.head ELSE s[Len(s)]
<1>0. PICK n \in Nat : n = Len(s)
  OBVIOUS
<1>1. PICK g : g = CHOOSE y : Pushes(e, s, n, y)
  OBVIOUS
<1>2. Pushes(e, s, n, g)
  BY <1>1, PushesExist
<1>3. f = g[n]
  BY <1>0, <1>1 DEF Pushed, Pushes
<1> DEFINE Step(x, i) == replay_push_block(x, s[i])
<1>4. g = [i \in 0..n |-> IF i = 0 THEN e ELSE Step(g[i - 1], i)]
  BY <1>2 DEF Pushes
<1>5. g[0] = e /\ \A i \in 0..(n - 1) : g[i + 1] = Step(g[i], i + 1)
  <2> HIDE DEF Step
  <2> DEFINE G == [i \in 0..n |-> IF i = 0 THEN e ELSE Step(g[i - 1], i)]
  <2>1. G[0] = e /\ \A i \in 0..(n - 1) : G[i + 1] = Step(g[i], i + 1)
    OBVIOUS
  <2> HIDE DEF G
  <2>2. g = G
    BY <1>4 DEF G
  <2> QED BY <2>1, <2>2
<1> DEFINE Q(x, i) == /\ ChainInv(x) /\ HeadInv(x) /\ Onward(e, x)
                      /\ x.head = IF i = 0 THEN e.head ELSE s[i]
                      /\ \A j \in 1..n : i < j => s[j] \in x.db.index
           S == {i \in 0..n : Q(g[i], i)}
<1>6. 0 \in S
  <2>1. Onward(e, e)
    BY OnwardSame
  <2>2. Q(e, 0)
    BY <1>0, <2>1
  <2> QED BY <1>5, <2>2
<1>7. ASSUME NEW m \in S, m < n PROVE m + 1 \in S
  <2>1. m \in 0..(n - 1) /\ m + 1 \in 0..n /\ m + 1 \in 1..n /\ m \in Nat
    BY <1>7
  <2>2. PICK x : x = g[m]
    OBVIOUS
  <2>3. Q(x, m)
    BY <2>2
  <2>4. PICK b \in Blk : b = s[m + 1]
    BY <1>0, <2>1
  <2>5. b \in x.db.index /\ b \in Ancestry[h] /\ num[b] = num[e.head] + (m + 1)
    BY <1>0, <2>1, <2>3, <2>4
  <2>6. previous[b] = x.head
    <3>1. previous[b] = IF m + 1 = 1 THEN e.head ELSE s[(m + 1) - 1]
      BY <1>0, <2>1, <2>4 DEF ChainOn
    <3>2. (m + 1) - 1 = m /\ (m + 1 = 1 <=> m = 0)
      BY <2>1
    <3> QED BY <2>3, <3>1, <3>2
  <2>7. PICK r : r = replay_push_block(x, b)
    OBVIOUS
  <2>8. /\ ChainInv(r) /\ HeadInv(r) /\ Onward(x, r) /\ r.head = b
        /\ \A y \in x.db.index : b \in Ancestry[y] /\ num[b] < num[y] => y \in r.db.index
    BY <2>3, <2>5, <2>6, <2>7, PushOne
  <2>9. Onward(e, r)
    BY <2>3, <2>8, OnwardTransitive
  <2>10. ASSUME NEW j \in 1..n, m + 1 < j PROVE s[j] \in r.db.index
    <3>1. s[j] \in x.db.index /\ s[j] \in Ancestry[h] /\ num[s[j]] = num[e.head] + j
      BY <1>0, <2>1, <2>3, <2>10
    <3>2. num[e.head] \in Nat
      BY NumType DEF ChainInv
    <3>3. num[b] < num[s[j]] /\ num[b] <= num[s[j]]
      BY <2>1, <2>5, <2>10, <3>1, <3>2
    <3>4. b \in Ancestry[s[j]]
      BY <2>5, <3>1, <3>3, AncestorLinear
    <3> QED BY <2>8, <3>1, <3>3, <3>4
  <2>11. Q(r, m + 1)
    <3>1. m + 1 # 0
      BY <2>1
    <3> QED BY <2>4, <2>8, <2>9, <2>10, <3>1
  <2>12. g[m + 1] = r
    BY <1>5, <2>1, <2>2, <2>4, <2>7
  <2> HIDE DEF Q
  <2> QED BY <2>1, <2>11, <2>12
<1>8. S \in SUBSET Nat
  OBVIOUS
<1>9. n \in S
  <2> HIDE DEF S
  <2>1. \A m \in 0..n : m \in S
    BY <1>6, <1>7, <1>8, NumInduction
  <2> QED BY <2>1
<1>10. Q(g[n], n)
  BY <1>9
<1> QED BY <1>0, <1>3, <1>10

\* replay: the head moves up to the last block of the best branch that is validated
\* without a gap.
LEMMA ReplayedIs ==
  ASSUME NEW e, ChainInv(e), HeadInv(e), \A b \in Reversible(e) : e.head \in Ancestry[b], NEW r, r = Replayed(e)
  PROVE  /\ ChainInv(r) /\ HeadInv(r) /\ Onward(e, r) /\ e.head \in Ancestry[r.head]
         /\ \A b \in Reversible(e) : b \in Ancestry[r.head]
<1>1. DbInv(e.db) /\ e.head \in Blk /\ e.db.root \in Blk /\ e.db.root \in Ancestry[e.head]
  BY RootBelowHead DEF ChainInv, DbInv, HeadInv
<1>2. PICK best \in Blk : best = head(e.db)
  <2>1. CASE e.db.index = {}
    BY <1>1, <2>1 DEF head
  <2>2. CASE e.db.index # {}
    BY <1>1, <2>2, BestIs DEF DbInv
  <2> QED BY <2>1, <2>2
<1>3. Reversible(e) \in SUBSET Ancestry[best] /\ Reversible(e) \subseteq e.db.index
  BY <1>1, <1>2, WalkIs DEF Reversible
<1>4. PICK top : top = Highest(Reversible(e), e.head)
  OBVIOUS
<1>5. /\ top \in Blk /\ e.head \in Ancestry[top]
      /\ \A b \in Reversible(e) : b \in Ancestry[top]
      /\ top # e.head => top \in e.db.index
  <2>1. CASE Reversible(e) = {}
    BY <1>1, <1>4, <2>1, AncestorsAre DEF Highest
  <2>2. CASE Reversible(e) # {}
    <3>1. top \in Reversible(e) /\ \A a \in Reversible(e) : num[a] <= num[top]
      BY <1>2, <1>3, <1>4, <2>2, HighestIs
    <3>2. \A b \in Reversible(e) : b \in Ancestry[top]
      BY <1>2, <1>3, <3>1, AncestorLinear
    <3> QED BY <1>2, <1>3, <3>1, <3>2, AncestorsAre
  <2> QED BY <2>1, <2>2
<1>6. PICK s : s = BranchAbove(top, num[e.head])
  OBVIOUS
<1>7. /\ s \in Seq(Blk) /\ Len(s) = num[top] - num[e.head] /\ ChainOn(s, e.head)
      /\ \A i \in 1..Len(s) : s[i] \in Ancestry[top] /\ num[s[i]] = num[e.head] + i
  BY <1>5, <1>6, BranchAboveIs
<1>8. num[top] \in Nat /\ num[e.head] \in Nat /\ num[e.head] <= num[top] /\ num[e.db.root] \in Nat /\ num[e.db.root] <= num[e.head]
  BY <1>1, <1>5, AncestorsAre, NumType
<1>9. ASSUME NEW i \in 1..Len(s) PROVE s[i] \in e.db.index
  <2>1. s[i] \in Ancestry[top] /\ num[s[i]] = num[e.head] + i /\ i \in Nat /\ i > 0
    BY <1>7
  <2>2. s[i] \notin Ancestry[e.db.root]
    <3>1. s[i] \in Ancestry[e.db.root] => num[s[i]] <= num[e.db.root]
      BY <1>1, AncestorsAre
    <3> QED BY <1>8, <2>1, <3>1
  <2>3. top # e.head
    BY <1>7, <1>8
  <2>4. Ancestry[top] \ Ancestry[e.db.root] \subseteq e.db.index
    BY <1>1, <1>5, <2>3, IndexHasBranch
  <2> QED BY <2>1, <2>2, <2>4
<1>10. PICK f : f = Pushed(e, s)
  OBVIOUS
<1>11. ChainInv(f) /\ HeadInv(f) /\ Onward(e, f) /\ f.head = IF Len(s) = 0 THEN e.head ELSE s[Len(s)]
  BY <1>5, <1>7, <1>9, <1>10, PushedIs
<1>12. f.head = top
  <2>1. CASE Len(s) = 0
    <3>1. num[e.head] = num[top]
      BY <1>7, <1>8, <2>1
    <3> QED BY <1>5, <1>11, <2>1, <3>1, AncestorsAre
  <2>2. CASE Len(s) # 0
    <3>1. Len(s) \in 1..Len(s)
      BY <1>7, <2>2
    <3>2. s[Len(s)] \in Ancestry[top] /\ num[s[Len(s)]] = num[e.head] + Len(s)
      BY <1>7, <3>1
    <3>3. num[s[Len(s)]] = num[top]
      BY <1>7, <1>8, <3>2
    <3> QED BY <1>5, <1>11, <2>2, <3>2, <3>3, AncestorsAre
  <2> QED BY <2>1, <2>2
<1>13. r = IF f.db.index = {} THEN [f EXCEPT !.db = reset_root(@, f.head)] ELSE f
  BY <1>4, <1>6, <1>10 DEF Replayed, RootIfEmpty, ToReplay
<1>14. ASSUME f.db.index = {} PROVE [f EXCEPT !.db = reset_root(@, f.head)] = f
  <2>1. f.head = f.db.root /\ f.db.valid = {f.db.root}
    BY <1>11, <1>14 DEF HeadInv, BranchInv, ValidInv
  <2>2. f.db = [root |-> f.db.root, index |-> f.db.index, pending |-> f.db.pending, valid |-> f.db.valid]
    BY <1>11 DEF ChainInv, DbInv
  <2>3. reset_root(f.db, f.head) = f.db
    BY <1>14, <2>1, <2>2 DEF reset_root
  <2>4. f = [db |-> f.db, head |-> f.head, state |-> f.state, committed |-> f.committed, blog |-> f.blog]
    BY <1>11 DEF ChainInv
  <2> QED BY <2>3, <2>4
<1>15. r = f
  BY <1>13, <1>14
<1> QED BY <1>5, <1>11, <1>12, <1>15

\* The block log is replayed from genesis: the node is at the root, and has the fork
\* database's file if it was written.
LEMMA ReplayedLogIs ==
  ASSUME ChainInv(c), ValidInv(c.db), NEW way \in {"replay", "crashed"}, NEW e, e = LogReplayed(way),
         NEW R, R = c.db.root
  PROVE  /\ e = [db |-> e.db, head |-> R, state |-> R, committed |-> R, blog |-> R]
         /\ way = "replay" => e.db = c.db
         /\ way = "crashed" => e.db = [root |-> R, index |-> {}, pending |-> Genesis, valid |-> {R}]
         /\ Found(way).head = Genesis /\ ~ AdvancesRoot(WithRoot(way, replay_block_log(Found(way))))
<1>1. /\ c = [db |-> c.db, head |-> c.head, state |-> c.state, committed |-> c.committed, blog |-> R]
      /\ DbInv(c.db) /\ R \in Blk
  BY DEF ChainInv, DbInv
<1>2. Opened(c.db) = c.db
  BY <1>1, OpenedIs
<1>3. PICK d : d = IF way = "replay" THEN c.db ELSE NewDb
  OBVIOUS
<1>4. PICK f : f = Found(way)
  OBVIOUS
<1>5. f = [db |-> d, head |-> Genesis, state |-> Genesis, committed |-> Genesis, blog |-> R]
  <2>1. PICK g : g = [c EXCEPT !.head = Genesis, !.state = Genesis, !.committed = Genesis]
    OBVIOUS
  <2>2. g = [db |-> c.db, head |-> Genesis, state |-> Genesis, committed |-> Genesis, blog |-> R]
    <3>1. PICK k, x, h, z, m : k = [db |-> x, head |-> h, state |-> z, committed |-> m, blog |-> R] /\ k = c /\ x = c.db
      BY <1>1
    <3>2. g = [k EXCEPT !.head = Genesis, !.state = Genesis, !.committed = Genesis]
      BY <2>1, <3>1
    <3>3. k = [db |-> x, head |-> h, state |-> z, committed |-> m, blog |-> R]
      BY <3>1
    <3>4. g = [db |-> x, head |-> Genesis, state |-> Genesis, committed |-> Genesis, blog |-> R]
      BY ONLY ZenonT(60), <3>2, <3>3
    <3> QED BY <3>1, <3>4
  <2>3. g.db = c.db
    BY <2>2
  <2>4. CASE way = "replay"
    <3>1. f = [g EXCEPT !.db = Opened(g.db)]
      BY <1>4, <2>1, <2>4 DEF Found
    <3>2. f = [g EXCEPT !.db = d]
      BY <1>2, <1>3, <2>3, <2>4, <3>1
    <3> QED BY <2>2, <3>2
  <2>5. CASE way = "crashed"
    <3>1. f = [g EXCEPT !.db = NewDb]
      BY <1>4, <2>1, <2>5 DEF Found
    <3>2. f = [g EXCEPT !.db = d]
      BY <1>3, <2>5, <3>1
    <3> QED BY <2>2, <3>2
  <2> QED BY <2>4, <2>5
<1>6. f.db = d /\ f.head = Genesis /\ f.blog = R
  BY <1>5
<1>7. R = Genesis \/ num[R] > num[Genesis]
  <2>1. Genesis \in Ancestry[R] /\ Genesis \in Blk /\ num[Genesis] \in Nat /\ num[R] \in Nat
    BY <1>1, AncestorsAre, NumType, TreeAssumption
  <2>2. num[Genesis] <= num[R] /\ (num[Genesis] = num[R] => Genesis = R)
    BY <1>1, <2>1, AncestorsAre
  <2> QED BY <2>1, <2>2
<1>8. PICK g : g = replay_block_log(f)
  OBVIOUS
<1>9. g = [db |-> d, head |-> R, state |-> R, committed |-> R, blog |-> R]
  BY <1>5, <1>6, <1>7, <1>8 DEF replay_block_log
<1>10. g.db = d /\ g.head = R
  BY <1>9
<1>11. PICK w : w = WithRoot(way, g)
  OBVIOUS
<1>12. PICK q : q = IF d.index = {} THEN reset_root(d, R) ELSE d
  OBVIOUS
<1>13. w = [db |-> q, head |-> R, state |-> R, committed |-> R, blog |-> R]
  BY <1>9, <1>10, <1>11, <1>12 DEF WithRoot, RootIfEmpty
<1>14. w.db = q /\ w.head = R
  BY <1>13
<1>15. way = "replay" => q = c.db
  <2> SUFFICES ASSUME way = "replay", d.index = {} PROVE reset_root(c.db, R) = c.db
    BY <1>3, <1>12
  <2>1. c.db.index = {} /\ c.db.valid = {R}
    BY <1>3 DEF ValidInv
  <2>2. c.db = [root |-> R, index |-> c.db.index, pending |-> c.db.pending, valid |-> c.db.valid]
    BY <1>1 DEF DbInv
  <2> QED BY <2>1, <2>2 DEF reset_root
<1>16. way = "crashed" => q = [root |-> R, index |-> {}, pending |-> Genesis, valid |-> {R}]
  BY <1>3, <1>12 DEF NewDb, reset_root
<1>17. q.root = R
  BY <1>15, <1>16
<1>18. ~ AdvancesRoot(w)
  <2>1. num[R] \in Nat
    BY <1>1, NumType
  <2> QED BY <1>14, <1>17, <2>1 DEF AdvancesRoot
<1>19. RootMoved(w) = w
  BY <1>14, <1>17, <1>18 DEF RootMoved
<1>20. e = w
  BY <1>4, <1>8, <1>11, <1>19 DEF LogReplayed
<1> QED BY <1>4, <1>6, <1>8, <1>11, <1>13, <1>14, <1>15, <1>16, <1>18, <1>20

\* With all its files and the chain database at the head there is nothing to replay from
\* the block log.
LEMMA ExistingIs ==
  ASSUME ChainInv(c), HeadInv(c)
  PROVE  LogReplayed("existing") = c /\ ~ LogIsAhead("existing")
<1>1. /\ c = [db |-> c.db, head |-> c.head, state |-> c.state, committed |-> c.committed, blog |-> c.blog]
      /\ DbInv(c.db) /\ c.blog = c.db.root /\ c.head \in Blk /\ c.db.root \in Blk
  BY DEF ChainInv, DbInv
<1>2. Opened(c.db) = c.db
  BY <1>1, OpenedIs DEF HeadInv, BranchInv
<1>3. [c EXCEPT !.db = c.db] = c
  BY <1>1
<1>4. Found("existing") = c
  BY <1>2, <1>3 DEF Found
<1>5. ~ (num[c.blog] > num[c.head])
  <2>1. c.db.root \in Ancestry[c.head]
    BY RootBelowHead DEF HeadInv
  <2>2. num[c.db.root] <= num[c.head] /\ num[c.db.root] \in Nat /\ num[c.head] \in Nat
    BY <1>1, <2>1, AncestorsAre, NumType
  <2> QED BY <1>1, <2>2
<1>6. ~ LogIsAhead("existing")
  BY <1>4, <1>5 DEF LogIsAhead
<1>7. replay_block_log(c) = c
  BY <1>5 DEF replay_block_log
<1>8. WithRoot("existing", c) = c
  BY DEF WithRoot
<1>9. LogReplayed("existing") = c
  BY <1>4, <1>6, <1>7, <1>8 DEF LogReplayed
<1> QED BY <1>6, <1>9

\* The chain when the reversible blocks are replayed.
LEMMA LogReplayedIs ==
  ASSUME ChainInv(c), BranchInv(c), NEW way \in Ways, way = "existing" => c.state = c.head,
         NEW e, e = LogReplayed(way)
  PROVE  /\ ChainInv(e) /\ HeadInv(e) /\ e.db.root = c.db.root
         /\ way = "existing" => e = c
         /\ way # "existing" => e.head = c.db.root
         /\ way = "replay" => e.db = c.db
         /\ Starts(way) <=> \A b \in Reversible(e) : num[b] = num[e.head] + 1 => previous[b] = e.head
<1>1. PICK R \in Blk : R = c.db.root /\ c.blog = R /\ num[R] \in Nat /\ Genesis \in Ancestry[R]
  BY NumType, AncestorsAre DEF ChainInv, DbInv
<1>2. CASE way = "existing"
  <2>1. e = c /\ ~ LogIsAhead(way) /\ HeadInv(c)
    BY <1>2, ExistingIs DEF HeadInv
  <2>2. num[e.db.root] <= num[c.blog]
    BY <1>1, <2>1
  <2>3. Starts(way) <=> \A b \in Reversible(e) : num[b] = num[e.head] + 1 => previous[b] = e.head
    BY <1>2, <2>1, <2>2 DEF Starts
  <2> QED BY <1>2, <2>1, <2>3
<1>3. CASE way \in {"replay", "crashed"}
  <2>0. way # "existing"
    BY <1>3
  <2>1. /\ e = [db |-> e.db, head |-> R, state |-> R, committed |-> R, blog |-> R]
        /\ way = "replay" => e.db = c.db
        /\ way = "crashed" => e.db = [root |-> R, index |-> {}, pending |-> Genesis, valid |-> {R}]
        /\ Found(way).head = Genesis /\ ~ AdvancesRoot(WithRoot(way, replay_block_log(Found(way))))
    BY <1>1, <1>3, ReplayedLogIs DEF BranchInv
  <2>2. e.head = R /\ e.state = R /\ e.committed = R /\ e.blog = R
    BY <2>1
  <2>3. e.db.root = R
    BY <1>1, <1>3, <2>1
  <2>4. DbInv(e.db) /\ ValidInv(e.db)
    <3>1. CASE way = "replay"
      BY <2>1, <3>1 DEF ChainInv, BranchInv
    <3>2. CASE way = "crashed"
      <4>1. PICK d : d = e.db
        OBVIOUS
      <4>2. d = [root |-> R, index |-> {}, pending |-> Genesis, valid |-> {R}]
        BY <2>1, <3>2, <4>1
      <4>3. d.root = R /\ d.index = {} /\ d.pending = Genesis /\ d.valid = {R}
        BY <4>2
      <4>4. IsFiniteSet({}) /\ Genesis \in Blk
        BY FS_EmptySet, TreeAssumption
      <4>5. DbInv(d)
        BY <1>1, <4>2, <4>3, <4>4 DEF DbInv
      <4>6. ValidInv(d)
        BY <4>3 DEF ValidInv
      <4> QED BY <4>1, <4>5, <4>6
    <3> QED BY <1>3, <3>1, <3>2
  <2>5. ChainInv(e)
    BY <2>1, <2>2, <2>3, <2>4 DEF ChainInv
  <2>6. HeadInv(e)
    BY <2>2, <2>3, <2>4 DEF HeadInv, BranchInv, ValidInv
  <2>7. Starts(way) <=> \A b \in Reversible(e) : num[b] = num[e.head] + 1 => previous[b] = e.head
    BY <1>1, <2>0, <2>1 DEF Starts
  <2> QED BY <1>1, <2>0, <2>1, <2>2, <2>3, <2>5, <2>6, <2>7
<1> QED BY <1>2, <1>3 DEF Ways

\* If the first block that is replayed is built on the head, all of them are.
LEMMA ReversibleAbove ==
  ASSUME NEW e, ChainInv(e), HeadInv(e), \A b \in Reversible(e) : num[b] = num[e.head] + 1 => previous[b] = e.head
  PROVE  \A b \in Reversible(e) : e.head \in Ancestry[b]
<1> SUFFICES ASSUME NEW b \in Reversible(e) PROVE e.head \in Ancestry[b]
  OBVIOUS
<1>1. DbInv(e.db) /\ e.head \in Blk /\ e.db.root \in Blk /\ e.db.root \in Ancestry[e.head]
  BY RootBelowHead DEF ChainInv, DbInv, HeadInv
<1>2. PICK best : best = head(e.db)
  OBVIOUS
<1>3. /\ b \in Walk(e.db.index, best) /\ num[b] > num[e.head]
      /\ \A a \in Walk(e.db.index, best) : num[a] <= num[b] => a \in e.db.valid
  BY <1>2 DEF Reversible
<1>4. best \in e.db.index /\ best \in Blk
  <2>1. CASE e.db.index = {}
    <3>1. best = e.db.root
      BY <1>2, <2>1 DEF head
    <3> QED BY <1>1, <1>3, <2>1, <3>1, WalkIs
  <2>2. CASE e.db.index # {}
    BY <1>1, <1>2, <2>2, BestIs DEF DbInv
  <2> QED BY <2>1, <2>2
<1>5. Walk(e.db.index, best) = Ancestry[best] \ Ancestry[e.db.root]
  BY <1>1, <1>4, WalkIs
<1>6. b \in Ancestry[best] /\ b \in Blk /\ num[b] \in Nat /\ num[e.head] \in Nat /\ num[e.db.root] \in Nat
      /\ num[e.db.root] <= num[e.head] /\ num[Genesis] \in Nat /\ num[Genesis] <= num[e.head]
  BY <1>1, <1>3, <1>4, <1>5, AncestorsAre, NumType, TreeAssumption
<1>7. PICK a : a = AncestorAt(b, num[e.head] + 1)
  OBVIOUS
<1>8. a \in Ancestry[b] /\ num[a] = num[e.head] + 1
  <2>1. num[e.head] + 1 \in Nat /\ num[Genesis] <= num[e.head] + 1 /\ num[e.head] + 1 <= num[b]
    BY <1>3, <1>6
  <2> QED BY <1>6, <1>7, <2>1, AncestorAtIs
<1>9. a \in Ancestry[best] /\ a \in Blk /\ num[a] <= num[b] /\ num[a] \in Nat
  BY <1>4, <1>6, <1>8, AncestorTransitive, AncestorsAre, NumType
<1>10. a \notin Ancestry[e.db.root]
  <2>1. a \in Ancestry[e.db.root] => num[a] <= num[e.db.root]
    BY <1>1, AncestorsAre
  <2> QED BY <1>6, <1>8, <2>1
<1>11. a \in Reversible(e)
  <2>1. a \in Walk(e.db.index, best) /\ num[a] > num[e.head]
    BY <1>5, <1>6, <1>8, <1>9, <1>10
  <2>2. ASSUME NEW x \in Walk(e.db.index, best), num[x] <= num[a] PROVE x \in e.db.valid
    <3>1. num[x] \in Nat
      BY <1>4, <1>5, <2>2, AncestorsAre, NumType
    <3>2. num[x] <= num[b]
      BY <1>6, <1>9, <2>2, <3>1
    <3> QED BY <1>3, <2>2, <3>2
  <2> QED BY <1>2, <2>1, <2>2 DEF Reversible
<1>12. previous[a] = e.head /\ a # Genesis
  <2>1. previous[a] = e.head
    BY <1>8, <1>11
  <2>2. num[a] # num[Genesis]
    BY <1>6, <1>8
  <2> QED BY <2>1, <2>2
<1>13. e.head \in Ancestry[a]
  BY <1>1, <1>9, <1>12, ParentIs, AncestorsAre
<1> QED BY <1>6, <1>8, <1>13, AncestorTransitive

\* Above the root every block of the best branch is built on the root.
LEMMA FromRoot ==
  ASSUME NEW e, ChainInv(e), e.head = e.db.root
  PROVE  \A b \in Reversible(e) : e.head \in Ancestry[b]
<1> SUFFICES ASSUME NEW b \in Reversible(e) PROVE e.head \in Ancestry[b]
  OBVIOUS
<1>1. DbInv(e.db) /\ e.db.root \in Blk /\ e.db.index \subseteq Blk
  BY DEF ChainInv, DbInv
<1>2. head(e.db) \in Blk
  <2>1. CASE e.db.index = {}
    BY <1>1, <2>1 DEF head
  <2>2. CASE e.db.index # {}
    BY <1>1, <2>2, BestIs
  <2> QED BY <2>1, <2>2
<1>3. b \in e.db.index
  BY <1>1, <1>2, WalkIs DEF Reversible
<1> QED BY <1>1, <1>3 DEF DbInv

\* Then the first of them is.
LEMMA FirstOnHead ==
  ASSUME NEW e, ChainInv(e), HeadInv(e), \A b \in Reversible(e) : e.head \in Ancestry[b]
  PROVE  \A b \in Reversible(e) : num[b] = num[e.head] + 1 => previous[b] = e.head
<1> SUFFICES ASSUME NEW b \in Reversible(e), num[b] = num[e.head] + 1 PROVE previous[b] = e.head
  OBVIOUS
<1>1. DbInv(e.db) /\ e.db.root \in Blk /\ e.db.index \subseteq Blk /\ e.head \in Blk
  BY DEF ChainInv, DbInv
<1>2. head(e.db) \in Blk
  <2>1. CASE e.db.index = {}
    BY <1>1, <2>1 DEF head
  <2>2. CASE e.db.index # {}
    BY <1>1, <2>2, BestIs
  <2> QED BY <2>1, <2>2
<1>3. b \in Blk /\ b # Genesis
  BY <1>1, <1>2, WalkIs, RootIsBelow DEF Reversible
<1>4. previous[b] \in Blk /\ num[b] = num[previous[b]] + 1 /\ previous[b] \in Ancestry[b] /\ num[previous[b]] \in Nat
      /\ num[e.head] \in Nat
  BY <1>1, <1>3, ParentIs, AncestorsAre, NumType
<1>5. num[previous[b]] = num[e.head]
  BY <1>4
<1> QED BY <1>3, <1>4, <1>5, AncestorUnique

\* A start that succeeds: the chain is in order again, and nothing irreversible is lost.
LEMMA StartedIs ==
  ASSUME ChainInv(c), BranchInv(c), NEW way \in Ways,
         way = "existing" => c.state = c.head /\ \A b \in Reversible(c) : c.head \in Ancestry[b],
         NEW r, r = Started(way)
  PROVE  /\ Starts(way) /\ ChainInv(r) /\ HeadInv(r)
         /\ c.db.root \in Ancestry[r.db.root]
         /\ way = "existing" => c.head \in Ancestry[r.head]
         /\ way = "replay" /\ c.head \in c.db.valid \cap Ancestry[head(c.db)] => c.head \in Ancestry[r.head]
<1>1. PICK e : e = LogReplayed(way)
  OBVIOUS
<1>2. /\ ChainInv(e) /\ HeadInv(e) /\ e.db.root = c.db.root
      /\ way = "existing" => e = c
      /\ way # "existing" => e.head = c.db.root
      /\ way = "replay" => e.db = c.db
      /\ Starts(way) <=> \A b \in Reversible(e) : num[b] = num[e.head] + 1 => previous[b] = e.head
  BY <1>1, LogReplayedIs
<1>3. \A b \in Reversible(e) : e.head \in Ancestry[b]
  <2>1. CASE way = "existing"
    BY <1>2, <2>1
  <2>2. CASE way # "existing"
    BY <1>2, <2>2, FromRoot
  <2> QED BY <2>1, <2>2
<1>4. Starts(way)
  BY <1>2, <1>3, FirstOnHead
<1>5. r = Replayed(e)
  BY <1>1 DEF Started
<1>6. /\ ChainInv(r) /\ HeadInv(r) /\ Onward(e, r) /\ e.head \in Ancestry[r.head]
      /\ \A b \in Reversible(e) : b \in Ancestry[r.head]
  BY <1>2, <1>3, <1>5, ReplayedIs
<1>7. c.db.root \in Ancestry[r.db.root]
  BY <1>2, <1>6 DEF Onward
<1>8. ASSUME way = "replay", c.head \in c.db.valid \cap Ancestry[head(c.db)] PROVE c.head \in Ancestry[r.head]
  <2>1. e.db = c.db /\ e.head = c.db.root /\ DbInv(c.db) /\ c.db.index \subseteq Blk /\ c.db.root \in Blk /\ c.head \in Blk
    BY <1>2, <1>8 DEF ChainInv, DbInv
  <2>2. CASE c.head = c.db.root
    BY <1>6, <2>1, <2>2
  <2>3. CASE c.head # c.db.root
    <3>1. PICK best : best = head(c.db)
      OBVIOUS
    <3>2. c.head \in c.db.index
      BY <1>8, <2>3 DEF BranchInv, ValidInv
    <3>3. best \in c.db.index /\ best \in Blk
      BY <2>1, <3>1, <3>2, BestIs
    <3>4. Walk(c.db.index, best) = Ancestry[best] \ Ancestry[c.db.root]
      BY <2>1, <3>3, WalkIs
    <3>5. c.head \in Walk(c.db.index, best) /\ num[c.db.root] < num[c.head]
      BY <1>8, <2>1, <3>1, <3>2, <3>4, RootIsBelow
    <3>6. ASSUME NEW a \in Walk(c.db.index, best), num[a] <= num[c.head] PROVE a \in c.db.valid
      <4>1. a \in Ancestry[c.head] /\ a \notin Ancestry[c.db.root]
        BY <3>3, <3>4, <3>5, <3>6, AncestorLinear
      <4>2. Ancestry[c.head] \ Ancestry[c.db.root] \subseteq c.db.valid
        BY <1>8, ValidatedBranch
      <4> QED BY <4>1, <4>2
    <3>7. num[c.head] > num[c.db.root]
      BY <2>1, <3>5, NumType
    <3>8. c.head \in Reversible(e)
      BY <2>1, <3>1, <3>5, <3>6, <3>7 DEF Reversible
    <3> QED BY <1>6, <3>8
  <2> QED BY <2>2, <2>3
<1> QED BY <1>2, <1>4, <1>6, <1>7, <1>8

\* And it recovers the node.
LEMMA StartedRecovers ==
  ASSUME ChainInv(c), BranchInv(c), NEW way \in Ways,
         way = "existing" => c.state = c.head /\ \A b \in Reversible(c) : c.head \in Ancestry[b]
  PROVE  Recovers(way)
<1>1. PICK r : r = Started(way)
  OBVIOUS
<1>2. /\ Starts(way) /\ ChainInv(r) /\ HeadInv(r)
      /\ c.db.root \in Ancestry[r.db.root]
      /\ way = "existing" => c.head \in Ancestry[r.head]
      /\ way = "replay" /\ c.head \in c.db.valid \cap Ancestry[head(c.db)] => c.head \in Ancestry[r.head]
  BY <1>1, StartedIs
<1>3. r.blog = r.db.root /\ c.blog = c.db.root /\ r.state = r.head /\ BranchInv(r) /\ r.head \in r.db.valid
  BY <1>2 DEF ChainInv, HeadInv, BranchInv
<1>4. r.db.root \in Ancestry[r.head]
  BY <1>2, <1>3, RootBelowHead
<1>5. Ancestry[r.head] \ Ancestry[r.db.root] \subseteq r.db.valid
  BY <1>2, <1>3, ValidatedBranch
<1> QED BY <1>1, <1>2, <1>3, <1>4, <1>5 DEF Recovers, RecoveredBy

\* Whatever the node does, its files are good for a start.
LEMMA InvRecovers ==
  ASSUME ForkInv
  PROVE  StartRecovers
<1>1. ChainInv(c) /\ BranchInv(c)
  BY DEF ForkInv, StateInv
<1>2. Recovers("crashed") /\ Recovers("replay")
  BY <1>1, StartedRecovers DEF Ways
<1>3. ASSUME c.state = c.head, ~ LeftLongerBranch PROVE Recovers("existing")
  <2>1. \A b \in Reversible(c) : c.head \in Ancestry[b]
    BY <1>3 DEF LeftLongerBranch
  <2> QED BY <1>1, <1>3, <2>1, StartedRecovers DEF Ways
<1>4. Opened(c.db) = c.db
  BY <1>1, OpenedIs DEF ChainInv, BranchInv
<1> QED BY <1>2, <1>3, <1>4 DEF StartRecovers

\* A restart keeps the invariant and what is irreversible.
LEMMA RestartStep ==
  ASSUME ForkInv, NEW way \in Ways, RestartNode(way)
  PROVE  ForkInv' /\ c.db.root \in Ancestry[c'.db.root]
<1>1. /\ ChainInv(c) /\ BranchInv(c) /\ append_fails \in Nat
      /\ append_fails = 0 => ~ lost_sync
  BY DEF ForkInv, StateInv, SyncInv
<1>2. /\ Starts(way) /\ c' = Started(way) /\ creating' = {} /\ handles' = {} /\ task' = Idle
      /\ lost_sync' = lost_sync /\ append_fails' = append_fails
  BY DEF RestartNode
<1>3. ASSUME way = "existing" PROVE c.state = c.head /\ \A b \in Reversible(c) : c.head \in Ancestry[b]
  <2>1. c.state = c.head
    BY <1>2, <1>3 DEF Starts
  <2>2. PICK e : e = LogReplayed(way)
    OBVIOUS
  <2>3. /\ ChainInv(e) /\ HeadInv(e) /\ e = c
        /\ Starts(way) <=> \A b \in Reversible(e) : num[b] = num[e.head] + 1 => previous[b] = e.head
    BY <1>1, <1>3, <2>1, <2>2, LogReplayedIs
  <2> QED BY <1>2, <2>1, <2>3, ReversibleAbove
<1>4. ChainInv(c') /\ HeadInv(c') /\ c.db.root \in Ancestry[c'.db.root]
  BY <1>1, <1>2, <1>3, StartedIs
<1>5. Idle \in TaskType /\ Idle.at = "idle" /\ TaskInv(c', Idle)
  BY IdleTask
<1> QED BY <1>1, <1>2, <1>4, <1>5 DEF ForkInv, StateInv, SyncInv, HeadInv

\* Every step of a node that restarts keeps the invariant.
LEMMA RestartNextStep ==
  ASSUME ForkInv, [RestartNext]_restart_vars
  PROVE  ForkInv' /\ c.db.root \in Ancestry[c'.db.root]
<1>1. CASE [Next]_vars
  BY <1>1, ForkStep DEF Onward
<1>2. CASE \E way \in Ways : RestartNode(way)
  BY <1>2, RestartStep
<1> QED BY <1>1, <1>2 DEF RestartNext, restart_vars

-------------------------------------------------------------------------------
(* The theorems, for a node that runs (Spec) and for one that stops, crashes and *)
(* starts again (RestartSpec).                                                   *)

\* The controller's invariant holds in every state: of the fork database, the block log,
\* the validated branches, the chain database's last commit and what a fork switch has
\* still to do always, and of the chain database being at the head until an append to
\* the block log fails.
THEOREM ForkInvariant == (Spec => []ForkInv) /\ (RestartSpec => []ForkInv)
<1>1. ForkInv /\ [Next]_vars => ForkInv'
  BY ForkStep
<1>2. ForkInv /\ [RestartNext]_restart_vars => ForkInv'
  BY RestartNextStep
<1>3. RestartInit => ForkInv
  BY ForkInit DEF RestartInit
<1> QED BY <1>1, <1>2, <1>3, ForkInit, PTL DEF Spec, RestartSpec

\* What is irreversible stays so: every step keeps the branch that the root ends, whatever
\* it applies, pops, removes or fails to append (advance_root, log_irreversible), and so
\* does every start, with or without the fork database's file (replay).
THEOREM RootNeverGoesBack ==
  (Spec => [][c.db.root \in Ancestry[c'.db.root]]_c) /\ (RestartSpec => [][c.db.root \in Ancestry[c'.db.root]]_c)
<1>1. ForkInv /\ [Next]_vars => [c.db.root \in Ancestry[c'.db.root]]_c
  BY ForkStep DEF Onward
<1>2. ForkInv /\ [RestartNext]_restart_vars => [c.db.root \in Ancestry[c'.db.root]]_c
  BY RestartNextStep
<1> QED BY <1>1, <1>2, ForkInvariant, PTL DEF Spec, RestartSpec

\* No orphaned branch is ever in the fork database (what advance_root asserts), whatever
\* arrives, fails, is removed or becomes irreversible in between.
THEOREM NoOrphansHolds == (Spec => []NoOrphans) /\ (RestartSpec => []NoOrphans)
<1>1. ForkInv => NoOrphans
  BY DEF ForkInv, StateInv, ChainInv, DbInv, NoOrphans, Linkable
<1> QED BY <1>1, ForkInvariant, PTL

\* What becomes irreversible is below the block that a certificate made final, as long as
\* the node runs: a replay without the fork database's file forgets which block that was.
THEOREM RootIsFinalHolds == Spec => []RootIsFinal
<1>1. Init => ForkInv /\ RootIsFinal
  <2>1. Init => RootIsFinal
    BY TreeAssumption DEF Init, NewDb, RootIsFinal
  <2> QED BY <2>1, ForkInit
<1>2. ForkInv /\ RootIsFinal /\ [Next]_vars => (ForkInv /\ RootIsFinal)'
  BY ForkStep DEF Onward, Final, RootIsFinal
<1> QED BY <1>1, <1>2, PTL DEF Spec

\* The block log ends at the root (what log_irreversible asserts), also after appends
\* that failed and after restarts.
THEOREM BlockLogEndsAtRootHolds == (Spec => []BlockLogEndsAtRoot) /\ (RestartSpec => []BlockLogEndsAtRoot)
<1>1. ForkInv => BlockLogEndsAtRoot
  BY DEF ForkInv, StateInv, ChainInv, BlockLogEndsAtRoot
<1> QED BY <1>1, ForkInvariant, PTL

\* As long as no append to the block log has failed, the chain head is on a branch of
\* validated blocks from the root: a fork switch never pops below the root or into a
\* block that is gone.
THEOREM HeadIsOnValidatedBranchHolds ==
  /\ Spec => [](append_fails = 0 => HeadIsOnValidatedBranch)
  /\ RestartSpec => [](append_fails = 0 => HeadIsOnValidatedBranch)
<1>1. ASSUME ForkInv, append_fails = 0 PROVE HeadIsOnValidatedBranch
  <2>1. ChainInv(c) /\ BranchInv(c) /\ c.state = c.head
    BY <1>1 DEF ForkInv, StateInv, SyncInv
  <2>2. c.head \in c.db.valid /\ c.head \in c.db.index \cup {c.db.root}
    BY <2>1 DEF BranchInv, ValidInv
  <2>3. c.db.root \in Ancestry[c.head]
    BY <2>1, RootBelowHead
  <2>4. Ancestry[c.head] \ Ancestry[c.db.root] \subseteq c.db.valid
    BY <2>1, <2>2, ValidatedBranch
  <2> QED BY <2>2, <2>3, <2>4 DEF HeadIsOnValidatedBranch, get_block
<1>2. ForkInv => (append_fails = 0 => HeadIsOnValidatedBranch)
  BY <1>1
<1> QED BY <1>2, ForkInvariant, PTL

\* As long as no append to the block log has failed, the chain database is at the head
\* block (what start_block asserts), after every pop, failed block, fork switch and start.
THEOREM RevisionOnParHolds ==
  /\ Spec => [](append_fails = 0 => RevisionOnParWithHead)
  /\ RestartSpec => [](append_fails = 0 => RevisionOnParWithHead)
<1>1. ForkInv => (append_fails = 0 => RevisionOnParWithHead)
  BY DEF ForkInv, SyncInv, RevisionOnParWithHead
<1> QED BY <1>1, ForkInvariant, PTL

\* As long as no append to the block log has failed, the two assertions of
\* maybe_switch_forks that "_should_ never fail" do not: popping a branch ends at the fork.
THEOREM NeverLosesSyncHolds ==
  /\ Spec => [](append_fails = 0 => NeverLosesSync)
  /\ RestartSpec => [](append_fails = 0 => NeverLosesSync)
<1>1. ForkInv => (append_fails = 0 => NeverLosesSync)
  BY DEF ForkInv, SyncInv, NeverLosesSync
<1> QED BY <1>1, ForkInvariant, PTL

\* Whatever the node does when it crashes, and however many appends to the block log
\* failed and starts came before, startup and replay recover it from the block log; after
\* a stop they read the fork database back as it was and recover the validated branch,
\* with or without the chain database.
THEOREM StartRecoversHolds == RestartSpec => []StartRecovers
<1>1. ForkInv => StartRecovers
  BY InvRecovers
<1> QED BY <1>1, ForkInvariant, PTL
===============================================================================
