--------------------------- MODULE TransactionProofs ---------------------------
(***************************************************************************)
(* No transaction is lost, and what senders and the status are told of     *)
(* their transactions follows the chain, for any tree of blocks, any       *)
(* transactions and any number of fork switches.                           *)
(***************************************************************************)
EXTENDS Transactions, SequenceTheorems, WellFoundedInduction, TLAPS

\* Most leaves are pure logic: Zenon is asked first, the SMT solver what it leaves open,
\* and Zenon once more when both ran out of time.
USE ZenonT(5), SMTT(60), ZenonT(60)

-------------------------------------------------------------------------------
(* Branches.                                                                 *)

Known == Block \cup {Genesis}
Upto(b) == OnBranch(b) \cup {Genesis}

\* The number of a block (num_from_id).
LEMMA NumType ==
  /\ \A b \in Known : Num(b) \in Nat
  /\ \A b \in Block : b \in Known /\ Num(b) > 0
  /\ Genesis \in Known /\ Num(Genesis) = 0
<1>1. \A b \in Known : Path[b] \in Seq(Block)
  BY PathAssumption DEF Known
<1>2. Num(Genesis) = 0
  BY SMTT(60), ZenonT(60), PathAssumption DEF Num
<1>3. \A b \in Block : Num(b) > 0
  BY PathAssumption DEF Num
<1> QED BY SMTT(60), ZenonT(60), <1>1, <1>2, <1>3 DEF Known, Num

\* A block is on a branch at the place of its number.
LEMMA OnBranchIs ==
  ASSUME NEW b \in Known, NEW c
  PROVE  c \in OnBranch(b) <=> c \in Block /\ Num(c) \in 1 .. Num(b) /\ Path[b][Num(c)] = c
<1>1. Path[b] \in Seq(Block) /\ Num(b) \in Nat
  BY PathAssumption, NumType DEF Known
<1>2. ASSUME NEW i \in 1 .. Num(b) PROVE Path[b][i] \in Block /\ Num(Path[b][i]) = i
  <2>1. i \in 1 .. Len(Path[b])
    BY DEF Num
  <2>2. b \in Block
    BY SMTT(60), ZenonT(60), <1>2, NumType DEF Known
  <2>3. Len(Path[Path[b][i]]) = i
    BY <2>1, <2>2, PathAssumption
  <2> QED BY SMTT(60), ZenonT(60), <1>1, <2>1, <2>3 DEF Num
<1>3. ASSUME c \in OnBranch(b)
      PROVE  c \in Block /\ Num(c) \in 1 .. Num(b) /\ Path[b][Num(c)] = c
  <2>1. PICK i \in 1 .. Num(b) : c = Path[b][i]
    BY <1>3 DEF OnBranch
  <2> QED BY <2>1, <1>2
<1> QED BY <1>3 DEF OnBranch

\* A block is on its own branch, and what precedes a block on a branch is its branch.
LEMMA OnBranchSelf ==
  /\ \A b \in Block : b \in OnBranch(b)
  /\ OnBranch(Genesis) = {}
<1>1. ASSUME NEW b \in Block PROVE b \in OnBranch(b)
  <2>1. b \in Known /\ Num(b) \in Nat /\ Num(b) > 0 /\ Path[b][Num(b)] = b
    BY PathAssumption, NumType DEF Num
  <2>2. Num(b) \in 1 .. Num(b)
    BY SMTT(60), ZenonT(60), <2>1
  <2> QED BY <2>1, <2>2, OnBranchIs
<1>2. OnBranch(Genesis) = {}
  BY SMTT(60), ZenonT(60), NumType DEF OnBranch
<1> QED BY <1>1, <1>2

\* The path of a block on a branch is the part of the branch up to it.
LEMMA PathPrefix ==
  ASSUME NEW b \in Known, NEW c \in OnBranch(b), NEW i \in 1 .. Num(c)
  PROVE  Path[c][i] = Path[b][i]
<1>1. c \in Block /\ Num(c) \in 1 .. Num(b) /\ Path[b][Num(c)] = c
  BY OnBranchIs
<1>2. b \in Block
  BY SMTT(60), ZenonT(60), <1>1, NumType DEF Known
<1>3. \A j \in 1 .. Len(Path[b]) : \A k \in 1 .. j : Path[Path[b][j]][k] = Path[b][k]
  BY <1>2, PathAssumption
<1> QED BY <1>1, <1>3 DEF Num

\* The blocks of a branch up to one of them are those with smaller numbers.
LEMMA OnBranchUpto ==
  ASSUME NEW b \in Known, NEW c \in Upto(b)
  PROVE  /\ c \in Known /\ Num(c) \in Nat /\ Num(b) \in Nat /\ Num(c) <= Num(b)
         /\ \A d : d \in OnBranch(c) <=> d \in OnBranch(b) /\ Num(d) <= Num(c)
         /\ \A d \in Upto(b) : Num(d) = Num(c) => d = c
<1>0. Num(b) \in Nat /\ Num(Genesis) = 0 /\ Genesis \in Known /\ OnBranch(Genesis) = {}
  BY NumType, OnBranchSelf
<1>1. \A d \in OnBranch(b) : d \in Block /\ d \in Known /\ Num(d) \in Nat /\ 0 < Num(d) /\ Num(d) <= Num(b) /\ Path[b][Num(d)] = d
  BY SMTT(60), ZenonT(60), <1>0, OnBranchIs, NumType
<1>2. c = Genesis \/ c \in OnBranch(b)
  BY DEF Upto
<1>3. c \in Known /\ Num(c) \in Nat /\ Num(c) <= Num(b)
  BY SMTT(60), ZenonT(60), <1>0, <1>1, <1>2
<1>4. ASSUME NEW d PROVE d \in OnBranch(c) <=> d \in OnBranch(b) /\ Num(d) <= Num(c)
  <2>1. CASE c = Genesis
    BY SMTT(60), ZenonT(60), <1>0, <1>1, <2>1
  <2>2. CASE c \in OnBranch(b)
    <3>1. d \in OnBranch(c) <=> d \in Block /\ Num(d) \in 1 .. Num(c) /\ Path[c][Num(d)] = d
      BY <1>3, OnBranchIs
    <3>2. d \in OnBranch(b) <=> d \in Block /\ Num(d) \in 1 .. Num(b) /\ Path[b][Num(d)] = d
      BY OnBranchIs
    <3>3. Num(d) \in 1 .. Num(c) => Path[c][Num(d)] = Path[b][Num(d)]
      BY <2>2, PathPrefix
    <3>4. d \in Block => (Num(d) \in 1 .. Num(c) <=> Num(d) \in 1 .. Num(b) /\ Num(d) <= Num(c))
      BY SMTT(60), ZenonT(60), <1>0, <1>3, NumType
    <3> QED BY <3>1, <3>2, <3>3, <3>4
  <2> QED BY <1>2, <2>1, <2>2
<1>5. ASSUME NEW d \in Upto(b), Num(d) = Num(c) PROVE d = c
  <2>1. d = Genesis \/ d \in OnBranch(b)
    BY DEF Upto
  <2> QED BY SMTT(60), ZenonT(60), <1>0, <1>1, <1>2, <1>5, <2>1
<1> QED BY <1>0, <1>3, <1>4, <1>5

\* The block after a block on a branch extends it.
LEMMA Child ==
  ASSUME NEW b \in Known, NEW c \in Upto(b), Num(b) = Num(c) + 1
  PROVE  /\ b \in Block /\ b \notin OnBranch(c) /\ Num(b) \in Nat /\ Num(c) \in Nat
         /\ \A d : d \in OnBranch(b) <=> d \in OnBranch(c) \/ d = b
<1>1. /\ Num(c) \in Nat /\ Num(b) \in Nat
      /\ \A d : d \in OnBranch(c) <=> d \in OnBranch(b) /\ Num(d) <= Num(c)
  BY OnBranchUpto
<1>2. b # Genesis
  BY SMTT(60), ZenonT(60), <1>1, NumType
<1>3. b \in Block /\ b \in OnBranch(b)
  BY <1>2, OnBranchSelf DEF Known
<1>4. b \notin OnBranch(c)
  BY SMTT(60), ZenonT(60), <1>1
<1>5. ASSUME NEW d \in OnBranch(b), d \notin OnBranch(c) PROVE d = b
  <2>1. d \in Known /\ Num(d) \in Nat /\ Num(d) <= Num(b) /\ ~ (Num(d) <= Num(c))
    BY <1>1, <1>5, OnBranchUpto DEF Upto
  <2>2. Num(d) = Num(b)
    BY SMTT(60), ZenonT(60), <1>1, <2>1
  <2> QED BY <1>3, <2>2, OnBranchUpto DEF Upto
<1> QED BY <1>1, <1>3, <1>4, <1>5

\* The blocks that follow a block on a branch (fetch_branch_from).
LEMMA FromIs ==
  ASSUME NEW b \in Known, NEW c \in Upto(b)
  PROVE  /\ From(c, b) \in Seq(Block)
         /\ Len(From(c, b)) = Num(b) - Num(c)
         /\ \A i \in 1 .. Num(b) - Num(c) : From(c, b)[i] = Path[b][Num(c) + i]
         /\ From(c, b) = <<>> <=> Num(c) = Num(b)
<1>1. Num(c) \in Nat /\ Num(b) \in Nat /\ Num(c) <= Num(b)
  BY OnBranchUpto
<1>2. PICK m \in Nat, n \in Nat : m = Num(c) + 1 /\ n = Num(b)
  BY SMTT(60), ZenonT(60), <1>1
<1>3. \A i \in m .. n : Path[b][i] \in Block
  <2>1. Path[b] \in Seq(Block) /\ n = Len(Path[b])
    BY <1>2, PathAssumption DEF Known, Num
  <2>2. \A i \in m .. n : i \in 1 .. Len(Path[b])
    BY SMTT(60), ZenonT(60), <1>1, <1>2, <2>1
  <2> QED BY SMTT(60), ZenonT(60), <2>1, <2>2
<1>4. m \in Int /\ n \in Int
  BY SMTT(60), ZenonT(60), <1>2
<1> DEFINE f == SubSeq(Path[b], m, n)
<1>5. /\ f \in Seq(Block) /\ Len(f) = IF m <= n THEN n - m + 1 ELSE 0
      /\ \A i \in 1 .. n - m + 1 : f[i] = Path[b][m + i - 1]
  BY SMTT(60), ZenonT(60), <1>3, <1>4, SubSeqProperties
<1>6. From(c, b) = f
  BY <1>2 DEF From
<1> HIDE DEF f
<1>7. Len(f) = Num(b) - Num(c) /\ n - m + 1 = Num(b) - Num(c)
  BY SMTT(60), ZenonT(60), <1>1, <1>2, <1>5
<1>8. ASSUME NEW i \in 1 .. Num(b) - Num(c) PROVE f[i] = Path[b][Num(c) + i]
  <2>1. m + i - 1 = Num(c) + i
    BY SMTT(60), ZenonT(60), <1>1, <1>2
  <2> QED BY <1>5, <1>7, <2>1
<1>9. f = <<>> <=> Num(c) = Num(b)
  BY SMTT(60), ZenonT(60), <1>1, <1>5, <1>7
<1> QED BY <1>5, <1>6, <1>7, <1>8, <1>9

\* The next block that maybe_switch_forks applies, and what is left then.
LEMMA FromHead ==
  ASSUME NEW b \in Known, NEW c \in Upto(b), From(c, b) # <<>>,
         NEW d, d = Head(From(c, b))
  PROVE  /\ d \in Block /\ d \in OnBranch(b) /\ c \in Upto(d) /\ Num(d) = Num(c) + 1
         /\ Tail(From(c, b)) = From(d, b)
<1>1. Num(c) \in Nat /\ Num(b) \in Nat /\ Num(c) < Num(b)
  BY SMTT(60), ZenonT(60), FromIs, OnBranchUpto
<1>2. Path[b] \in Seq(Block) /\ Len(Path[b]) = Num(b)
  BY PathAssumption DEF Known, Num
<1>3. PICK m \in Nat, n \in Nat : m = Num(c) + 1 /\ n = Num(b)
  BY SMTT(60), ZenonT(60), <1>1
<1>4. m \in 1 .. Len(Path[b]) /\ n \in m .. Len(Path[b])
  BY SMTT(60), ZenonT(60), <1>1, <1>2, <1>3
<1>5. Head(SubSeq(Path[b], m, n)) = Path[b][m] /\ Tail(SubSeq(Path[b], m, n)) = SubSeq(Path[b], m + 1, n)
  BY <1>2, <1>4, HeadTailOfSubSeq
<1>6. d = Path[b][m] /\ Tail(From(c, b)) = SubSeq(Path[b], m + 1, n)
  BY <1>3, <1>5 DEF From
<1>7. d \in OnBranch(b)
  BY <1>2, <1>4, <1>6 DEF OnBranch
<1>8. d \in Block /\ Num(d) = m
  <2>1. b \in Block
    BY SMTT(60), ZenonT(60), <1>1, NumType DEF Known
  <2>2. Len(Path[Path[b][m]]) = m
    BY <1>4, <2>1, PathAssumption
  <2> QED BY SMTT(60), ZenonT(60), <1>2, <1>4, <1>6, <2>2 DEF Num
<1>9. c \in Upto(d)
  <2>1. c = Genesis \/ c \in OnBranch(b)
    BY DEF Upto
  <2>2. d \in Upto(b) /\ Num(c) <= Num(d)
    BY SMTT(60), ZenonT(60), <1>1, <1>3, <1>7, <1>8 DEF Upto
  <2> QED BY <2>1, <2>2, OnBranchUpto DEF Upto
<1> QED BY <1>3, <1>6, <1>7, <1>8, <1>9 DEF From

\* The transactions of a branch are those up to a block and those after it.
LEMMA BodiesFrom ==
  ASSUME NEW b \in Known, NEW c \in Upto(b)
  PROVE  \A t : t \in Included(b) <=> t \in Included(c) \/ t \in BodiesOf(From(c, b))
<1>1. /\ Num(c) \in Nat /\ Num(b) \in Nat /\ Num(c) <= Num(b)
      /\ \A d : d \in OnBranch(c) <=> d \in OnBranch(b) /\ Num(d) <= Num(c)
  BY OnBranchUpto
<1>2. /\ Len(From(c, b)) = Num(b) - Num(c)
      /\ \A i \in 1 .. Num(b) - Num(c) : From(c, b)[i] = Path[b][Num(c) + i]
  BY FromIs
<1>3. ASSUME NEW d \in OnBranch(b), d \notin OnBranch(c)
      PROVE  \E i \in 1 .. Len(From(c, b)) : d = From(c, b)[i]
  <2>1. d \in Block /\ Num(d) \in 1 .. Num(b) /\ Path[b][Num(d)] = d
    BY OnBranchIs
  <2>2. PICK i \in 1 .. Num(b) - Num(c) : Num(d) = Num(c) + i
    <3>1. Num(d) - Num(c) \in 1 .. Num(b) - Num(c) /\ Num(d) = Num(c) + (Num(d) - Num(c))
      BY SMTT(60), ZenonT(60), <1>1, <1>3, <2>1
    <3> QED BY <3>1
  <2> QED BY <1>2, <2>1, <2>2
<1>4. ASSUME NEW i \in 1 .. Len(From(c, b)) PROVE From(c, b)[i] \in OnBranch(b)
  <2>1. Num(c) + i \in 1 .. Num(b)
    BY SMTT(60), ZenonT(60), <1>1, <1>2
  <2> QED BY <1>2, <2>1 DEF OnBranch
<1> QED BY <1>1, <1>3, <1>4 DEF Included, BodiesOf

\* A nonempty set of numbers has a least one.
LEMMA Least ==
  ASSUME NEW T \in SUBSET Nat, T # {}
  PROVE  \E m \in T : \A i \in T : m <= i
<1> DEFINE Less == {p \in Nat \X Nat : p[1] < p[2]}
<1>1. IsWellFoundedOn(Less, Nat)
  BY NatLessThanWellFounded DEF OpToRel
<1> HIDE DEF Less
<1>2. PICK m \in T : \A i \in T : ~ (<<i, m>> \in Less)
  BY <1>1, WFMin
<1>3. ASSUME NEW i \in T, i < m PROVE FALSE
  <2>1. <<i, m>> \in Nat \X Nat /\ <<i, m>>[1] < <<i, m>>[2]
    BY <1>3
  <2> QED BY <1>2, <2>1 DEF Less
<1>4. \A i \in T : m <= i
  BY SMTT(60), ZenonT(60), <1>3
<1> QED BY <1>4

\* Numbers up to a bound have a greatest one.
LEMMA Greatest ==
  ASSUME NEW T \in SUBSET Nat, NEW n \in Nat, \A i \in T : i <= n, T # {}
  PROVE  \E m \in T : \A i \in T : i <= m
<1> DEFINE V == {n - i : i \in T}
<1>1. \A i \in T : i \in Nat /\ n - i \in Nat /\ n - i \in V
  BY SMTT(60), ZenonT(60)
<1>2. V \in SUBSET Nat /\ V # {}
  BY <1>1
<1>3. PICK v \in V : \A x \in V : v <= x
  <2> HIDE DEF V
  <2> QED BY <1>2, Least
<1>4. PICK m \in T : v = n - m
  OBVIOUS
<1> HIDE DEF V
<1>5. ASSUME NEW i \in T PROVE i <= m
  <2>1. n - m <= n - i /\ i \in Nat /\ m \in Nat
    BY <1>1, <1>3, <1>4
  <2> QED BY SMTT(60), ZenonT(60), <2>1
<1> QED BY <1>4, <1>5

\* The block that maybe_switch_forks goes back to is on both branches.
LEMMA CommonAncestorIs ==
  ASSUME NEW a \in Known, NEW b \in Known
  PROVE  CommonAncestor(a, b) \in Upto(a) /\ CommonAncestor(a, b) \in Upto(b)
<1> DEFINE common == {Genesis} \cup (OnBranch(a) \cap OnBranch(b))
           T == {Num(c) : c \in common}
<1>1. common \subseteq Upto(a) /\ common \subseteq Upto(b) /\ Genesis \in common
  BY DEF Upto
<1> HIDE DEF common
<1>2. T \in SUBSET Nat /\ Num(a) \in Nat /\ (\A i \in T : i <= Num(a)) /\ T # {}
  BY SMTT(60), ZenonT(60), <1>1, OnBranchUpto
<1>3. PICK m \in T : \A i \in T : i <= m
  <2> HIDE DEF T
  <2> QED BY <1>2, Greatest
<1>4. \E c \in common : \A d \in common : Num(d) <= Num(c)
  BY <1>3
<1>5. CommonAncestor(a, b) = CHOOSE c \in common : \A d \in common : Num(d) <= Num(c)
  BY DEF CommonAncestor, common
<1> QED BY <1>1, <1>4, <1>5

-------------------------------------------------------------------------------
(* The inductive invariant.  Its parts name the state they are about: bd the *)
(* bodies, h the head, v the valid blocks, tk the task, bl the block that is *)
(* being built, p whether the node is a producer.                            *)

In(bd, b) == UNION {bd[c] : c \in OnBranch(b)}

\* A partial function.
IsMap(f, X, Y) == DOMAIN f \subseteq X /\ f = [x \in DOMAIN f |-> f[x]] /\ \A x \in DOMAIN f : f[x] \in Y

\* The block was valid when it was applied: nothing in it is expired, or twice on its branch.
ValidBlock(bd, b) ==
  \A t \in bd[b] : Num(b) <= Expiration[t] /\ \A c \in OnBranch(b) \ {b} : t \notin bd[c]

\* What is on the chain was applied.
ChainOk(bd, h, v) ==
  /\ bd \in [Known -> SUBSET Trx] /\ h \in Known /\ v \subseteq Known
  /\ OnBranch(h) \subseteq v
  /\ \A b \in v : OnBranch(b) \subseteq v /\ ValidBlock(bd, b)

\* The blocks after a block on some branch, on which the node's own were produced.
Run(v, blocks, from) ==
  \E b \in Known : /\ from \in Upto(b) /\ blocks = From(from, b)
                   /\ OnBranch(b) \cap Own \subseteq v

\* maybe_switch_forks goes on from the head along a branch, and can return to the old one.
TaskOk(h, v, tk) ==
  /\ tk = [todo |-> tk.todo, old |-> tk.old, fork |-> tk.fork]
  /\ tk.fork \in Upto(h)
  /\ Run(v, tk.todo, h)
  /\ Run(v, tk.old, tk.fork)

\* The block that is being applied is the next one of the task; what was executed in the
\* pending block is not expired and not in the chain.
Executed(bd, bl) == bd[bl.block] \ bl.left

BuildOk(bd, h, tk, bl, p) ==
  /\ bl \in [at : {"none", "apply", "speculative", "producing"}, block : Known \cup {NoBlock},
             left : SUBSET Trx, done : SUBSET Trx, time : Nat]
  /\ bl.at = "none" => bl = NoBuilding
  /\ bl.at = "apply" =>
       /\ tk.todo # <<>> /\ bl.block = Head(tk.todo) /\ bl.done = {} /\ bl.time = Num(bl.block)
       /\ bl.left \subseteq bd[bl.block]
       /\ \A t \in Executed(bd, bl) : bl.time <= Expiration[t] /\ t \notin In(bd, h)
  /\ bl.at \in {"speculative", "producing"} =>
       /\ tk = Done /\ Num(h) < bl.time
       /\ \A t \in bl.done : bl.time <= Expiration[t] /\ t \notin In(bd, h)
  /\ bl.at = "producing" => p

\* The number of a tracked transaction's block, in the middle of a block too.
Waiting == [block_num : Nat, num_blocks : NumBlocks]

Placed(bd, h, t, n) ==
  \/ \E b \in OnBranch(h) : t \in bd[b] /\ n = Num(b)
  \/ t \notin In(bd, h) /\ (n = 0 \/ n > Num(h))

TrackedOk(bd, h, bl, p, tr) ==
  /\ IsMap(tr, Trx, Waiting)
  /\ p => DOMAIN tr = {}
  /\ \A t \in DOMAIN tr :
       /\ Placed(bd, h, t, tr[t].block_num)
       /\ bl.at = "apply" /\ t \notin In(bd, h) =>
            tr[t].block_num = IF t \in Executed(bd, bl) THEN Num(bl.block) ELSE 0

\* The entries of the status are about the branch of the block it knows as the head.
Entry == [block : Known \cup {NoBlock}, forked_out : BOOLEAN]

EntryOk(bd, h, bl, sh, t, e) ==
  /\ S!is_in_block(e) => e.block \in OnBranch(sh) /\ t \in bd[e.block]
  /\ \/ S!is_in_block(e) /\ e.block \in OnBranch(h)
     \/ t \notin In(bd, h) /\ (S!is_in_block(e) => Num(e.block) > Num(h))
  /\ bl.at = "apply" /\ t \in Executed(bd, bl) => S!is_in_block(e) /\ e.block = bl.block

IsStatus(s) ==
  /\ s = [storage |-> s.storage, head |-> s.head, last_proc |-> s.last_proc,
          speculative |-> s.speculative, assertion |-> s.assertion]
  /\ IsMap(s.storage, Trx, Entry)

StatusOk(bd, h, v, bl, s) ==
  /\ IsStatus(s)
  /\ s.head \in Known /\ OnBranch(s.head) \cap Own \subseteq v
  /\ bl.at = "apply" => s.head = bl.block
  /\ bl.at \in {"speculative", "producing"} => s.speculative = bl.done
  /\ s.assertion = "held" =>
       /\ s.last_proc = Num(s.head)
       /\ \A t \in DOMAIN s.storage : EntryOk(bd, h, bl, s.head, t, s.storage[t])

KeptInv == kept \subseteq In(body, head) \cup building.done \cup DOMAIN queue

IInv ==
  /\ producer \in BOOLEAN /\ answer \in [Trx -> {"none", "in_block", "expired"}]
  /\ ChainOk(body, head, valid) /\ lib \in Upto(head)
  /\ TaskOk(head, valid, task)
  /\ BuildOk(body, head, task, building, producer)
  /\ TrackedOk(body, head, building, producer, tracked)
  /\ StatusOk(body, head, valid, building, status)
  /\ KeptInv

\* The initial state: an empty queue, nothing tracked, no status.
LEMMA InitInv == Init => IInv
<1> SUFFICES ASSUME Init PROVE IInv
  OBVIOUS
<1>0. /\ Genesis \in Known /\ Num(Genesis) = 0 /\ OnBranch(Genesis) = {} /\ Genesis \in Upto(Genesis)
      /\ body \in [Known -> SUBSET Trx] /\ Num(Genesis) \in Nat
  BY NumType, OnBranchSelf DEF Known, Upto, Init, Bodies
<1>1. ChainOk(body, head, valid) /\ lib \in Upto(head)
  BY SMTT(60), ZenonT(60), <1>0, TrxAssumption DEF Init, ChainOk, ValidBlock
<1>2. \A v : Run(v, <<>>, Genesis)
  <2>1. From(Genesis, Genesis) = <<>>
    BY <1>0, FromIs
  <2> QED BY <1>0, <2>1 DEF Run
<1>3. TaskOk(head, valid, task)
  BY <1>0, <1>2 DEF Init, TaskOk, Done
<1>4. BuildOk(body, head, task, building, producer)
  BY <1>0 DEF Init, BuildOk, NoBuilding
<1>5. TrackedOk(body, head, building, producer, tracked)
  BY SMTT(60), ZenonT(60) DEF Init, TrackedOk, R!NothingTracked, IsMap
<1>6. StatusOk(body, head, valid, building, status)
  BY SMTT(60), ZenonT(60), <1>0 DEF Init, StatusOk, S!NewStatus, IsStatus, IsMap, NoBuilding
<1>7. KeptInv
  BY DEF Init, KeptInv
<1> QED BY <1>1, <1>3, <1>4, <1>5, <1>6, <1>7 DEF Init, IInv

-------------------------------------------------------------------------------
(* The chain.                                                                *)

\* A block is up to itself.
LEMMA UptoSelf == \A b \in Known : b \in Upto(b)
  BY OnBranchSelf DEF Known, Upto

\* A transaction is once on a branch.
LEMMA OnceOnChain ==
  ASSUME NEW bd, NEW h, NEW v, NEW b, NEW d, NEW t,
         ChainOk(bd, h, v), b \in OnBranch(h), d \in OnBranch(h), t \in bd[b], t \in bd[d]
  PROVE  b = d
<1>1. ASSUME NEW x \in OnBranch(h), NEW y \in OnBranch(h), Num(x) <= Num(y), x # y, t \in bd[x], t \in bd[y]
      PROVE  FALSE
  <2>1. h \in Known /\ y \in v /\ ValidBlock(bd, y)
    BY <1>1 DEF ChainOk
  <2>2. y \in Upto(h)
    BY DEF Upto
  <2>3. x \in OnBranch(y)
    BY <1>1, <2>1, <2>2, OnBranchUpto
  <2> QED BY <1>1, <2>1, <2>3 DEF ValidBlock
<1>2. h \in Known
  BY DEF ChainOk
<1>3. Num(b) \in Nat /\ Num(d) \in Nat
  BY <1>2, OnBranchUpto DEF Upto
<1>4. Num(b) <= Num(d) \/ Num(d) <= Num(b)
  BY SMTT(60), ZenonT(60), <1>3
<1> QED BY <1>1, <1>4

\* Going back to a block of the chain (pop_block).
LEMMA ChainBack ==
  ASSUME NEW bd, NEW h, NEW v, NEW c,
         ChainOk(bd, h, v), c \in Upto(h)
  PROVE  /\ ChainOk(bd, c, v)
         /\ Num(c) \in Nat /\ Num(h) \in Nat /\ Num(c) <= Num(h)
         /\ \A t : t \in In(bd, c) => t \in In(bd, h)
         /\ \A b \in OnBranch(h) : /\ Num(b) \in Nat /\ Num(b) > 0
                                   /\ Num(b) <= Num(c) => b \in OnBranch(c)
                                   /\ Num(b) > Num(c) => \A t \in bd[b] : t \notin In(bd, c)
<1>0. h \in Known
  BY DEF ChainOk
<1>1. /\ c \in Known /\ Num(c) \in Nat /\ Num(h) \in Nat /\ Num(c) <= Num(h)
      /\ \A d : d \in OnBranch(c) <=> d \in OnBranch(h) /\ Num(d) <= Num(c)
  BY <1>0, OnBranchUpto
<1>2. ChainOk(bd, c, v)
  BY <1>1 DEF ChainOk
<1>3. \A t : t \in In(bd, c) => t \in In(bd, h)
  BY <1>1 DEF In
<1>4. ASSUME NEW b \in OnBranch(h)
      PROVE  Num(b) \in Nat /\ Num(b) > 0
  BY <1>0, OnBranchIs, NumType
<1>5. ASSUME NEW b \in OnBranch(h), Num(b) > Num(c), NEW t \in bd[b], t \in In(bd, c)
      PROVE  FALSE
  <2>1. PICK d \in OnBranch(c) : t \in bd[d]
    BY <1>5 DEF In
  <2>2. d \in OnBranch(h) /\ Num(d) <= Num(c)
    BY <1>1
  <2>3. d = b
    BY <2>1, <2>2, OnceOnChain
  <2> QED BY SMTT(60), ZenonT(60), <1>1, <1>4, <1>5, <2>2, <2>3
<1> QED BY <1>1, <1>2, <1>3, <1>4, <1>5

\* The next block of the chain.
NextBlock(h, b) == b \in Block /\ h \in Upto(b) /\ Num(b) = Num(h) + 1

\* The next block is the end of its branch.
LEMMA NextIs ==
  ASSUME NEW h, NEW b, h \in Known, NextBlock(h, b)
  PROVE  /\ b \in Known /\ b \notin OnBranch(h) /\ Num(b) \in Nat /\ Num(h) \in Nat /\ Num(h) < Num(b)
         /\ \A d : d \in OnBranch(b) <=> d \in OnBranch(h) \/ d = b
<1>1. b \in Known /\ h \in Upto(b) /\ Num(b) = Num(h) + 1
  BY NumType DEF NextBlock
<1>2. /\ b \notin OnBranch(h) /\ Num(b) \in Nat /\ Num(h) \in Nat
      /\ \A d : d \in OnBranch(b) <=> d \in OnBranch(h) \/ d = b
  BY <1>1, Child
<1>3. Num(h) < Num(b)
  BY SMTT(60), ZenonT(60), <1>1, <1>2
<1> QED BY <1>1, <1>2, <1>3

\* What the next block adds to the chain.
LEMMA InChild ==
  ASSUME NEW bd, NEW h, NEW b, h \in Known, NextBlock(h, b)
  PROVE  \A t : t \in In(bd, b) <=> t \in In(bd, h) \/ t \in bd[b]
BY SMTT(60), ZenonT(60), NextIs DEF In

\* A block whose transactions all executed is valid on top of the head (commit_block).
LEMMA ChainChild ==
  ASSUME NEW bd, NEW h, NEW v, NEW b,
         ChainOk(bd, h, v), NextBlock(h, b),
         \A t \in bd[b] : Num(b) <= Expiration[t] /\ t \notin In(bd, h)
  PROVE  ChainOk(bd, b, v \cup {b})
<1>0. h \in Known
  BY DEF ChainOk
<1>1. /\ b \in Known /\ b \notin OnBranch(h)
      /\ \A d : d \in OnBranch(b) <=> d \in OnBranch(h) \/ d = b
  BY <1>0, NextIs, InChild
<1>2. ValidBlock(bd, b)
  BY <1>1 DEF ValidBlock, In
<1> QED BY <1>1, <1>2 DEF ChainOk

\* Producing a block fills in its body; nothing valid is built on it yet.
LEMMA ChainBody ==
  ASSUME NEW bd, NEW h, NEW v, NEW b, NEW bd2,
         ChainOk(bd, h, v), b \notin v, bd2 \in [Known -> SUBSET Trx],
         \A c \in Known : c # b => bd2[c] = bd[c]
  PROVE  ChainOk(bd2, h, v) /\ \A t : t \in In(bd2, h) <=> t \in In(bd, h)
<1>2. \A x \in v : x \in Known /\ x # b /\ bd2[x] = bd[x]
  BY DEF ChainOk
<1>3. OnBranch(h) \subseteq v
  BY DEF ChainOk
<1>4. \A t : t \in In(bd2, h) <=> t \in In(bd, h)
  BY <1>2, <1>3 DEF In
<1>5. ASSUME NEW x \in v PROVE ValidBlock(bd2, x)
  <2>1. ValidBlock(bd, x) /\ OnBranch(x) \subseteq v
    BY DEF ChainOk
  <2> QED BY <1>2, <2>1 DEF ValidBlock
<1> QED BY <1>4, <1>5 DEF ChainOk

-------------------------------------------------------------------------------
(* The task of maybe_switch_forks.                                           *)

\* Nothing is left to apply.
LEMMA RunNothing ==
  ASSUME NEW v, NEW b \in Known, OnBranch(b) \cap Own \subseteq v
  PROVE  Run(v, <<>>, b)
<1>1. b \in Upto(b)
  BY UptoSelf
<1>2. From(b, b) = <<>>
  BY <1>1, FromIs
<1> QED BY <1>1, <1>2 DEF Run

\* The task is over.
LEMMA TaskDone ==
  ASSUME NEW bd, NEW h, NEW v,
         ChainOk(bd, h, v)
  PROVE  TaskOk(h, v, Done)
<1>1. h \in Known /\ OnBranch(h) \cap Own \subseteq v /\ Genesis \in Known /\ OnBranch(Genesis) \cap Own \subseteq v
  BY NumType, OnBranchSelf DEF ChainOk
<1>2. Run(v, <<>>, h) /\ Run(v, <<>>, Genesis)
  BY <1>1, RunNothing
<1> QED BY <1>2 DEF TaskOk, Done, Upto

\* The block that is applied next.
LEMMA TaskHead ==
  ASSUME NEW h \in Known, NEW v, NEW tk, TaskOk(h, v, tk), tk.todo # <<>>,
         NEW d, d = Head(tk.todo)
  PROVE  /\ NextBlock(h, d) /\ OnBranch(d) \cap Own \subseteq v
         /\ Run(v, Tail(tk.todo), d)
<1>1. PICK b \in Known : h \in Upto(b) /\ tk.todo = From(h, b) /\ OnBranch(b) \cap Own \subseteq v
  BY DEF TaskOk, Run
<1>2. /\ d \in Block /\ d \in OnBranch(b) /\ h \in Upto(d) /\ Num(d) = Num(h) + 1
      /\ Tail(tk.todo) = From(d, b)
  BY <1>1, FromHead
<1>3. d \in Upto(b)
  BY <1>2 DEF Upto
<1>4. OnBranch(d) \subseteq OnBranch(b)
  BY <1>3, OnBranchUpto
<1> QED BY <1>1, <1>2, <1>3, <1>4 DEF NextBlock, Run

\* More valid blocks leave a run as it is.
LEMMA RunGrows ==
  ASSUME NEW v, NEW w, v \subseteq w, NEW blocks, NEW from, Run(v, blocks, from)
  PROVE  Run(w, blocks, from)
BY DEF Run

-------------------------------------------------------------------------------
(* The transactions that senders wait for.                                   *)

\* A transaction is placed on what is left of the chain when blocks are popped.
LEMMA PlacedBack ==
  ASSUME NEW bd, NEW h, NEW v, NEW c, NEW t, NEW n,
         ChainOk(bd, h, v), c \in Upto(h), n \in Nat, Placed(bd, h, t, n)
  PROVE  Placed(bd, c, t, n)
<1>1. /\ Num(c) \in Nat /\ Num(h) \in Nat /\ Num(c) <= Num(h)
      /\ t \in In(bd, c) => t \in In(bd, h)
      /\ \A b \in OnBranch(h) : /\ Num(b) \in Nat
                                /\ Num(b) <= Num(c) => b \in OnBranch(c)
                                /\ Num(b) > Num(c) => (t \in bd[b] => t \notin In(bd, c))
  BY ChainBack
<1>2. CASE \E b \in OnBranch(h) : t \in bd[b] /\ n = Num(b)
  <2>1. PICK b \in OnBranch(h) : t \in bd[b] /\ n = Num(b)
    BY <1>2
  <2>2. Num(b) <= Num(c) \/ Num(b) > Num(c)
    BY SMTT(60), ZenonT(60), <1>1
  <2> QED BY <1>1, <2>1, <2>2 DEF Placed
<1>3. CASE t \notin In(bd, h) /\ (n = 0 \/ n > Num(h))
  <2>1. n = 0 \/ n > Num(c)
    BY SMTT(60), ZenonT(60), <1>1, <1>3
  <2> QED BY <1>1, <1>3, <2>1 DEF Placed
<1> QED BY <1>2, <1>3 DEF Placed

\* The entries of the tracked transactions are numbers.
LEMMA TrackedType ==
  ASSUME NEW tr, IsMap(tr, Trx, Waiting), NEW t \in DOMAIN tr
  PROVE  tr[t] \in Waiting /\ tr[t].block_num \in Nat /\ tr[t].num_blocks \in NumBlocks
<1>1. tr[t] \in Waiting
  BY DEF IsMap
<1> QED BY <1>1 DEF Waiting

\* Popping blocks keeps what is tracked.
LEMMA TrackedBack ==
  ASSUME NEW bd, NEW h, NEW v, NEW c, NEW bl, NEW p, NEW tr, NEW bl2,
         ChainOk(bd, h, v), c \in Upto(h), TrackedOk(bd, h, bl, p, tr), bl2.at # "apply"
  PROVE  TrackedOk(bd, c, bl2, p, tr)
<1>1. ASSUME NEW t \in DOMAIN tr PROVE Placed(bd, c, t, tr[t].block_num)
  <2>1. Placed(bd, h, t, tr[t].block_num) /\ tr[t].block_num \in Nat
    BY TrackedType DEF TrackedOk
  <2> QED BY <2>1, PlacedBack
<1> QED BY <1>1 DEF TrackedOk

\* A change of the pending block that is not one of applying.
LEMMA TrackedBuilding ==
  ASSUME NEW bd, NEW h, NEW bl, NEW p, NEW tr, NEW bl2,
         TrackedOk(bd, h, bl, p, tr), bl2.at # "apply"
  PROVE  TrackedOk(bd, h, bl2, p, tr)
BY DEF TrackedOk

\* rollback_to on block_start leaves the numbers of the chain only.
LEMMA TrackedRollback ==
  ASSUME NEW bd, NEW h, NEW bl, NEW p, NEW tr, NEW bl2,
         h \in Known, TrackedOk(bd, h, bl, p, tr), bl2.at = "apply" => Executed(bd, bl2) = {}
  PROVE  TrackedOk(bd, h, bl2, p, R!rollback_to(tr, Num(h) + 1))
<1> DEFINE n == Num(h) + 1
           new == R!rollback_to(tr, n)
<1>0. Num(h) \in Nat /\ IsMap(tr, Trx, Waiting)
  BY NumType DEF TrackedOk
<1>1. /\ DOMAIN new = DOMAIN tr
      /\ new = [t \in DOMAIN new |-> new[t]]
      /\ \A t \in DOMAIN tr :
           new[t] = IF tr[t].block_num >= n THEN [tr[t] EXCEPT !.block_num = 0] ELSE tr[t]
  BY DEF R!rollback_to
<1>2. ASSUME NEW t \in DOMAIN tr
      PROVE  /\ new[t] \in Waiting
             /\ new[t].block_num = IF tr[t].block_num >= n THEN 0 ELSE tr[t].block_num
  <2>1. PICK w \in Waiting : w = tr[t]
    BY <1>0, TrackedType
  <2>2. /\ [w EXCEPT !.block_num = 0] \in Waiting /\ [w EXCEPT !.block_num = 0].block_num = 0
        /\ w.block_num \in Nat
    BY DEF Waiting
  <2>3. new[t] = IF w.block_num >= n THEN [w EXCEPT !.block_num = 0] ELSE w
    BY <1>1, <2>1
  <2> HIDE DEF new, n
  <2> QED BY <2>1, <2>2, <2>3
<1> HIDE DEF new
<1>3. IsMap(new, Trx, Waiting)
  BY <1>0, <1>1, <1>2 DEF IsMap
<1>4. ASSUME NEW t \in DOMAIN tr
      PROVE  Placed(bd, h, t, new[t].block_num) /\ (t \notin In(bd, h) => new[t].block_num = 0)
  <2>0. Placed(bd, h, t, tr[t].block_num) /\ tr[t].block_num \in Nat
    BY <1>0, TrackedType DEF TrackedOk
  <2>1. CASE \E b \in OnBranch(h) : t \in bd[b] /\ tr[t].block_num = Num(b)
    <3>1. PICK b \in OnBranch(h) : t \in bd[b] /\ tr[t].block_num = Num(b)
      BY <2>1
    <3>2. Num(b) \in Nat /\ Num(b) <= Num(h)
      BY OnBranchUpto DEF Upto
    <3>3. new[t].block_num = Num(b)
      BY SMTT(60), ZenonT(60), <1>0, <1>2, <3>1, <3>2
    <3>4. t \in In(bd, h)
      BY <3>1 DEF In
    <3> QED BY <3>1, <3>3, <3>4 DEF Placed
  <2>2. CASE t \notin In(bd, h) /\ (tr[t].block_num = 0 \/ tr[t].block_num > Num(h))
    <3>1. new[t].block_num = 0
      BY SMTT(60), ZenonT(60), <1>0, <1>2, <2>0, <2>2
    <3> QED BY <2>2, <3>1 DEF Placed
  <2> QED BY <2>0, <2>1, <2>2 DEF Placed
<1>5. p => DOMAIN new = {}
  BY <1>1 DEF TrackedOk
<1> QED BY <1>1, <1>3, <1>4, <1>5 DEF TrackedOk, new

\* A transaction that was executed in a block has the block's number (on_applied_transaction).
LEMMA TrackedInBlock ==
  ASSUME NEW bd, NEW h, NEW bl, NEW p, NEW tr, NEW u, NEW bl2,
         h \in Known, TrackedOk(bd, h, bl, p, tr), bl.at = "apply", NextBlock(h, bl.block),
         u \in bd[bl.block], u \notin In(bd, h), bl2.at = "apply", bl2.block = bl.block,
         bl2.left = bl.left \ {u}
  PROVE  TrackedOk(bd, h, bl2, p, R!InBlock(tr, u, Num(bl.block)))
<1> DEFINE n == Num(bl.block)
           new == R!InBlock(tr, u, n)
<1>0. n \in Nat /\ Num(h) \in Nat /\ n > Num(h) /\ IsMap(tr, Trx, Waiting)
  BY SMTT(60), ZenonT(60), NextIs DEF TrackedOk
<1>1. /\ DOMAIN new = DOMAIN tr
      /\ new = [t \in DOMAIN new |-> new[t]]
      /\ \A t \in DOMAIN tr : new[t] = IF t = u THEN [tr[t] EXCEPT !.block_num = n] ELSE tr[t]
  BY DEF R!InBlock
<1>2. ASSUME NEW t \in DOMAIN tr
      PROVE  new[t] \in Waiting /\ new[t].block_num = IF t = u THEN n ELSE tr[t].block_num
  <2>1. tr[t] \in Waiting
    BY <1>0, TrackedType
  <2> QED BY <1>0, <1>1, <2>1 DEF Waiting
<1> HIDE DEF new
<1>3. IsMap(new, Trx, Waiting)
  BY <1>0, <1>1, <1>2 DEF IsMap
<1>4. ASSUME NEW t \in DOMAIN tr PROVE Placed(bd, h, t, new[t].block_num)
  <2>1. CASE t = u
    BY <1>0, <1>2, <2>1 DEF Placed
  <2>2. CASE t # u
    BY <1>2, <2>2 DEF TrackedOk
  <2> QED BY <2>1, <2>2
<1>5. ASSUME NEW t \in DOMAIN tr, t \notin In(bd, h)
      PROVE  new[t].block_num = IF t \in Executed(bd, bl2) THEN Num(bl2.block) ELSE 0
  <2>1. t \in Executed(bd, bl2) <=> t = u \/ t \in Executed(bd, bl)
    BY DEF Executed
  <2> QED BY <1>2, <1>5, <2>1 DEF TrackedOk
<1>6. p => DOMAIN new = {}
  BY <1>1 DEF TrackedOk
<1> QED BY <1>1, <1>3, <1>4, <1>5, <1>6 DEF TrackedOk, new

\* The block was applied: its transactions are in the chain with their number.
LEMMA TrackedCommit ==
  ASSUME NEW bd, NEW h, NEW bl, NEW p, NEW tr, NEW b, NEW bl2,
         h \in Known, TrackedOk(bd, h, bl, p, tr), bl.at = "apply", bl.left = {}, b = bl.block,
         NextBlock(h, b), bl2.at # "apply"
  PROVE  TrackedOk(bd, b, bl2, p, tr)
<1>1. /\ \A d : d \in OnBranch(b) <=> d \in OnBranch(h) \/ d = b
      /\ \A t : t \in In(bd, b) <=> t \in In(bd, h) \/ t \in bd[b]
  <2>1. \A t : t \in In(bd, b) <=> t \in In(bd, h) \/ t \in bd[b]
    BY InChild
  <2> QED BY SMTT(60), ZenonT(60), <2>1, NextIs
<1>2. ASSUME NEW t \in DOMAIN tr PROVE Placed(bd, b, t, tr[t].block_num)
  <2>1. /\ Placed(bd, h, t, tr[t].block_num)
        /\ t \notin In(bd, h) => tr[t].block_num = IF t \in bd[b] THEN Num(b) ELSE 0
    BY DEF TrackedOk, Executed
  <2>2. CASE t \in In(bd, h)
    BY <1>1, <2>1, <2>2 DEF Placed
  <2>3. CASE t \notin In(bd, h) /\ t \in bd[b]
    BY <1>1, <2>1, <2>3 DEF Placed
  <2>4. CASE t \notin In(bd, h) /\ t \notin bd[b]
    BY <1>1, <2>1, <2>4 DEF Placed
  <2> QED BY <2>2, <2>3, <2>4
<1> QED BY <1>2 DEF TrackedOk

\* Answered transactions are not tracked any more.
LEMMA TrackedUntrack ==
  ASSUME NEW bd, NEW h, NEW bl, NEW p, NEW tr, NEW trxs,
         TrackedOk(bd, h, bl, p, tr)
  PROVE  TrackedOk(bd, h, bl, p, R!Untrack(tr, trxs))
<1> DEFINE new == R!Untrack(tr, trxs)
<1>1. /\ DOMAIN new = DOMAIN tr \ trxs /\ new = [t \in DOMAIN new |-> new[t]]
      /\ \A t \in DOMAIN new : t \in DOMAIN tr /\ new[t] = tr[t]
  BY DEF R!Untrack
<1> HIDE DEF new
<1>2. IsMap(new, Trx, Waiting)
  BY <1>1 DEF TrackedOk, IsMap
<1> QED BY <1>1, <1>2 DEF TrackedOk, new

\* A transaction that a sender begins to wait for is not in the chain.
LEMMA TrackedTrack ==
  ASSUME NEW bd, NEW h, NEW bl, NEW p, NEW tr, NEW u, NEW n,
         TrackedOk(bd, h, bl, p, tr), bl.at # "apply", ~ p, u \in Trx, u \notin DOMAIN tr,
         u \notin In(bd, h), n \in NumBlocks
  PROVE  TrackedOk(bd, h, bl, p, R!track_transaction(tr, u, n))
<1> DEFINE new == R!track_transaction(tr, u, n)
<1>1. /\ DOMAIN new = DOMAIN tr \cup {u} /\ new = [t \in DOMAIN new |-> new[t]]
      /\ \A t \in DOMAIN tr : new[t] = tr[t]
      /\ new[u] = [block_num |-> 0, num_blocks |-> n]
  BY DEF R!track_transaction
<1> HIDE DEF new
<1>2. new[u] \in Waiting /\ new[u].block_num = 0
  BY SMTT(60), ZenonT(60), <1>1 DEF Waiting
<1>3. IsMap(new, Trx, Waiting)
  BY <1>1, <1>2 DEF TrackedOk, IsMap
<1>4. Placed(bd, h, u, 0)
  BY DEF Placed
<1> QED BY <1>1, <1>2, <1>3, <1>4 DEF TrackedOk, new

-------------------------------------------------------------------------------
(* The status of transactions: its operations on the fields of the record.   *)

Status(st, hd, lp, sp, held) ==
  [storage |-> st, head |-> hd, last_proc |-> lp, speculative |-> sp, assertion |-> held]

RolledBack(st, n) ==
  [t \in DOMAIN st |->
     [st[t] EXCEPT !.forked_out = @ \/ (st[t].block # NoBlock /\ Num(st[t].block) >= n)]]

Headed(st, hd, lp, b) == IF hd # b /\ Num(b) <= lp THEN RolledBack(st, Num(b)) ELSE st

Without(st, old) == [t \in DOMAIN st \ old |-> st[t]]

NewEntry(b) == [block |-> b, forked_out |-> FALSE]

With(st, trxs, b) ==
  [t \in DOMAIN st \cup trxs |-> IF t \in trxs THEN NewEntry(b) ELSE st[t]]

\* The fields of the status.
LEMMA StatusFields ==
  ASSUME NEW st, NEW hd, NEW lp, NEW sp, NEW held
  PROVE  /\ Status(st, hd, lp, sp, held).storage = st /\ Status(st, hd, lp, sp, held).head = hd
         /\ Status(st, hd, lp, sp, held).last_proc = lp /\ Status(st, hd, lp, sp, held).speculative = sp
         /\ Status(st, hd, lp, sp, held).assertion = held
BY DEF Status

\* What changing a field does.
LEMMA StatusStorage ==
  ASSUME NEW st, NEW hd, NEW lp, NEW sp, NEW held, NEW x
  PROVE  [Status(st, hd, lp, sp, held) EXCEPT !.storage = x] = Status(x, hd, lp, sp, held)
BY SMTT(60), ZenonT(60) DEF Status

\* A new head, in place of the old one.
LEMMA StatusHead ==
  ASSUME NEW st, NEW hd, NEW lp, NEW sp, NEW held, NEW x
  PROVE  [Status(st, hd, lp, sp, held) EXCEPT !.head = x] = Status(st, x, lp, sp, held)
BY SMTT(60), ZenonT(60) DEF Status

\* The number of the block that was processed last.
LEMMA StatusProcessed ==
  ASSUME NEW st, NEW hd, NEW lp, NEW sp, NEW held, NEW b
  PROVE  S!Processed(Status(st, hd, lp, sp, held), b) = Status(st, hd, Num(b), sp, held)
<1>1. PICK x : x = Num(b)
  OBVIOUS
<1>2. [Status(st, hd, lp, sp, held) EXCEPT !.last_proc = x] = Status(st, hd, x, sp, held)
  BY SMTT(60), ZenonT(60) DEF Status
<1> QED BY <1>1, <1>2 DEF S!Processed

\* The transactions of a speculative block.
LEMMA StatusSpeculative ==
  ASSUME NEW st, NEW hd, NEW lp, NEW sp, NEW held, NEW x
  PROVE  [Status(st, hd, lp, sp, held) EXCEPT !.speculative = x] = Status(st, hd, lp, x, held)
BY SMTT(60), ZenonT(60) DEF Status

\* The assertion failed.
LEMMA StatusAssertion ==
  ASSUME NEW st, NEW hd, NEW lp, NEW sp, NEW held
  PROVE  [Status(st, hd, lp, sp, held) EXCEPT !.assertion = "failed"] = Status(st, hd, lp, sp, "failed")
BY SMTT(60), ZenonT(60) DEF Status

\* ensure_storage and status_expiry_of_trxs, on the fields.
LEMMA StatusForget ==
  ASSUME NEW st, NEW hd, NEW lp, NEW sp, NEW held, NEW old
  PROVE  S!Forget(Status(st, hd, lp, sp, held), old) = Status(Without(st, old), hd, lp, sp, held)
<1>1. S!Forget(Status(st, hd, lp, sp, held), old) =
        [Status(st, hd, lp, sp, held) EXCEPT !.storage = Without(Status(st, hd, lp, sp, held).storage, old)]
  BY DEF S!Forget, Without
<1>2. PICK x : x = Without(st, old)
  OBVIOUS
<1>3. Status(st, hd, lp, sp, held).storage = st
  BY SMTT(60), ZenonT(60), StatusFields
<1>4. [Status(st, hd, lp, sp, held) EXCEPT !.storage = x] = Status(x, hd, lp, sp, held)
  BY SMTT(60), ZenonT(60), StatusStorage
<1> QED BY <1>1, <1>2, <1>3, <1>4

\* The insertion of entries, on the fields.
LEMMA StatusSeen ==
  ASSUME NEW st, NEW hd, NEW lp, NEW sp, NEW held, NEW b, NEW trxs
  PROVE  S!Seen(Status(st, hd, lp, sp, held), trxs, b) = Status(With(st, trxs, b), hd, lp, sp, held)
<1>1. S!Seen(Status(st, hd, lp, sp, held), trxs, b) =
        [Status(st, hd, lp, sp, held) EXCEPT !.storage = With(Status(st, hd, lp, sp, held).storage, trxs, b)]
  BY DEF S!Seen, With, NewEntry
<1>2. PICK x : x = With(st, trxs, b)
  OBVIOUS
<1>3. Status(st, hd, lp, sp, held).storage = st
  BY SMTT(60), ZenonT(60), StatusFields
<1>4. [Status(st, hd, lp, sp, held) EXCEPT !.storage = x] = Status(x, hd, lp, sp, held)
  BY SMTT(60), ZenonT(60), StatusStorage
<1> QED BY <1>1, <1>2, <1>3, <1>4

\* A new head, on the fields.
LEMMA StatusNewHead ==
  ASSUME NEW st, NEW hd, NEW lp, NEW sp, NEW held, NEW b
  PROVE  S!NewHead(Status(st, hd, lp, sp, held), b) = Status(Headed(st, hd, lp, b), b, lp, sp, held)
<1>1. S!handle_rollback(Status(st, b, lp, sp, held), Num(b)) = Status(RolledBack(st, Num(b)), b, lp, sp, held)
  <2>1. S!handle_rollback(Status(st, b, lp, sp, held), Num(b)) =
          [Status(st, b, lp, sp, held) EXCEPT !.storage = RolledBack(Status(st, b, lp, sp, held).storage, Num(b))]
    BY DEF S!handle_rollback, RolledBack
  <2>2. PICK x : x = RolledBack(st, Num(b))
    OBVIOUS
  <2>3. Status(st, b, lp, sp, held).storage = st
    BY SMTT(60), ZenonT(60), StatusFields
  <2>4. [Status(st, b, lp, sp, held) EXCEPT !.storage = x] = Status(x, b, lp, sp, held)
    BY SMTT(60), ZenonT(60), StatusStorage
  <2> QED BY <2>1, <2>2, <2>3, <2>4
<1>2. [Status(st, hd, lp, sp, held) EXCEPT !.head = b] = Status(st, b, lp, sp, held)
  BY SMTT(60), ZenonT(60), StatusHead
<1>3. Status(st, hd, lp, sp, held).head = hd /\ Status(st, hd, lp, sp, held).last_proc = lp
  BY SMTT(60), ZenonT(60), StatusFields
<1> QED BY <1>1, <1>2, <1>3 DEF S!NewHead, Headed

\* signal_block_start, on the fields.
LEMMA SignalStart ==
  ASSUME NEW st, NEW hd, NEW lp, NEW sp, NEW held
  PROVE  S!signal_block_start(Status(st, hd, lp, sp, held)) = Status(st, hd, lp, {}, held)
BY SMTT(60), ZenonT(60), StatusSpeculative DEF S!signal_block_start

\* signal_applied_transaction in a received block, on the fields.
LEMMA SignalInBlock ==
  ASSUME NEW st, NEW hd, NEW lp, NEW sp, NEW held, NEW b, NEW old, NEW trxs
  PROVE  S!AppliedInBlock(Status(st, hd, lp, sp, held), trxs, b, old) =
           Status(With(Without(Headed(st, hd, lp, b), old), trxs, b), b, Num(b), sp, held)
<1>1. PICK hs, ns : hs = Headed(st, hd, lp, b) /\ ns = Without(hs, old)
  OBVIOUS
<1>2. S!NewHead(Status(st, hd, lp, sp, held), b) = Status(hs, b, lp, sp, held)
  BY SMTT(60), ZenonT(60), <1>1, StatusNewHead
<1>3. S!Processed(Status(hs, b, lp, sp, held), b) = Status(hs, b, Num(b), sp, held)
  BY SMTT(60), ZenonT(60), StatusProcessed
<1>4. S!Forget(Status(hs, b, Num(b), sp, held), old) = Status(ns, b, Num(b), sp, held)
  BY SMTT(60), ZenonT(60), <1>1, StatusForget
<1>5. S!Seen(Status(ns, b, Num(b), sp, held), trxs, b) = Status(With(ns, trxs, b), b, Num(b), sp, held)
  BY SMTT(60), ZenonT(60), StatusSeen
<1> QED BY <1>1, <1>2, <1>3, <1>4, <1>5 DEF S!AppliedInBlock

\* signal_applied_transaction in a speculative block, on the fields.
LEMMA SignalSpeculative ==
  ASSUME NEW st, NEW hd, NEW lp, NEW sp, NEW held, NEW old, NEW t
  PROVE  S!AppliedSpeculatively(Status(st, hd, lp, sp, held), t, old) =
           Status(With(Without(st, old), {t}, NoBlock), hd, lp, sp \cup {t}, held)
<1>1. [Status(st, hd, lp, sp, held) EXCEPT !.speculative = @ \cup {t}] = Status(st, hd, lp, sp \cup {t}, held)
  <2>1. PICK x : x = Status(st, hd, lp, sp, held).speculative \cup {t}
    OBVIOUS
  <2>2. x = sp \cup {t}
    BY SMTT(60), ZenonT(60), <2>1, StatusFields
  <2>3. [Status(st, hd, lp, sp, held) EXCEPT !.speculative = x] = Status(st, hd, lp, x, held)
    BY SMTT(60), ZenonT(60), StatusSpeculative
  <2> QED BY <2>1, <2>2, <2>3
<1> QED BY SMTT(60), ZenonT(60), <1>1, StatusForget, StatusSeen DEF S!AppliedSpeculatively

\* signal_accepted_block, on the fields.
LEMMA StatusAccepted ==
  ASSUME NEW st, NEW hd, NEW lp, NEW sp, NEW held, NEW b, NEW old, NEW until,
         NEW ns, ns = Without(Headed(st, hd, lp, b), old)
  PROVE  S!signal_accepted_block(Status(st, hd, lp, sp, held), b, old, until) =
           IF b = hd THEN Status(st, hd, lp, sp, held)
           ELSE IF sp \subseteq DOMAIN ns THEN Status(With(ns, sp, b), b, Num(b), {}, held)
           ELSE Status(With(ns, until, b), b, lp, sp, "failed")
<1>1. S!Forget(S!NewHead(Status(st, hd, lp, sp, held), b), old) = Status(ns, b, lp, sp, held)
  <2>1. PICK hs : hs = Headed(st, hd, lp, b)
    OBVIOUS
  <2>2. S!NewHead(Status(st, hd, lp, sp, held), b) = Status(hs, b, lp, sp, held)
    BY SMTT(60), ZenonT(60), <2>1, StatusNewHead
  <2>3. S!Forget(Status(hs, b, lp, sp, held), old) = Status(ns, b, lp, sp, held)
    BY SMTT(60), ZenonT(60), <2>1, StatusForget
  <2> QED BY <2>2, <2>3
<1>2. /\ Status(ns, b, lp, sp, held).storage = ns
      /\ Status(st, hd, lp, sp, held).head = hd /\ Status(st, hd, lp, sp, held).speculative = sp
  BY SMTT(60), ZenonT(60), StatusFields
<1>3. S!Processed(S!signal_block_start(S!Seen(Status(ns, b, lp, sp, held), sp, b)), b) =
        Status(With(ns, sp, b), b, Num(b), {}, held)
  <2>1. PICK x : x = With(ns, sp, b)
    OBVIOUS
  <2>2. S!Seen(Status(ns, b, lp, sp, held), sp, b) = Status(x, b, lp, sp, held)
    BY SMTT(60), ZenonT(60), <2>1, StatusSeen
  <2>3. S!signal_block_start(Status(x, b, lp, sp, held)) = Status(x, b, lp, {}, held)
    BY SMTT(60), ZenonT(60), StatusSpeculative DEF S!signal_block_start
  <2>4. S!Processed(Status(x, b, lp, {}, held), b) = Status(x, b, Num(b), {}, held)
    BY SMTT(60), ZenonT(60), StatusProcessed
  <2> QED BY <2>1, <2>2, <2>3, <2>4
<1>4. [S!Seen(Status(ns, b, lp, sp, held), until, b) EXCEPT !.assertion = "failed"] = Status(With(ns, until, b), b, lp, sp, "failed")
  <2>1. PICK x : x = With(ns, until, b)
    OBVIOUS
  <2>2. S!Seen(Status(ns, b, lp, sp, held), until, b) = Status(x, b, lp, sp, held)
    BY SMTT(60), ZenonT(60), <2>1, StatusSeen
  <2>3. [Status(x, b, lp, sp, held) EXCEPT !.assertion = "failed"] = Status(x, b, lp, sp, "failed")
    BY StatusAssertion
  <2> QED BY <2>1, <2>2, <2>3
<1> QED BY <1>1, <1>2, <1>3, <1>4 DEF S!signal_accepted_block

\* Maps with fewer and with more entries.
LEMMA WithMap ==
  ASSUME NEW st, NEW old, NEW trxs, NEW b, NEW nw,
         IsMap(st, Trx, Entry), trxs \subseteq Trx, b \in Known \cup {NoBlock},
         nw = With(Without(st, old), trxs, b)
  PROVE  /\ IsMap(nw, Trx, Entry)
         /\ \A t : t \in DOMAIN nw <=> t \in trxs \/ (t \in DOMAIN st /\ t \notin old)
         /\ \A t \in trxs : nw[t] = NewEntry(b)
         /\ \A t \in DOMAIN nw : t \notin trxs => t \in DOMAIN st /\ nw[t] = st[t]
<1>1. PICK ns : ns = Without(st, old)
  OBVIOUS
<1>2. DOMAIN ns = DOMAIN st \ old /\ \A t \in DOMAIN ns : ns[t] = st[t]
  BY <1>1 DEF Without
<1>3. /\ DOMAIN nw = DOMAIN ns \cup trxs /\ nw = [t \in DOMAIN nw |-> nw[t]]
      /\ \A t \in DOMAIN nw : nw[t] = IF t \in trxs THEN NewEntry(b) ELSE ns[t]
  BY <1>1 DEF With
<1>4. NewEntry(b) \in Entry
  BY DEF Entry, NewEntry
<1>5. \A t \in DOMAIN nw : t \in Trx /\ nw[t] \in Entry
  BY <1>2, <1>3, <1>4 DEF IsMap
<1> QED BY <1>2, <1>3, <1>5 DEF IsMap

\* What the rollback at a new head does to the entries (handle_rollback).
LEMMA HeadedMap ==
  ASSUME NEW st, IsMap(st, Trx, Entry), NEW hd, NEW lp, NEW b
  PROVE  /\ IsMap(Headed(st, hd, lp, b), Trx, Entry)
         /\ DOMAIN Headed(st, hd, lp, b) = DOMAIN st
         /\ \A t \in DOMAIN st :
              LET e == st[t]
                  f == Headed(st, hd, lp, b)[t]
              IN /\ f.block = e.block
                 /\ S!is_in_block(f) => /\ S!is_in_block(e)
                                        /\ hd # b /\ Num(b) <= lp => ~ (Num(e.block) >= Num(b))
                 /\ S!is_in_block(e) /\ ~ (Num(e.block) >= Num(b)) => S!is_in_block(f)
<1>1. CASE ~ (hd # b /\ Num(b) <= lp)
  BY <1>1 DEF Headed
<1>2. CASE hd # b /\ Num(b) <= lp
  <2>1. PICK ns : ns = Headed(st, hd, lp, b)
    OBVIOUS
  <2>2. /\ DOMAIN ns = DOMAIN st /\ ns = [t \in DOMAIN ns |-> ns[t]]
        /\ \A t \in DOMAIN st :
             ns[t] = [st[t] EXCEPT !.forked_out = @ \/ (st[t].block # NoBlock /\ Num(st[t].block) >= Num(b))]
    BY <1>2, <2>1 DEF Headed, RolledBack
  <2>3. ASSUME NEW t \in DOMAIN st
        PROVE  /\ ns[t] \in Entry /\ ns[t].block = st[t].block
               /\ ns[t].forked_out <=> st[t].forked_out \/ (st[t].block # NoBlock /\ Num(st[t].block) >= Num(b))
    <3>1. PICK e \in Entry : e = st[t]
      BY DEF IsMap
    <3>2. PICK x \in BOOLEAN : x = (e.block # NoBlock /\ Num(e.block) >= Num(b))
      OBVIOUS
    <3>3. ns[t] = [e EXCEPT !.forked_out = @ \/ x]
      BY <2>2, <3>1, <3>2
    <3>4. ns[t] \in Entry /\ ns[t].block = e.block /\ (ns[t].forked_out <=> e.forked_out \/ x)
      BY <3>3 DEF Entry
    <3> QED BY <3>1, <3>2, <3>4
  <2>4. IsMap(ns, Trx, Entry)
    BY <2>2, <2>3 DEF IsMap
  <2> QED BY <1>2, <2>1, <2>2, <2>3, <2>4 DEF S!is_in_block
<1> QED BY <1>1, <1>2

\* The same, of the map it leaves: it has the same entries.
LEMMA HeadedType ==
  ASSUME NEW st, NEW hd, NEW lp, NEW b, NEW hs, IsMap(st, Trx, Entry), hs = Headed(st, hd, lp, b)
  PROVE  IsMap(hs, Trx, Entry) /\ DOMAIN hs = DOMAIN st
BY SMTT(60), ZenonT(60), HeadedMap

-------------------------------------------------------------------------------
(* The status follows the chain.                                             *)

\* The status is its fields.
LEMMA StatusIs ==
  ASSUME NEW s, IsStatus(s)
  PROVE  \E st, hd, lp, sp, held :
           /\ s = Status(st, hd, lp, sp, held) /\ IsMap(st, Trx, Entry)
           /\ s.storage = st /\ s.head = hd /\ s.last_proc = lp /\ s.speculative = sp /\ s.assertion = held
BY DEF IsStatus, Status

\* A record with such fields is a status.
LEMMA IsStatusOf ==
  ASSUME NEW st, IsMap(st, Trx, Entry), NEW hd, NEW lp, NEW sp, NEW held
  PROVE  IsStatus(Status(st, hd, lp, sp, held))
<1>1. PICK s : s = Status(st, hd, lp, sp, held)
  OBVIOUS
<1>2. s.storage = st /\ s.head = hd /\ s.last_proc = lp /\ s.speculative = sp /\ s.assertion = held
  BY SMTT(60), ZenonT(60), <1>1, StatusFields
<1>3. s = [storage |-> s.storage, head |-> s.head, last_proc |-> s.last_proc,
           speculative |-> s.speculative, assertion |-> s.assertion]
  BY <1>1, <1>2 DEF Status
<1> QED BY <1>1, <1>2, <1>3 DEF IsStatus

\* An entry is about what is left of the chain when blocks are popped.
LEMMA EntryBack ==
  ASSUME NEW bd, NEW h, NEW v, NEW c, NEW bl, NEW sh, NEW t, NEW e, NEW bl2,
         ChainOk(bd, h, v), c \in Upto(h), sh \in Known, EntryOk(bd, h, bl, sh, t, e), bl2.at # "apply"
  PROVE  EntryOk(bd, c, bl2, sh, t, e)
<1>1. /\ Num(c) \in Nat /\ Num(h) \in Nat /\ Num(c) <= Num(h)
      /\ t \in In(bd, c) => t \in In(bd, h)
      /\ \A b \in OnBranch(h) : /\ Num(b) \in Nat
                                /\ Num(b) <= Num(c) => b \in OnBranch(c)
                                /\ Num(b) > Num(c) => (t \in bd[b] => t \notin In(bd, c))
  BY ChainBack
<1>2. CASE S!is_in_block(e) /\ e.block \in OnBranch(h)
  <2>1. Num(e.block) <= Num(c) \/ Num(e.block) > Num(c)
    BY SMTT(60), ZenonT(60), <1>1, <1>2
  <2>2. t \in bd[e.block]
    BY <1>2 DEF EntryOk
  <2> QED BY <1>1, <1>2, <2>1, <2>2 DEF EntryOk
<1>3. CASE t \notin In(bd, h) /\ (S!is_in_block(e) => Num(e.block) > Num(h))
  <2>1. ASSUME S!is_in_block(e) PROVE Num(e.block) > Num(c)
    <3>1. e.block \in OnBranch(sh)
      BY <2>1 DEF EntryOk
    <3>2. Num(e.block) \in Nat
      BY <3>1, OnBranchUpto DEF Upto
    <3> QED BY SMTT(60), ZenonT(60), <1>1, <1>3, <2>1, <3>2
  <2> QED BY <1>1, <1>3, <2>1 DEF EntryOk
<1> QED BY <1>2, <1>3 DEF EntryOk

\* Popping blocks needs no signal: the next block_start or applied block follows.
LEMMA StatusBack ==
  ASSUME NEW bd, NEW h, NEW v, NEW c, NEW bl, NEW s, NEW bl2,
         ChainOk(bd, h, v), c \in Upto(h), StatusOk(bd, h, v, bl, s), bl2.at = "none"
  PROVE  StatusOk(bd, c, v, bl2, s)
<1>1. ASSUME s.assertion = "held", NEW t \in DOMAIN s.storage
      PROVE  EntryOk(bd, c, bl2, s.head, t, s.storage[t])
  <2>1. EntryOk(bd, h, bl, s.head, t, s.storage[t]) /\ s.head \in Known
    BY <1>1 DEF StatusOk
  <2> QED BY <2>1, EntryBack
<1> QED BY <1>1 DEF StatusOk

\* signal_block_start
LEMMA StatusStart ==
  ASSUME NEW bd, NEW h, NEW v, NEW bl, NEW s, NEW bl2,
         StatusOk(bd, h, v, bl, s), bl2.at # "apply", bl2.at # "none" => bl2.done = {}
  PROVE  StatusOk(bd, h, v, bl2, S!signal_block_start(s))
<1>1. PICK st, hd, lp, sp, held :
        /\ s = Status(st, hd, lp, sp, held) /\ IsMap(st, Trx, Entry)
        /\ s.storage = st /\ s.head = hd /\ s.last_proc = lp /\ s.speculative = sp /\ s.assertion = held
  BY StatusIs DEF StatusOk
<1>2. PICK r : r = S!signal_block_start(s)
  OBVIOUS
<1>3. r = Status(st, hd, lp, {}, held)
  BY SMTT(60), ZenonT(60), <1>1, <1>2, StatusSpeculative DEF S!signal_block_start
<1>4. r.storage = st /\ r.head = hd /\ r.last_proc = lp /\ r.speculative = {} /\ r.assertion = held
  BY SMTT(60), ZenonT(60), <1>3, StatusFields
<1>5. IsStatus(r)
  BY <1>1, <1>3, IsStatusOf
<1>6. ASSUME held = "held", NEW t \in DOMAIN st PROVE EntryOk(bd, h, bl2, hd, t, st[t])
  BY <1>1, <1>6 DEF StatusOk, EntryOk
<1> QED BY <1>1, <1>2, <1>4, <1>5, <1>6 DEF StatusOk

EntryHeaded(bd, h, b, hd, t, f) ==
  /\ S!is_in_block(f) => f.block \in OnBranch(b) /\ t \in bd[f.block]
  /\ \/ S!is_in_block(f) /\ f.block \in OnBranch(h)
     \/ t \notin In(bd, h) /\ (S!is_in_block(f) => f.block = b /\ hd = b)

\* What NewHead leaves of the entries when the next block of the chain is signalled: those
\* of the chain and, if the block was the head already, those of the block.
LEMMA EntriesHeaded ==
  ASSUME NEW bd, NEW h, NEW b, NEW bl, NEW st, NEW hd, NEW t,
         h \in Known, NextBlock(h, b), IsMap(st, Trx, Entry), hd \in Known, t \in DOMAIN st,
         EntryOk(bd, h, bl, hd, t, st[t])
  PROVE  EntryHeaded(bd, h, b, hd, t, Headed(st, hd, Num(hd), b)[t])
<1> PICK f : f = Headed(st, hd, Num(hd), b)[t]
  OBVIOUS
<1> SUFFICES EntryHeaded(bd, h, b, hd, t, f)
  OBVIOUS
<1>1. /\ b \in Known /\ Num(b) \in Nat /\ Num(h) \in Nat /\ Num(h) < Num(b) /\ Num(b) = Num(h) + 1
      /\ \A d : d \in OnBranch(b) <=> d \in OnBranch(h) \/ d = b
  BY NextIs DEF NextBlock
<1>2. PICK e : e = st[t]
  OBVIOUS
<1>3. EntryOk(bd, h, bl, hd, t, e)
  BY <1>2
<1>4. /\ f.block = e.block
      /\ S!is_in_block(f) => /\ S!is_in_block(e)
                             /\ hd # b /\ Num(b) <= Num(hd) => ~ (Num(e.block) >= Num(b))
      /\ S!is_in_block(e) /\ ~ (Num(e.block) >= Num(b)) => S!is_in_block(f)
  BY SMTT(60), ZenonT(60), <1>2, HeadedMap
<1>5. CASE S!is_in_block(e) /\ e.block \in OnBranch(h)
  <2>1. Num(e.block) \in Nat /\ Num(e.block) <= Num(h)
    BY <1>5, OnBranchUpto DEF Upto
  <2>2. ~ (Num(e.block) >= Num(b))
    BY SMTT(60), ZenonT(60), <1>1, <2>1
  <2> QED BY <1>1, <1>3, <1>4, <1>5, <2>2 DEF EntryOk, EntryHeaded
<1>6. CASE t \notin In(bd, h) /\ (S!is_in_block(e) => Num(e.block) > Num(h))
  <2>1. ASSUME S!is_in_block(f) PROVE f.block = b /\ hd = b /\ t \in bd[f.block]
    <3>1. S!is_in_block(e) /\ e.block \in OnBranch(hd) /\ t \in bd[e.block] /\ Num(e.block) > Num(h)
      BY <1>3, <1>4, <1>6, <2>1 DEF EntryOk
    <3>2. Num(e.block) \in Nat /\ Num(hd) \in Nat /\ Num(e.block) <= Num(hd)
      BY <3>1, OnBranchUpto DEF Upto
    <3>3. Num(e.block) >= Num(b) /\ Num(b) <= Num(hd)
      BY SMTT(60), ZenonT(60), <1>1, <3>1, <3>2
    <3>4. hd = b
      BY <1>4, <2>1, <3>3
    <3>5. Num(e.block) = Num(b)
      BY SMTT(60), ZenonT(60), <1>1, <3>2, <3>3, <3>4
    <3>6. e.block = b
      <4>1. b \in Upto(b) /\ e.block \in Upto(b)
        BY <1>1, <3>1, <3>4, UptoSelf DEF Upto
      <4> QED BY <1>1, <3>5, <4>1, OnBranchUpto
    <3> QED BY <1>4, <3>1, <3>4, <3>6
  <2> QED BY <1>1, <1>6, <2>1 DEF EntryHeaded
<1> QED BY <1>3, <1>5, <1>6 DEF EntryOk, EntryHeaded

\* signal_block_start and the onblock transaction, of the next block of the chain.
LEMMA StatusStartApply ==
  ASSUME NEW bd, NEW h, NEW v, NEW bl, NEW s, NEW b, NEW old, NEW bl2,
         h \in Known, StatusOk(bd, h, v, bl, s), NextBlock(h, b), OnBranch(b) \cap Own \subseteq v,
         bl2.at = "apply", bl2.block = b, bl2.left = bd[b]
  PROVE  StatusOk(bd, h, v, bl2, S!AppliedInBlock(S!signal_block_start(s), {}, b, old))
<1>1. PICK st, hd, lp, sp, held :
        /\ s = Status(st, hd, lp, sp, held) /\ IsMap(st, Trx, Entry)
        /\ s.storage = st /\ s.head = hd /\ s.last_proc = lp /\ s.speculative = sp /\ s.assertion = held
  BY StatusIs DEF StatusOk
<1>2. PICK hs, ns, r : /\ hs = Headed(st, hd, lp, b) /\ ns = With(Without(hs, old), {}, b)
                       /\ r = S!AppliedInBlock(S!signal_block_start(s), {}, b, old)
  OBVIOUS
<1>3. r = Status(ns, b, Num(b), {}, held)
  <2>1. PICK x, z : x = S!signal_block_start(s) /\ z = {}
    OBVIOUS
  <2>2. x = Status(st, hd, lp, z, held)
    BY SMTT(60), ZenonT(60), <1>1, <2>1, SignalStart
  <2>3. S!AppliedInBlock(Status(st, hd, lp, z, held), z, b, old) =
          Status(With(Without(Headed(st, hd, lp, b), old), z, b), b, Num(b), z, held)
    BY SMTT(60), ZenonT(60), SignalInBlock
  <2> QED BY <1>2, <2>1, <2>2, <2>3
<1>4. r.storage = ns /\ r.head = b /\ r.last_proc = Num(b) /\ r.speculative = {} /\ r.assertion = held
  BY SMTT(60), ZenonT(60), <1>3, StatusFields
<1>5. IsMap(hs, Trx, Entry) /\ DOMAIN hs = DOMAIN st
  <2>1. IsMap(st, Trx, Entry)
    BY <1>1
  <2>2. hs = Headed(st, hd, lp, b)
    BY <1>2
  <2> QED BY ONLY ZenonT(60), SMTT(60), <2>1, <2>2, HeadedType
<1>6. b \in Known /\ b \in Known \cup {NoBlock} /\ Num(b) \in Nat /\ Num(h) \in Nat /\ Num(h) < Num(b)
  BY SMTT(60), ZenonT(60), NextIs
<1>7. /\ IsMap(ns, Trx, Entry)
      /\ \A t \in DOMAIN ns : t \in DOMAIN st /\ ns[t] = hs[t]
  <2>1. PICK z : z = {}
    OBVIOUS
  <2>3. z \subseteq Trx
    BY <2>1
  <2>2. ns = With(Without(hs, old), z, b)
    BY <1>2, <2>1
  <2>4. \A t : t \notin z
    BY <2>1
  <2> QED BY SMTT(60), ZenonT(60), <1>5, <1>6, <2>2, <2>3, <2>4, WithMap
<1>8. IsStatus(r)
  BY <1>3, <1>7, IsStatusOf
<1>9. Executed(bd, bl2) = {}
  BY DEF Executed
<1>10. ASSUME held = "held", NEW t \in DOMAIN ns PROVE EntryOk(bd, h, bl2, b, t, ns[t])
  <2>1. lp = Num(hd) /\ hd \in Known /\ \A u \in DOMAIN st : EntryOk(bd, h, bl, hd, u, st[u])
    BY <1>1, <1>10 DEF StatusOk
  <2>2. PICK f : f = hs[t]
    OBVIOUS
  <2>3. EntryHeaded(bd, h, b, hd, t, f)
    <3>1. t \in DOMAIN st /\ f = Headed(st, hd, Num(hd), b)[t]
      BY <1>2, <1>7, <2>1, <2>2
    <3>2. EntryOk(bd, h, bl, hd, t, st[t]) /\ hd \in Known
      BY <2>1, <3>1
    <3>3. IsMap(st, Trx, Entry)
      BY <1>1
    <3>4. EntryHeaded(bd, h, b, hd, t, Headed(st, hd, Num(hd), b)[t])
      BY <3>1, <3>2, <3>3, EntriesHeaded
    <3> QED BY <3>1, <3>4
  <2> QED BY <1>6, <1>7, <1>9, <2>2, <2>3 DEF EntryOk, EntryHeaded
<1> QED BY <1>2, <1>4, <1>6, <1>8, <1>10 DEF StatusOk

\* signal_applied_transaction for a transaction of the block that is being applied.
LEMMA StatusApplyTrx ==
  ASSUME NEW bd, NEW h, NEW v, NEW bl, NEW s, NEW old, NEW u, NEW bl2,
         h \in Known, StatusOk(bd, h, v, bl, s), bl.at = "apply", NextBlock(h, bl.block), u \in Trx,
         u \in bd[bl.block], u \notin In(bd, h), bl2.at = "apply", bl2.block = bl.block,
         bl2.left = bl.left \ {u}
  PROVE  StatusOk(bd, h, v, bl2, S!AppliedInBlock(s, {u}, bl.block, old))
<1>1. PICK st, hd, lp, sp, held :
        /\ s = Status(st, hd, lp, sp, held) /\ IsMap(st, Trx, Entry)
        /\ s.storage = st /\ s.head = hd /\ s.last_proc = lp /\ s.speculative = sp /\ s.assertion = held
  BY StatusIs DEF StatusOk
<1>2. PICK b : b = bl.block
  OBVIOUS
<1>3. hd = b /\ OnBranch(b) \cap Own \subseteq v
  BY <1>1, <1>2 DEF StatusOk
<1>4. PICK ns, r : /\ ns = With(Without(st, old), {u}, b)
                   /\ r = S!AppliedInBlock(s, {u}, b, old)
  OBVIOUS
<1>5. r = Status(ns, b, Num(b), sp, held)
  <2>1. Headed(st, hd, lp, b) = st
    BY <1>3 DEF Headed
  <2>2. PICK xs : xs = {u}
    OBVIOUS
  <2>3. S!AppliedInBlock(Status(st, hd, lp, sp, held), xs, b, old) =
          Status(With(Without(Headed(st, hd, lp, b), old), xs, b), b, Num(b), sp, held)
    BY SMTT(60), ZenonT(60), SignalInBlock
  <2> QED BY <1>1, <1>4, <2>1, <2>2, <2>3
<1>6. r.storage = ns /\ r.head = b /\ r.last_proc = Num(b) /\ r.assertion = held
  BY SMTT(60), ZenonT(60), <1>5, StatusFields
<1>7. /\ b \in Known /\ b \in Known \cup {NoBlock} /\ b # NoBlock /\ {u} \in SUBSET Trx
      /\ Num(b) \in Nat /\ Num(h) \in Nat /\ Num(h) < Num(b) /\ b \in OnBranch(b)
  BY SMTT(60), ZenonT(60), <1>2, NextIs, OnBranchSelf, PathAssumption DEF NextBlock
<1>8. /\ IsMap(ns, Trx, Entry)
      /\ ns[u] = NewEntry(b)
      /\ \A t \in DOMAIN ns : t # u => t \in DOMAIN st /\ ns[t] = st[t]
  <2>1. PICK xs : xs = {u}
    OBVIOUS
  <2>2. ns = With(Without(st, old), xs, b)
    BY <1>4, <2>1
  <2>3. \A t : t \in xs <=> t = u
    BY <2>1
  <2>4. xs \subseteq Trx
    BY <2>1
  <2>5. IsMap(st, Trx, Entry)
    BY <1>1
  <2>6. b \in Known \cup {NoBlock}
    BY <1>7
  <2> QED BY SMTT(60), ZenonT(60), <2>2, <2>3, <2>4, <2>5, <2>6, WithMap
<1>9. IsStatus(r)
  BY <1>5, <1>8, IsStatusOf
<1>10. \A t : t \in Executed(bd, bl2) => t = u \/ t \in Executed(bd, bl)
  BY DEF Executed
<1>11. EntryOk(bd, h, bl2, b, u, ns[u])
  <2>1. S!is_in_block(ns[u]) /\ ns[u].block = b
    BY SMTT(60), ZenonT(60), <1>7, <1>8 DEF S!is_in_block, NewEntry
  <2> QED BY <1>2, <1>7, <2>1 DEF EntryOk
<1>12. ASSUME held = "held", NEW t \in DOMAIN ns, t # u PROVE EntryOk(bd, h, bl2, b, t, ns[t])
  <2>1. EntryOk(bd, h, bl, b, t, st[t])
    BY <1>1, <1>3, <1>8, <1>12 DEF StatusOk
  <2> QED BY <1>2, <1>8, <1>10, <1>12, <2>1 DEF EntryOk
<1> QED BY <1>2, <1>3, <1>4, <1>6, <1>7, <1>9, <1>11, <1>12 DEF StatusOk

\* signal_accepted_block for a block that was applied: its transactions are recorded already.
LEMMA StatusCommit ==
  ASSUME NEW bd, NEW h, NEW v, NEW bl, NEW s, NEW b, NEW old, NEW until, NEW bl2, NEW w,
         h \in Known, StatusOk(bd, h, v, bl, s), bl.at = "apply", bl.left = {}, b = bl.block,
         NextBlock(h, b), bl2.at = "none", v \subseteq w
  PROVE  StatusOk(bd, b, w, bl2, S!signal_accepted_block(s, b, old, until))
<1>1. s.head = b
  BY DEF StatusOk
<1>2. S!signal_accepted_block(s, b, old, until) = s
  BY <1>1 DEF S!signal_accepted_block
<1>3. /\ Num(b) \in Nat
      /\ \A d : d \in OnBranch(b) <=> d \in OnBranch(h) \/ d = b
      /\ \A t : t \in In(bd, b) <=> t \in In(bd, h) \/ t \in bd[b]
  <2>1. \A t : t \in In(bd, b) <=> t \in In(bd, h) \/ t \in bd[b]
    BY InChild
  <2> QED BY SMTT(60), ZenonT(60), <2>1, NextIs
<1>4. ASSUME s.assertion = "held", NEW t \in DOMAIN s.storage
      PROVE  EntryOk(bd, b, bl2, b, t, s.storage[t])
  <2>1. PICK e : e = s.storage[t]
    OBVIOUS
  <2>2. EntryOk(bd, h, bl, b, t, e)
    BY <1>1, <1>4, <2>1 DEF StatusOk
  <2>3. S!is_in_block(e) => e.block \in OnBranch(b) /\ t \in bd[e.block]
    BY <2>2 DEF EntryOk
  <2>4. t \in bd[b] => S!is_in_block(e) /\ e.block = b
    BY <2>2 DEF EntryOk, Executed
  <2>5. CASE S!is_in_block(e)
    BY <2>1, <2>3, <2>5 DEF EntryOk
  <2>6. CASE ~ S!is_in_block(e)
    <3>1. t \notin In(bd, b)
      BY <1>3, <2>2, <2>4, <2>6 DEF EntryOk
    <3> QED BY <2>1, <2>6, <3>1 DEF EntryOk
  <2> QED BY <2>5, <2>6
<1> QED BY <1>1, <1>2, <1>4 DEF StatusOk

\* signal_applied_transaction for a transaction that was executed speculatively.
LEMMA StatusExecute ==
  ASSUME NEW bd, NEW h, NEW v, NEW bl, NEW s, NEW old, NEW u, NEW bl2,
         h \in Known, StatusOk(bd, h, v, bl, s), bl.at \in {"speculative", "producing"}, u \in Trx,
         u \notin In(bd, h), bl2.at = bl.at, bl2.done = bl.done \cup {u}
  PROVE  StatusOk(bd, h, v, bl2, S!AppliedSpeculatively(s, u, old))
<1>1. PICK st, hd, lp, sp, held :
        /\ s = Status(st, hd, lp, sp, held) /\ IsMap(st, Trx, Entry)
        /\ s.storage = st /\ s.head = hd /\ s.last_proc = lp /\ s.speculative = sp /\ s.assertion = held
  BY StatusIs DEF StatusOk
<1>2. PICK ns, ss, r : /\ ns = With(Without(st, old), {u}, NoBlock) /\ ss = sp \cup {u}
                       /\ r = S!AppliedSpeculatively(s, u, old)
  OBVIOUS
<1>3. r = Status(ns, hd, lp, ss, held)
  BY SMTT(60), ZenonT(60), <1>1, <1>2, SignalSpeculative
<1>4. r.storage = ns /\ r.head = hd /\ r.last_proc = lp /\ r.speculative = ss /\ r.assertion = held
  BY SMTT(60), ZenonT(60), <1>3, StatusFields
<1>5. ss = bl2.done /\ bl2.at # "apply" /\ bl.at # "apply"
  BY <1>1, <1>2 DEF StatusOk
<1>6. /\ IsMap(ns, Trx, Entry)
      /\ ns[u] = NewEntry(NoBlock)
      /\ \A t \in DOMAIN ns : t # u => t \in DOMAIN st /\ ns[t] = st[t]
  <2>1. PICK xs : xs = {u}
    OBVIOUS
  <2>2. ns = With(Without(st, old), xs, NoBlock)
    BY <1>2, <2>1
  <2>3. \A t : t \in xs <=> t = u
    BY <2>1
  <2>4. xs \subseteq Trx
    BY <2>1
  <2>5. IsMap(st, Trx, Entry)
    BY <1>1
  <2>6. NoBlock \in Known \cup {NoBlock}
    OBVIOUS
  <2> QED BY SMTT(60), ZenonT(60), <2>2, <2>3, <2>4, <2>5, <2>6, WithMap
<1>7. IsStatus(r)
  BY <1>3, <1>6, IsStatusOf
<1>8. EntryOk(bd, h, bl2, hd, u, ns[u])
  <2>1. ~ S!is_in_block(ns[u])
    BY SMTT(60), ZenonT(60), <1>6 DEF S!is_in_block, NewEntry
  <2> QED BY <1>5, <2>1 DEF EntryOk
<1>9. ASSUME held = "held", NEW t \in DOMAIN ns, t # u PROVE EntryOk(bd, h, bl2, hd, t, ns[t])
  <2>1. EntryOk(bd, h, bl, hd, t, st[t])
    BY <1>1, <1>6, <1>9 DEF StatusOk
  <2> QED BY <1>5, <1>6, <1>9, <2>1 DEF EntryOk
<1> QED BY <1>1, <1>2, <1>4, <1>5, <1>7, <1>8, <1>9 DEF StatusOk

\* signal_accepted_block for the block that was produced: what was executed in it is in it,
\* unless an entry was removed since, which the assertion finds.
LEMMA StatusProduce ==
  ASSUME NEW bd, NEW h, NEW v, NEW bl, NEW s, NEW b, NEW old, NEW until, NEW bd2, NEW w, NEW bl2,
         ChainOk(bd, h, v), StatusOk(bd, h, v, bl, s), bl.at = "producing", bl.done \in SUBSET Trx,
         \A t \in bl.done : t \notin In(bd, h), b \in Own \ v, NextBlock(h, b),
         until \subseteq s.speculative, bd2[b] = bl.done, \A c \in Known : c # b => bd2[c] = bd[c],
         \A t : t \in In(bd2, h) <=> t \in In(bd, h), w = v \cup {b}, bl2.at = "none"
  PROVE  StatusOk(bd2, b, w, bl2, S!signal_accepted_block(s, b, old, until))
<1>0. h \in Known /\ OnBranch(h) \subseteq v /\ b \in Block \ v
  BY PathAssumption DEF ChainOk
<1>1. PICK st, hd, lp, sp, held :
        /\ s = Status(st, hd, lp, sp, held) /\ IsMap(st, Trx, Entry)
        /\ s.storage = st /\ s.head = hd /\ s.last_proc = lp /\ s.speculative = sp /\ s.assertion = held
  BY StatusIs DEF StatusOk
<1>2. sp = bl.done /\ sp \subseteq Trx /\ until \subseteq Trx
  BY <1>1 DEF StatusOk
<1>3. /\ b \in Known /\ b \in Known \cup {NoBlock} /\ b # NoBlock /\ b \notin OnBranch(h) /\ b \in OnBranch(b)
      /\ \A d : d \in OnBranch(b) <=> d \in OnBranch(h) \/ d = b
      /\ \A t : t \in In(bd2, b) <=> t \in In(bd2, h) \/ t \in bd2[b]
  BY <1>0, NextIs, InChild, OnBranchSelf, PathAssumption
<1>4. OnBranch(b) \cap Own \subseteq w
  BY <1>0, <1>3
<1>5. b # hd
  BY <1>1, <1>3 DEF StatusOk
<1>6. /\ bd2[b] = sp
      /\ \A c \in Known : c # b => bd2[c] = bd[c]
      /\ \A t : t \in In(bd2, h) <=> t \in In(bd, h)
  BY <1>2
<1>7. PICK hs, ns, r : /\ hs = Headed(st, hd, lp, b) /\ ns = Without(hs, old)
                       /\ r = S!signal_accepted_block(s, b, old, until)
  OBVIOUS
<1>8. r = IF sp \subseteq DOMAIN ns THEN Status(With(ns, sp, b), b, Num(b), {}, held)
          ELSE Status(With(ns, until, b), b, lp, sp, "failed")
  BY SMTT(60), ZenonT(60), <1>1, <1>5, <1>7, StatusAccepted
<1>9. IsMap(hs, Trx, Entry) /\ DOMAIN hs = DOMAIN st
  <2>1. IsMap(st, Trx, Entry)
    BY <1>1
  <2>2. hs = Headed(st, hd, lp, b)
    BY <1>7
  <2> QED BY ONLY ZenonT(60), SMTT(60), <2>1, <2>2, HeadedType
<1>10. CASE sp \subseteq DOMAIN ns
  <2>1. PICK nw, z : nw = With(ns, sp, b) /\ z = {}
    OBVIOUS
  <2>2. r = Status(nw, b, Num(b), z, held)
    BY <1>8, <1>10, <2>1
  <2>3. r.storage = nw /\ r.head = b /\ r.last_proc = Num(b) /\ r.assertion = held
    BY SMTT(60), ZenonT(60), <2>2, StatusFields
  <2>4. nw = With(Without(hs, old), sp, b)
    BY <1>7, <2>1
  <2>5. /\ IsMap(nw, Trx, Entry)
        /\ \A t \in sp : nw[t] = NewEntry(b)
        /\ \A t \in DOMAIN nw : t \notin sp => t \in DOMAIN hs /\ nw[t] = hs[t]
    BY SMTT(60), ZenonT(60), <1>2, <1>3, <1>9, <2>4, WithMap
  <2>6. IsStatus(r)
    BY <2>2, <2>5, IsStatusOf
  <2>7. ASSUME NEW t \in sp PROVE EntryOk(bd2, b, bl2, b, t, nw[t])
    <3>1. S!is_in_block(nw[t]) /\ nw[t].block = b
      BY SMTT(60), ZenonT(60), <1>3, <2>5 DEF S!is_in_block, NewEntry
    <3> QED BY <1>3, <1>6, <3>1 DEF EntryOk
  <2>8. ASSUME held = "held", NEW t \in DOMAIN nw, t \notin sp PROVE EntryOk(bd2, b, bl2, b, t, nw[t])
    <3>1. /\ lp = Num(hd) /\ hd \in Known /\ t \in DOMAIN st
          /\ EntryOk(bd, h, bl, hd, t, st[t])
      BY <1>1, <1>9, <2>5, <2>8 DEF StatusOk
    <3>2. EntryHeaded(bd, h, b, hd, t, Headed(st, hd, Num(hd), b)[t])
      BY <1>0, <1>1, <3>1, EntriesHeaded
    <3>3. PICK f : f = nw[t]
      OBVIOUS
    <3>4. EntryHeaded(bd, h, b, hd, t, f)
      BY <1>7, <2>5, <2>8, <3>1, <3>2, <3>3
    <3>5. t \notin bd2[b]
      BY <1>6, <2>8
    <3>6. CASE S!is_in_block(f) /\ f.block \in OnBranch(h)
      <4>1. t \in bd[f.block]
        BY <3>4, <3>6 DEF EntryHeaded
      <4>2. f.block \in Known /\ f.block # b
        BY SMTT(60), ZenonT(60), <1>0, <1>3, <3>6, OnBranchUpto DEF Upto
      <4> QED BY <1>3, <1>6, <3>3, <3>6, <4>1, <4>2 DEF EntryOk
    <3>7. CASE t \notin In(bd, h) /\ ~ S!is_in_block(f)
      BY <1>3, <1>6, <3>3, <3>5, <3>7 DEF EntryOk
    <3> QED BY <1>5, <3>4, <3>6, <3>7 DEF EntryHeaded
  <2> QED BY <1>3, <1>4, <1>7, <2>3, <2>6, <2>7, <2>8 DEF StatusOk
<1>11. CASE ~ (sp \subseteq DOMAIN ns)
  <2>1. PICK nw : nw = With(ns, until, b)
    OBVIOUS
  <2>2. r = Status(nw, b, lp, sp, "failed")
    BY <1>8, <1>11, <2>1
  <2>3. r.head = b /\ r.assertion = "failed"
    BY SMTT(60), ZenonT(60), <2>2, StatusFields
  <2>4. nw = With(Without(hs, old), until, b)
    BY <1>7, <2>1
  <2>5. IsMap(nw, Trx, Entry)
    BY SMTT(60), ZenonT(60), <1>2, <1>3, <1>9, <2>4, WithMap
  <2>6. IsStatus(r)
    BY <2>2, <2>5, IsStatusOf
  <2> QED BY <1>3, <1>4, <1>7, <2>3, <2>6 DEF StatusOk
<1> QED BY <1>10, <1>11

-------------------------------------------------------------------------------
(* Every step keeps the invariant.                                           *)

\* Of two blocks on a branch, the one with the smaller number is on the branch of the other.
LEMMA UptoUpto ==
  ASSUME NEW h, NEW c, NEW d, h \in Known, c \in Upto(h), d \in Upto(h), Num(d) <= Num(c)
  PROVE  d \in Upto(c)
<1>1. d = Genesis \/ d \in OnBranch(h)
  BY DEF Upto
<1>2. d \in OnBranch(h) => d \in OnBranch(c)
  BY OnBranchUpto
<1> QED BY <1>1, <1>2 DEF Upto

\* What is up to the head is up to the next block.
LEMMA UptoNext ==
  ASSUME NEW h, NEW b, NEW c, h \in Known, NextBlock(h, b), c \in Upto(h)
  PROVE  c \in Upto(b)
BY NextIs DEF Upto

\* What the insertions and the removals of the queue leave in it.
LEMMA QueueIs ==
  /\ \A q, trxs, type : \A t : t \in DOMAIN Insert(q, trxs, type) <=> t \in DOMAIN q \/ t \in trxs
  /\ \A q, trxs : \A t : t \in DOMAIN Erase(q, trxs) <=> t \in DOMAIN q /\ t \notin trxs
BY DEF Insert, Erase

\* The transactions of a branch.
LEMMA IncludedIs == \A b : Included(b) = In(body, b)
BY DEF Included, In

\* No block is pending.
LEMMA BuildNone ==
  ASSUME NEW bd, NEW h, NEW tk, NEW p
  PROVE  /\ BuildOk(bd, h, tk, NoBuilding, p)
         /\ NoBuilding.at = "none" /\ NoBuilding.done = {}
BY DEF BuildOk, NoBuilding

\* Outside apply_block, what was executed in the pending block is what is aborted with it.
LEMMA AbortedIs ==
  ASSUME NEW bd, NEW h, NEW tk, NEW p, BuildOk(bd, h, tk, building, p), building.at # "apply"
  PROVE  Aborted = building.done
<1>1. building.at \in {"none", "speculative", "producing"}
  BY DEF BuildOk
<1>2. building.at = "none" => building.done = {}
  BY SMTT(60), ZenonT(60) DEF BuildOk, NoBuilding
<1> QED BY <1>1, <1>2 DEF Aborted

\* The answers that senders get.
LEMMA AnsweredIs ==
  ASSUME NEW acked, NEW expired, answer \in [Trx -> {"none", "in_block", "expired"}]
  PROVE  Answered(acked, expired) \in [Trx -> {"none", "in_block", "expired"}]
BY DEF Answered

\* maybe_switch_forks goes back to the fork.
LEMMA SwitchForksInv ==
  ASSUME IInv, NEW b \in Block, SwitchForks(b)
  PROVE  IInv'
<1>1. PICK fork : fork = CommonAncestor(head, b)
  OBVIOUS
<1>2. PICK old : old = From(fork, head)
  OBVIOUS
<1>3. /\ task = Done /\ building.at # "apply"
      /\ OnBranch(b) \cap Own \subseteq valid
      /\ Num(lib) <= Num(fork) /\ head' = fork
      /\ task' = [todo |-> From(fork, b), old |-> old, fork |-> fork]
      /\ building' = NoBuilding
      /\ queue' = add_forked(add_aborted(queue, Aborted), BodiesOf(old))
      /\ kept' = kept \cup BodiesOf(old)
      /\ UNCHANGED <<producer, lib, valid, removed, body, tracked, answer, status>>
  BY <1>1, <1>2 DEF SwitchForks, Idle
<1>4. head \in Known /\ b \in Known /\ OnBranch(head) \subseteq valid
  BY NumType DEF IInv, ChainOk
<1>5. fork \in Upto(head) /\ fork \in Upto(b)
  BY <1>1, <1>4, CommonAncestorIs
<1>6. fork \in Known /\ fork \in Upto(fork)
  BY <1>4, <1>5, OnBranchUpto, UptoSelf
<1>7. ChainOk(body', head', valid')
  BY <1>3, <1>5, ChainBack DEF IInv
<1>8. lib' \in Upto(head')
  BY <1>3, <1>4, <1>5, UptoUpto DEF IInv
<1>9. TaskOk(head', valid', task')
  <2>1. Run(valid, From(fork, b), fork)
    BY <1>3, <1>4, <1>5 DEF Run
  <2>2. Run(valid, old, fork)
    BY <1>2, <1>4, <1>5 DEF Run
  <2>3. task'.todo = From(fork, b) /\ task'.old = old /\ task'.fork = fork
    BY <1>3
  <2> QED BY <1>3, <1>6, <2>1, <2>2, <2>3 DEF TaskOk
<1>10. BuildOk(body', head', task', building', producer') /\ building'.at = "none" /\ building'.done = {}
  BY <1>3, BuildNone
<1>11. TrackedOk(body', head', building', producer', tracked')
  BY <1>3, <1>5, <1>10, TrackedBack DEF IInv
<1>12. StatusOk(body', head', valid', building', status')
  BY <1>3, <1>5, <1>10, StatusBack DEF IInv
<1>13. KeptInv'
  <2>1. \A t : t \in In(body, head) => t \in In(body, fork) \/ t \in BodiesOf(old)
    BY <1>2, <1>4, <1>5, BodiesFrom, IncludedIs
  <2>2. Aborted = building.done
    BY <1>3, AbortedIs DEF IInv
  <2>3. \A t : t \in DOMAIN queue' <=> t \in DOMAIN queue \/ t \in Aborted \/ t \in BodiesOf(old)
    <3>1. PICK q : q = add_aborted(queue, Aborted)
      OBVIOUS
    <3>2. \A t : t \in DOMAIN q <=> t \in DOMAIN queue \/ t \in Aborted
      BY <3>1, QueueIs DEF add_aborted
    <3>3. \A t : t \in DOMAIN queue' <=> t \in DOMAIN q \/ t \in BodiesOf(old)
      BY <1>3, <3>1, QueueIs DEF add_forked
    <3> QED BY <3>2, <3>3
  <2>4. \A t \in kept : t \in In(body, head) \/ t \in building.done \/ t \in DOMAIN queue
    BY DEF IInv, KeptInv
  <2>5. \A t \in kept' : t \in In(body', head') \/ t \in DOMAIN queue'
    BY <1>3, <2>1, <2>2, <2>3, <2>4
  <2> QED BY <2>5 DEF KeptInv
<1> QED BY <1>3, <1>7, <1>8, <1>9, <1>10, <1>11, <1>12, <1>13 DEF IInv

\* apply_block starts.
LEMMA StartApplyInv ==
  ASSUME IInv, NEW old, StartApply(old)
  PROVE  IInv'
<1>1. PICK b : b = Head(task.todo)
  OBVIOUS
<1>2. /\ task.todo # <<>> /\ building = NoBuilding
      /\ building' = [at |-> "apply", block |-> b, left |-> body[b], done |-> {}, time |-> Num(b)]
      /\ tracked' = R!rollback_to(tracked, Num(head) + 1)
      /\ status' = S!AppliedInBlock(S!signal_block_start(status), {}, b, old)
      /\ UNCHANGED <<producer, head, lib, valid, removed, body, task, queue, answer, kept>>
  BY <1>1 DEF StartApply, chain
<1>3. head \in Known /\ body \in [Known -> SUBSET Trx]
  BY DEF IInv, ChainOk
<1>4. NextBlock(head, b) /\ OnBranch(b) \cap Own \subseteq valid
  BY <1>1, <1>2, <1>3, TaskHead DEF IInv
<1>5. b \in Known /\ Num(b) \in Nat
  BY <1>3, <1>4, NextIs
<1>6. /\ building'.at = "apply" /\ building'.block = b /\ building'.left = body[b]
      /\ building'.done = {} /\ building'.time = Num(b)
  BY <1>2
<1>7. Executed(body, building') = {}
  BY <1>6 DEF Executed
<1>8. BuildOk(body', head', task', building', producer')
  <2>1. building' \in [at : {"none", "apply", "speculative", "producing"}, block : Known \cup {NoBlock},
                       left : SUBSET Trx, done : SUBSET Trx, time : Nat]
    BY <1>2, <1>3, <1>5
  <2> QED BY <1>1, <1>2, <1>6, <1>7, <2>1 DEF BuildOk
<1>9. TrackedOk(body', head', building', producer', tracked')
  BY <1>2, <1>3, <1>7, TrackedRollback DEF IInv
<1>10. StatusOk(body', head', valid', building', status')
  BY <1>2, <1>3, <1>4, <1>6, StatusStartApply DEF IInv
<1>11. KeptInv'
  BY <1>2, <1>6 DEF IInv, KeptInv, NoBuilding
<1> QED BY <1>2, <1>8, <1>9, <1>10, <1>11 DEF IInv

\* apply_block executes a transaction of the block.
LEMMA ApplyTrxInv ==
  ASSUME IInv, NEW t \in Trx, NEW old, ApplyTrx(t, old)
  PROVE  IInv'
<1>1. PICK b : b = building.block
  OBVIOUS
<1>2. /\ building.at = "apply" /\ t \in building.left
      /\ building.time <= Expiration[t] /\ t \notin In(body, head)
      /\ building' = [building EXCEPT !.left = @ \ {t}]
      /\ tracked' = R!InBlock(tracked, t, Num(b))
      /\ status' = S!AppliedInBlock(status, {t}, b, old)
      /\ UNCHANGED <<producer, head, lib, valid, removed, body, task, queue, answer, kept>>
  BY <1>1, IncludedIs DEF ApplyTrx, CanExecute, chain
<1>3. head \in Known /\ BuildOk(body, head, task, building, producer)
  BY DEF IInv, ChainOk
<1>4. building \in [at : {"none", "apply", "speculative", "producing"}, block : Known \cup {NoBlock},
                    left : SUBSET Trx, done : SUBSET Trx, time : Nat]
  BY <1>3 DEF BuildOk
<1>5. /\ building' \in [at : {"none", "apply", "speculative", "producing"}, block : Known \cup {NoBlock},
                        left : SUBSET Trx, done : SUBSET Trx, time : Nat]
      /\ building'.at = building.at /\ building'.block = building.block /\ building'.left = building.left \ {t}
      /\ building'.done = building.done /\ building'.time = building.time
  BY <1>2, <1>4
<1>6. /\ task.todo # <<>> /\ b = Head(task.todo) /\ building.done = {} /\ building.time = Num(b)
      /\ building.left \subseteq body[b]
      /\ \A u \in Executed(body, building) : building.time <= Expiration[u] /\ u \notin In(body, head)
  BY <1>1, <1>2, <1>3 DEF BuildOk
<1>7. NextBlock(head, b)
  BY <1>3, <1>6, TaskHead DEF IInv
<1>8. \A u : u \in Executed(body, building') => u = t \/ u \in Executed(body, building)
  BY <1>5 DEF Executed
<1>9. BuildOk(body', head', task', building', producer')
  <2>1. building'.at = "apply" /\ building'.left \subseteq body[b]
    BY <1>2, <1>5, <1>6
  <2>2. \A u \in Executed(body, building') : building.time <= Expiration[u] /\ u \notin In(body, head)
    BY <1>2, <1>6, <1>8
  <2> QED BY <1>1, <1>2, <1>5, <1>6, <2>1, <2>2 DEF BuildOk
<1>10. t \in body[b]
  BY <1>2, <1>6
<1>11. TrackedOk(body', head', building', producer', tracked')
  BY <1>1, <1>2, <1>3, <1>5, <1>7, <1>10, TrackedInBlock DEF IInv
<1>12. StatusOk(body', head', valid', building', status')
  BY <1>1, <1>2, <1>3, <1>5, <1>7, <1>10, StatusApplyTrx DEF IInv
<1>13. KeptInv'
  BY <1>2, <1>5 DEF IInv, KeptInv
<1> QED BY <1>2, <1>9, <1>11, <1>12, <1>13 DEF IInv

\* The next block of the task is the head: what is left of the task goes on from there.
LEMMA TaskNext ==
  ASSUME NEW bd, NEW h, NEW v, NEW b, NEW w,
         h \in Known, TaskOk(h, v, task), task.todo # <<>>, b = Head(task.todo),
         v \subseteq w, ChainOk(bd, b, w)
  PROVE  TaskOk(b, w, Remaining(Tail(task.todo)))
<1>1. PICK rest : rest = Tail(task.todo)
  OBVIOUS
<1>2. NextBlock(h, b) /\ Run(v, rest, b)
  BY <1>1, TaskHead
<1>3. CASE rest = <<>>
  BY <1>1, <1>3, TaskDone DEF Remaining
<1>4. CASE rest # <<>>
  <2>1. PICK tk : tk = [task EXCEPT !.todo = rest]
    OBVIOUS
  <2>2. tk = [todo |-> rest, old |-> task.old, fork |-> task.fork]
    BY <2>1 DEF TaskOk
  <2>3. tk.todo = rest /\ tk.old = task.old /\ tk.fork = task.fork
    BY <2>2
  <2>4. Run(w, rest, b) /\ Run(w, task.old, task.fork)
    BY <1>2, RunGrows DEF TaskOk
  <2>5. task.fork \in Upto(b)
    BY <1>2, UptoNext DEF TaskOk
  <2>6. TaskOk(b, w, tk)
    BY <2>2, <2>3, <2>4, <2>5 DEF TaskOk
  <2> QED BY <1>1, <1>4, <2>1, <2>6 DEF Remaining
<1> QED BY <1>3, <1>4

\* commit_block of a block that was received.
LEMMA CommitAppliedInv ==
  ASSUME IInv, CommitApplied
  PROVE  IInv'
<1>1. PICK b, acked : b = building.block /\ acked = R!ReadyByNum(tracked, Num(b))
  OBVIOUS
<1>2. /\ building.at = "apply" /\ building.left = {}
      /\ head' = b /\ valid' = valid \cup {b}
      /\ queue' = clear_applied(queue, body[b])
      /\ tracked' = R!Untrack(tracked, acked)
      /\ answer' = Answered(acked, {})
      /\ status' = S!signal_accepted_block(status, b, {}, {})
      /\ building' = NoBuilding
      /\ task' = Remaining(Tail(task.todo))
      /\ UNCHANGED <<producer, lib, removed, body, kept>>
  BY <1>1 DEF CommitApplied, Accepted
<1>3. head \in Known /\ BuildOk(body, head, task, building, producer)
  BY DEF IInv, ChainOk
<1>4. /\ task.todo # <<>> /\ b = Head(task.todo) /\ building.done = {}
      /\ \A u \in body[b] : Num(b) <= Expiration[u] /\ u \notin In(body, head)
  BY <1>1, <1>2, <1>3 DEF BuildOk, Executed
<1>5. NextBlock(head, b)
  BY <1>3, <1>4, TaskHead DEF IInv
<1>6. ChainOk(body', head', valid')
  BY <1>2, <1>4, <1>5, ChainChild DEF IInv
<1>7. lib' \in Upto(head')
  BY <1>2, <1>3, <1>5, UptoNext DEF IInv
<1>8. valid \subseteq valid' /\ ChainOk(body, b, valid')
  BY <1>2, <1>6
<1>9. TaskOk(head', valid', task')
  BY <1>2, <1>3, <1>4, <1>8, TaskNext DEF IInv
<1>10. BuildOk(body', head', task', building', producer') /\ building'.at = "none" /\ building'.done = {}
  BY <1>2, BuildNone
<1>11. TrackedOk(body', head', building', producer', tracked')
  <2>1. TrackedOk(body, b, NoBuilding, producer, tracked)
    BY <1>1, <1>2, <1>3, <1>5, <1>10, TrackedCommit DEF IInv
  <2> QED BY <1>2, <2>1, TrackedUntrack
<1>12. StatusOk(body', head', valid', building', status')
  BY <1>1, <1>2, <1>3, <1>5, <1>8, <1>10, StatusCommit DEF IInv
<1>13. KeptInv'
  <2>1. \A t : t \in In(body, b) <=> t \in In(body, head) \/ t \in body[b]
    BY <1>3, <1>5, InChild
  <2>2. \A t : t \in DOMAIN queue' <=> t \in DOMAIN queue /\ t \notin body[b]
    BY <1>2, QueueIs DEF clear_applied
  <2>3. \A t \in kept : t \in In(body, head) \/ t \in DOMAIN queue
    BY <1>4 DEF IInv, KeptInv
  <2>4. \A t \in kept' : t \in In(body', head') \/ t \in DOMAIN queue'
    BY <1>2, <2>1, <2>2, <2>3
  <2> QED BY <2>4 DEF KeptInv
<1>14. answer' \in [Trx -> {"none", "in_block", "expired"}]
  BY <1>2, AnsweredIs DEF IInv
<1> QED BY <1>2, <1>6, <1>7, <1>9, <1>10, <1>11, <1>12, <1>13, <1>14 DEF IInv

\* The head goes back to the fork or to the irreversible block.
LEMMA FailsInv ==
  ASSUME IInv, NEW b, Fails(b), building.done = {}
  PROVE  \E back \in Upto(head) :
           /\ head' = back /\ UNCHANGED <<producer, lib, valid, body, queue, answer>>
           /\ ChainOk(body, back, valid) /\ lib \in Upto(back) /\ TaskOk(back, valid, task')
           /\ building' = NoBuilding /\ KeptInv'
<1>1. PICK back : back = IF Num(lib) > Num(task.fork) THEN lib ELSE task.fork
  OBVIOUS
<1>2. /\ head' = back
      /\ kept' = kept \ BodiesOf(From(back, head))
      /\ task' = IF back = task.fork /\ task.old # <<>>
                 THEN [todo |-> task.old, old |-> <<>>, fork |-> back] ELSE Done
      /\ building' = NoBuilding
      /\ UNCHANGED <<producer, lib, valid, body, queue, answer>>
  BY <1>1 DEF Fails
<1>3. head \in Known /\ lib \in Upto(head) /\ task.fork \in Upto(head)
  BY DEF IInv, ChainOk, TaskOk
<1>4. Num(lib) \in Nat /\ Num(task.fork) \in Nat
  BY <1>3, OnBranchUpto
<1>5. back \in Upto(head) /\ back \in Known
  BY <1>1, <1>3, OnBranchUpto
<1>6. ChainOk(body, back, valid)
  BY <1>5, ChainBack DEF IInv
<1>7. lib \in Upto(back)
  <2>1. Num(lib) <= Num(back)
    BY SMTT(60), ZenonT(60), <1>1, <1>4
  <2> QED BY <1>3, <1>5, <2>1, UptoUpto
<1>8. TaskOk(back, valid, task')
  <2>1. CASE back = task.fork /\ task.old # <<>>
    <3>1. Run(valid, task.old, back)
      BY <2>1 DEF IInv, TaskOk
    <3>2. Run(valid, <<>>, back)
      BY <1>5, <1>6, RunNothing DEF ChainOk
    <3>3. task' = [todo |-> task.old, old |-> <<>>, fork |-> back]
      BY <1>2, <2>1
    <3>4. task'.todo = task.old /\ task'.old = <<>> /\ task'.fork = back
      BY <3>3
    <3> QED BY <1>5, <3>1, <3>2, <3>3, <3>4, UptoSelf DEF TaskOk
  <2>2. CASE ~ (back = task.fork /\ task.old # <<>>)
    BY <1>2, <1>6, <2>2, TaskDone
  <2> QED BY <2>1, <2>2
<1>9. KeptInv'
  <2>1. \A t : t \in In(body, head) => t \in In(body, back) \/ t \in BodiesOf(From(back, head))
    BY <1>3, <1>5, BodiesFrom, IncludedIs
  <2>2. \A t \in kept : t \in In(body, head) \/ t \in DOMAIN queue
    BY DEF IInv, KeptInv
  <2>3. \A t \in kept' : t \in kept /\ t \notin BodiesOf(From(back, head))
    BY <1>2
  <2>4. \A t \in kept' : t \in In(body', head') \/ t \in DOMAIN queue'
    BY <1>2, <2>1, <2>2, <2>3
  <2> QED BY <2>4 DEF KeptInv
<1> QED BY <1>2, <1>5, <1>6, <1>7, <1>8, <1>9

\* The block fails while its transactions are executed.
LEMMA FailApplyInv ==
  ASSUME IInv, FailApply
  PROVE  IInv'
<1>1. building.at = "apply" /\ Fails(building.block) /\ tracked' = tracked /\ status' = status
  BY DEF FailApply
<1>2. building.done = {}
  BY <1>1 DEF IInv, BuildOk
<1>3. PICK back \in Upto(head) :
        /\ head' = back /\ UNCHANGED <<producer, lib, valid, body, queue, answer>>
        /\ ChainOk(body, back, valid) /\ lib \in Upto(back) /\ TaskOk(back, valid, task')
        /\ building' = NoBuilding /\ KeptInv'
  BY <1>1, <1>2, FailsInv
<1>4. BuildOk(body', head', task', building', producer') /\ building'.at = "none"
  BY <1>3, BuildNone
<1>5. TrackedOk(body', head', building', producer', tracked')
  BY <1>1, <1>3, <1>4, TrackedBack DEF IInv
<1>6. StatusOk(body', head', valid', building', status')
  BY <1>1, <1>3, <1>4, StatusBack DEF IInv
<1> QED BY <1>3, <1>4, <1>5, <1>6 DEF IInv

\* The block fails before its first transaction.
LEMMA FailStartInv ==
  ASSUME IInv, FailStart
  PROVE  IInv'
<1>1. /\ building = NoBuilding /\ Fails(Head(task.todo))
      /\ tracked' = R!rollback_to(tracked, Num(head) + 1)
      /\ status' = S!signal_block_start(status)
  BY DEF FailStart
<1>2. building.done = {} /\ building.at = "none" /\ head \in Known
  BY <1>1, BuildNone DEF IInv, ChainOk
<1>3. PICK back \in Upto(head) :
        /\ head' = back /\ UNCHANGED <<producer, lib, valid, body, queue, answer>>
        /\ ChainOk(body, back, valid) /\ lib \in Upto(back) /\ TaskOk(back, valid, task')
        /\ building' = NoBuilding /\ KeptInv'
  BY <1>1, <1>2, FailsInv
<1>4. BuildOk(body', head', task', building', producer') /\ building'.at = "none"
  BY <1>3, BuildNone
<1>5. TrackedOk(body', head', building', producer', tracked')
  <2>1. TrackedOk(body, head, building', producer, tracked')
    BY <1>1, <1>2, <1>4, TrackedRollback DEF IInv
  <2> QED BY <1>3, <1>4, <2>1, TrackedBack DEF IInv
<1>6. StatusOk(body', head', valid', building', status')
  <2>1. StatusOk(body, head, valid, building', status')
    BY <1>1, <1>2, <1>4, StatusStart DEF IInv
  <2> QED BY <1>3, <1>4, <2>1, StatusBack DEF IInv
<1> QED BY <1>3, <1>4, <1>5, <1>6 DEF IInv

\* log_irreversible moves on along the chain.
LEMMA LogIrreversibleInv ==
  ASSUME IInv, LogIrreversible
  PROVE  IInv'
<1>1. PICK b, acked, expired :
        /\ b = Path[head][Num(lib) + 1] /\ acked = R!ReadyByLib(tracked, Num(b))
        /\ expired = {t \in DOMAIN tracked \ acked : Expiration[t] <= Num(b)}
  OBVIOUS
<1>2. /\ Num(lib) < Num(head) /\ lib' = b
      /\ tracked' = R!Untrack(tracked, acked \cup expired)
      /\ answer' = Answered(acked, expired)
      /\ UNCHANGED <<producer, head, valid, removed, body, task, building, queue, status, kept>>
  BY <1>1 DEF LogIrreversible
<1>3. Num(lib) \in Nat /\ Num(head) \in Nat
  BY OnBranchUpto DEF IInv, ChainOk
<1>4. lib' \in Upto(head')
  <2>1. Num(lib) + 1 \in 1 .. Num(head)
    BY SMTT(60), ZenonT(60), <1>2, <1>3
  <2> QED BY <1>1, <1>2, <2>1 DEF Upto, OnBranch
<1>5. TrackedOk(body', head', building', producer', tracked')
  <2>1. PICK trxs : trxs = acked \cup expired
    OBVIOUS
  <2>2. tracked' = R!Untrack(tracked, trxs)
    BY <1>2, <2>1
  <2> QED BY <1>2, <2>2, TrackedUntrack DEF IInv
<1>6. answer' \in [Trx -> {"none", "in_block", "expired"}]
  BY <1>2, AnsweredIs DEF IInv
<1> QED BY <1>2, <1>4, <1>5, <1>6 DEF IInv, KeptInv

\* producer_plugin starts a block.
LEMMA StartBlockInv ==
  ASSUME IInv, NEW mode \in {"speculative", "producing"}, NEW time \in Num(head) + 1 .. MaxTime,
         NEW expired, StartBlock(mode, time, expired)
  PROVE  IInv'
<1>1. PICK q : q = add_aborted(queue, Aborted)
  OBVIOUS
<1>2. /\ task = Done /\ building.at # "apply" /\ (mode = "producing" => producer)
      /\ building' = [at |-> mode, block |-> NoBlock, left |-> {}, done |-> {}, time |-> time]
      /\ queue' = clear_expired(q, expired)
      /\ kept' = kept \ expired
      /\ tracked' = R!rollback_to(tracked, Num(head) + 1)
      /\ status' = S!signal_block_start(status)
      /\ UNCHANGED <<producer, head, lib, valid, removed, body, task, answer>>
  BY <1>1 DEF StartBlock, Idle, chain
<1>3. head \in Known /\ Num(head) \in Nat
  BY NumType DEF IInv, ChainOk
<1>4. time \in Nat /\ Num(head) < time
  BY SMTT(60), ZenonT(60), <1>3, TrxAssumption
<1>5. building'.at = mode /\ building'.done = {} /\ building'.time = time
  BY <1>2
<1>6. building'.at # "apply" /\ building'.at # "none"
  BY <1>5
<1>7. BuildOk(body', head', task', building', producer')
  <2>1. building' \in [at : {"none", "apply", "speculative", "producing"}, block : Known \cup {NoBlock},
                       left : SUBSET Trx, done : SUBSET Trx, time : Nat]
    BY <1>2, <1>4
  <2> QED BY <1>2, <1>4, <1>5, <1>6, <2>1 DEF BuildOk
<1>8. TrackedOk(body', head', building', producer', tracked')
  BY <1>2, <1>3, <1>6, TrackedRollback DEF IInv
<1>9. StatusOk(body', head', valid', building', status')
  BY <1>2, <1>5, <1>6, StatusStart DEF IInv
<1>10. KeptInv'
  <2>1. Aborted = building.done
    BY <1>2, AbortedIs DEF IInv
  <2>2. \A t : t \in DOMAIN q <=> t \in DOMAIN queue \/ t \in Aborted
    BY <1>1, QueueIs DEF add_aborted
  <2>3. \A t : t \in DOMAIN queue' <=> t \in DOMAIN q /\ t \notin expired
    BY <1>2, QueueIs DEF clear_expired
  <2>4. \A t \in kept : t \in In(body, head) \/ t \in building.done \/ t \in DOMAIN queue
    BY DEF IInv, KeptInv
  <2>5. \A t \in kept' : t \in In(body', head') \/ t \in DOMAIN queue'
    BY <1>2, <2>1, <2>2, <2>3, <2>4
  <2> QED BY <2>5 DEF KeptInv
<1> QED BY <1>2, <1>7, <1>8, <1>9, <1>10 DEF IInv

\* A transaction is executed in the pending block.
LEMMA ExecuteInv ==
  ASSUME IInv, building.at \in {"speculative", "producing"}, NEW t \in Trx, CanExecute(t),
         NEW old, Execute(t, old), UNCHANGED <<chain, body, task>>
  PROVE  /\ BuildOk(body', head', task', building', producer')
         /\ StatusOk(body', head', valid', building', status')
         /\ building'.at = building.at /\ building'.done = building.done \cup {t} /\ kept' = kept \cup {t}
         /\ t \notin In(body, head)
<1>1. /\ building' = [building EXCEPT !.done = @ \cup {t}]
      /\ status' = S!AppliedSpeculatively(status, t, old)
      /\ kept' = kept \cup {t}
      /\ UNCHANGED <<producer, head, lib, valid, removed, body, task>>
  BY DEF Execute, chain
<1>2. building.time <= Expiration[t] /\ t \notin In(body, head)
  BY IncludedIs DEF CanExecute
<1>3. head \in Known /\ BuildOk(body, head, task, building, producer)
  BY DEF IInv, ChainOk
<1>4. building \in [at : {"none", "apply", "speculative", "producing"}, block : Known \cup {NoBlock},
                    left : SUBSET Trx, done : SUBSET Trx, time : Nat]
  BY <1>3 DEF BuildOk
<1>5. /\ building' \in [at : {"none", "apply", "speculative", "producing"}, block : Known \cup {NoBlock},
                        left : SUBSET Trx, done : SUBSET Trx, time : Nat]
      /\ building'.at = building.at /\ building'.done = building.done \cup {t}
      /\ building'.time = building.time
  BY <1>1, <1>4
<1>6. /\ task = Done /\ Num(head) < building.time
      /\ \A u \in building.done : building.time <= Expiration[u] /\ u \notin In(body, head)
      /\ building.at = "producing" => producer
      /\ building.at # "none" /\ building.at # "apply"
  BY <1>3 DEF BuildOk
<1>7. \A u \in building'.done : building.time <= Expiration[u] /\ u \notin In(body, head)
  BY <1>2, <1>5, <1>6
<1>8. BuildOk(body', head', task', building', producer')
  BY <1>1, <1>5, <1>6, <1>7 DEF BuildOk
<1>9. StatusOk(body', head', valid', building', status')
  BY SMTT(60), ZenonT(60), <1>1, <1>2, <1>3, <1>5, StatusExecute DEF IInv
<1> QED BY <1>1, <1>2, <1>5, <1>8, <1>9

\* A sender begins to wait for a transaction, or does not.
LEMMA TrackInv ==
  ASSUME IInv, NEW t \in Trx, t \notin In(body, head), NEW num_blocks \in Waits, Track(t, num_blocks),
         UNCHANGED <<chain, body>>, building.at # "apply", building'.at # "apply"
  PROVE  /\ TrackedOk(body', head', building', producer', tracked')
         /\ answer' \in [Trx -> {"none", "in_block", "expired"}]
<1>0. UNCHANGED <<producer, head, body>>
  BY DEF chain
<1>1. TrackedOk(body, head, building', producer, tracked)
  BY TrackedBuilding DEF IInv
<1>2. CASE num_blocks = {} \/ t \in DOMAIN tracked
  BY <1>0, <1>1, <1>2 DEF Track, IInv
<1>3. CASE ~ (num_blocks = {} \/ t \in DOMAIN tracked)
  <2>1. PICK n \in num_blocks : /\ ~ producer
                                /\ tracked' = R!track_transaction(tracked, t, n)
                                /\ answer' = [answer EXCEPT ![t] = "none"]
    BY <1>3 DEF Track
  <2>2. n \in NumBlocks
    BY <2>1 DEF Waits
  <2>3. TrackedOk(body', head', building', producer', tracked')
    BY <1>0, <1>1, <1>3, <2>1, <2>2, TrackedTrack
  <2>4. answer' \in [Trx -> {"none", "in_block", "expired"}]
    BY <2>1 DEF IInv
  <2> QED BY <2>3, <2>4
<1> QED BY <1>2, <1>3

\* A queued transaction is executed, or dropped.
LEMMA ProcessQueuedInv ==
  ASSUME IInv, NEW t \in Trx, NEW old, NEW num_blocks \in Waits, ProcessQueued(t, old, num_blocks)
  PROVE  IInv'
<1>1. /\ building.at \in {"speculative", "producing"}
      /\ queue' = Erase(queue, {t})
      /\ UNCHANGED <<chain, body, task>> /\ UNCHANGED <<producer, head, lib, valid, removed>>
  BY DEF ProcessQueued, chain
<1>2. \A u : u \in DOMAIN queue' <=> u \in DOMAIN queue /\ u # t
  BY <1>1, QueueIs
<1>3. \A u \in kept : u \in In(body, head) \/ u \in building.done \/ u \in DOMAIN queue
  BY DEF IInv, KeptInv
<1>4. CASE CanExecute(t) /\ Execute(t, old) /\ Track(t, num_blocks)
  <2>1. /\ BuildOk(body', head', task', building', producer')
        /\ StatusOk(body', head', valid', building', status')
        /\ building'.at = building.at /\ building'.done = building.done \cup {t} /\ kept' = kept \cup {t}
        /\ t \notin In(body, head)
    BY <1>1, <1>4, ExecuteInv
  <2>2. /\ TrackedOk(body', head', building', producer', tracked')
        /\ answer' \in [Trx -> {"none", "in_block", "expired"}]
    BY <1>1, <1>4, <2>1, TrackInv
  <2>3. \A u \in kept' : u \in In(body', head') \/ u \in building'.done \/ u \in DOMAIN queue'
    BY <1>1, <1>2, <1>3, <2>1
  <2>4. KeptInv'
    BY <2>3 DEF KeptInv
  <2> QED BY <1>1, <2>1, <2>2, <2>4 DEF IInv
<1>5. CASE kept' = kept \ ({t} \ building.done) /\ UNCHANGED <<building, status, tracked, answer>>
  <2>1. \A u \in kept' : u \in In(body', head') \/ u \in building'.done \/ u \in DOMAIN queue'
    BY <1>1, <1>2, <1>3, <1>5
  <2>2. KeptInv'
    BY <2>1 DEF KeptInv
  <2> QED BY <1>1, <1>5, <2>2 DEF IInv
<1> QED BY <1>4, <1>5 DEF ProcessQueued

\* A transaction arrives: it is queued, or executed.
LEMMA IncomingInv ==
  ASSUME IInv, NEW t \in Trx, NEW old, NEW num_blocks \in Waits, Incoming(t, old, num_blocks)
  PROVE  IInv'
<1>1. building.at # "apply" /\ UNCHANGED <<chain, body, task>> /\ UNCHANGED <<producer, head, lib, valid, removed>>
  BY DEF Incoming, Idle, chain
<1>2. \A u \in kept : u \in In(body, head) \/ u \in building.done \/ u \in DOMAIN queue
  BY DEF IInv, KeptInv
<1>3. CASE Enqueue(t)
  <2>1. queue' = add_incoming(queue, t) /\ UNCHANGED <<building, status, kept, tracked, answer>>
    BY <1>3 DEF Enqueue
  <2>2. \A u : u \in DOMAIN queue => u \in DOMAIN queue'
    BY <2>1, QueueIs DEF add_incoming
  <2>3. \A u \in kept' : u \in In(body', head') \/ u \in building'.done \/ u \in DOMAIN queue'
    BY <1>1, <1>2, <2>1, <2>2
  <2>4. KeptInv'
    BY <2>3 DEF KeptInv
  <2> QED BY <1>1, <2>1, <2>4 DEF IInv
<1>4. CASE building # NoBuilding /\ CanExecute(t) /\ Execute(t, old) /\ Track(t, num_blocks) /\ UNCHANGED queue
  <2>0. building.at \in {"speculative", "producing"}
    BY <1>1, <1>4 DEF IInv, BuildOk
  <2>1. /\ BuildOk(body', head', task', building', producer')
        /\ StatusOk(body', head', valid', building', status')
        /\ building'.at = building.at /\ building'.done = building.done \cup {t} /\ kept' = kept \cup {t}
        /\ t \notin In(body, head)
    BY <1>1, <1>4, <2>0, ExecuteInv
  <2>2. /\ TrackedOk(body', head', building', producer', tracked')
        /\ answer' \in [Trx -> {"none", "in_block", "expired"}]
    BY <1>1, <1>4, <2>1, TrackInv
  <2>3. \A u \in kept' : u \in In(body', head') \/ u \in building'.done \/ u \in DOMAIN queue'
    BY <1>1, <1>2, <1>4, <2>1
  <2>4. KeptInv'
    BY <2>3 DEF KeptInv
  <2> QED BY <1>1, <2>1, <2>2, <2>4 DEF IInv
<1> QED BY <1>3, <1>4 DEF Incoming

\* The block that is produced is the next one of the chain.
LEMMA ProducedNext ==
  ASSUME NEW b, NEW h, b \in Block, h \in Known, Path[b] = Append(Path[h], b)
  PROVE  NextBlock(h, b)
<1>1. Path[h] \in Seq(Block) /\ Num(h) = Len(Path[h]) /\ Num(b) = Len(Path[b]) /\ Num(h) \in Nat
  BY PathAssumption, NumType DEF Known, Num
<1>2. Num(b) = Num(h) + 1 /\ \A i \in 1 .. Num(h) : Path[b][i] = Path[h][i]
  BY SMTT(60), ZenonT(60), <1>1
<1>3. h \in Upto(b)
  <2>1. CASE h = Genesis
    BY <2>1 DEF Upto
  <2>2. CASE h \in Block
    <3>1. Num(h) > 0 /\ Path[h][Num(h)] = h
      BY <2>2, NumType, PathAssumption DEF Num
    <3>2. Path[b][Num(h)] = h /\ Num(h) \in 1 .. Num(b)
      BY SMTT(60), ZenonT(60), <1>1, <1>2, <3>1
    <3> QED BY <3>2 DEF Upto, OnBranch
  <2> QED BY <2>1, <2>2 DEF Known
<1> QED BY <1>2, <1>3 DEF NextBlock

\* Nothing is tracked.
LEMMA TrackedNothing ==
  ASSUME NEW bd, NEW h, NEW bl, NEW p, NEW tr, NEW trxs, NEW bd2, NEW b, NEW bl2,
         TrackedOk(bd, h, bl, p, tr), DOMAIN tr = {}
  PROVE  TrackedOk(bd2, b, bl2, p, R!Untrack(tr, trxs))
<1>1. PICK nw : nw = R!Untrack(tr, trxs)
  OBVIOUS
<1>2. DOMAIN nw = {} /\ nw = [t \in DOMAIN nw |-> nw[t]]
  BY <1>1 DEF R!Untrack
<1> QED BY <1>1, <1>2 DEF TrackedOk, IsMap

\* produce_block
LEMMA ProduceInv ==
  ASSUME IInv, NEW b \in Own, NEW old, NEW until \in SUBSET ((status.speculative \cap Stored) \ old),
         Produce(b, old, until)
  PROVE  IInv'
<1>1. PICK acked, done : acked = R!ReadyByNum(tracked, Num(b)) /\ done = building.done
  OBVIOUS
<1>2. /\ building.at = "producing" /\ b \in Own \ valid /\ Path[b] = Append(Path[head], b)
      /\ body' = [body EXCEPT ![b] = done]
      /\ head' = b /\ valid' = valid \cup {b}
      /\ queue' = clear_applied(queue, done)
      /\ tracked' = R!Untrack(tracked, acked)
      /\ answer' = Answered(acked, {})
      /\ status' = S!signal_accepted_block(status, b, old, until)
      /\ building' = NoBuilding
      /\ UNCHANGED <<producer, lib, removed, task, kept>>
  BY <1>1 DEF Produce, Accepted
<1>3. /\ head \in Known /\ BuildOk(body, head, task, building, producer)
      /\ ChainOk(body, head, valid) /\ b \in Block /\ b \in Block \ valid
  BY <1>2, PathAssumption DEF IInv, ChainOk
<1>4. /\ task = Done /\ producer /\ done \in SUBSET Trx /\ Num(head) < building.time /\ building.time \in Nat
      /\ \A t \in done : building.time <= Expiration[t] /\ t \notin In(body, head)
  BY <1>1, <1>2, <1>3 DEF BuildOk
<1>5. NextBlock(head, b) /\ Num(b) = Num(head) + 1 /\ Num(head) \in Nat
  BY <1>2, <1>3, ProducedNext, NumType DEF NextBlock
<1>6. /\ ChainOk(body', head, valid) /\ body'[b] = done
      /\ \A c \in Known : c # b => body'[c] = body[c]
      /\ \A t : t \in In(body', head) <=> t \in In(body, head)
  <2>1. b \in Known /\ body \in [Known -> SUBSET Trx]
    BY <1>3 DEF ChainOk, Known
  <2>2. /\ body' \in [Known -> SUBSET Trx] /\ body'[b] = done
        /\ \A c \in Known : c # b => body'[c] = body[c]
    BY <1>2, <1>4, <2>1
  <2>3. b \notin valid
    BY <1>2
  <2> QED BY <1>3, <2>2, <2>3, ChainBody
<1>7. ChainOk(body', head', valid')
  <2>1. \A t \in body'[b] : Num(b) <= Expiration[t] /\ t \notin In(body', head)
    <3>1. \A t \in done : Expiration[t] \in Nat
      BY <1>4, TrxAssumption
    <3> QED BY SMTT(60), ZenonT(60), <1>4, <1>5, <1>6, <3>1
  <2> QED BY <1>2, <1>5, <1>6, <2>1, ChainChild
<1>8. lib' \in Upto(head')
  BY <1>2, <1>3, <1>5, UptoNext DEF IInv
<1>9. TaskOk(head', valid', task')
  BY <1>2, <1>4, <1>7, TaskDone
<1>10. BuildOk(body', head', task', building', producer') /\ building'.at = "none" /\ building'.done = {}
  BY <1>2, BuildNone
<1>11. TrackedOk(body', head', building', producer', tracked')
  <2>1. TrackedOk(body, head, building, producer, tracked) /\ DOMAIN tracked = {}
    BY <1>4 DEF IInv, TrackedOk
  <2> QED BY <1>2, <2>1, TrackedNothing
<1>12. StatusOk(body', head', valid', building', status')
  <2>1. StatusOk(body, head, valid, building, status) /\ until \subseteq status.speculative
    BY DEF IInv
  <2>2. body'[b] = building.done /\ building.done \in SUBSET Trx /\ \A t \in building.done : t \notin In(body, head)
    BY <1>1, <1>4, <1>6
  <2> QED BY <1>2, <1>3, <1>5, <1>6, <1>10, <2>1, <2>2, StatusProduce
<1>13. KeptInv'
  <2>1. \A t : t \in In(body', b) <=> t \in In(body', head) \/ t \in body'[b]
    BY <1>3, <1>5, InChild
  <2>2. \A t : t \in DOMAIN queue' <=> t \in DOMAIN queue /\ t \notin done
    BY <1>2, QueueIs DEF clear_applied
  <2>3. \A t \in kept : t \in In(body, head) \/ t \in done \/ t \in DOMAIN queue
    BY <1>1 DEF IInv, KeptInv
  <2>4. \A t \in kept' : t \in In(body', head') \/ t \in DOMAIN queue'
    BY <1>2, <1>6, <2>1, <2>2, <2>3
  <2> QED BY <2>4 DEF KeptInv
<1>14. answer' \in [Trx -> {"none", "in_block", "expired"}]
  BY <1>2, AnsweredIs DEF IInv
<1> QED BY <1>2, <1>7, <1>8, <1>9, <1>10, <1>11, <1>12, <1>13, <1>14 DEF IInv

\* Every step keeps the invariant.
LEMMA NextInv == IInv /\ [Next]_vars => IInv'
<1> SUFFICES ASSUME IInv, [Next]_vars PROVE IInv'
  OBVIOUS
<1>1. CASE UNCHANGED vars
  BY <1>1 DEF vars, chain, IInv, KeptInv
<1>2. ASSUME NEW b \in Block, SwitchForks(b) PROVE IInv'
  BY <1>2, SwitchForksInv
<1>3. CASE FailStart
  BY <1>3, FailStartInv
<1>4. CASE FailApply
  BY <1>4, FailApplyInv
<1>5. CASE CommitApplied
  BY <1>5, CommitAppliedInv
<1>6. CASE LogIrreversible
  BY <1>6, LogIrreversibleInv
<1>7. ASSUME NEW mode \in {"speculative", "producing"}, NEW time \in Num(head) + 1 .. MaxTime,
             NEW expired \in SUBSET Trx, StartBlock(mode, time, expired)
      PROVE  IInv'
  BY <1>7, StartBlockInv
<1>8. ASSUME NEW old \in SUBSET Stored, StartApply(old) PROVE IInv'
  BY <1>8, StartApplyInv
<1>9. ASSUME NEW old \in SUBSET Stored, NEW t \in Trx, ApplyTrx(t, old) PROVE IInv'
  BY <1>9, ApplyTrxInv
<1>10. ASSUME NEW old \in SUBSET Stored, NEW t \in Trx, NEW num_blocks \in Waits,
              ProcessQueued(t, old, num_blocks)
       PROVE  IInv'
  BY <1>10, ProcessQueuedInv
<1>11. ASSUME NEW old \in SUBSET Stored, NEW t \in Trx, NEW num_blocks \in Waits,
              Incoming(t, old, num_blocks)
       PROVE  IInv'
  BY <1>11, IncomingInv
<1>12. ASSUME NEW old \in SUBSET Stored, NEW b \in Own,
              NEW until \in SUBSET ((status.speculative \cap Stored) \ old), Produce(b, old, until)
       PROVE  IInv'
  BY <1>12, ProduceInv
<1> QED BY <1>1, <1>2, <1>3, <1>4, <1>5, <1>6, <1>7, <1>8, <1>9, <1>10, <1>11, <1>12 DEF Next

\* The invariant holds in every state.
LEMMA Invariance == Spec => []IInv
BY InitInv, NextInv, PTL DEF Spec

-------------------------------------------------------------------------------
(* What the invariant says.                                                  *)

\* A transaction that was executed here or forked out is in the chain, in the pending block
\* or in the queue (unapplied_transaction_queue), whatever branches the node switches between,
\* unless it was in a block that a failed switch popped (kept has no such transaction).
THEOREM NoTransactionIsLostTheorem == Spec => []NoTransactionIsLost
<1>1. IInv => NoTransactionIsLost
  BY IncludedIs DEF IInv, KeptInv, NoTransactionIsLost
<1> QED BY <1>1, Invariance, PTL

\* A tracked transaction (trx_retry_db) has the number of its block on the chain, or none
\* that counts.
THEOREM TrackedFollowsChainTheorem == Spec => []TrackedFollowsChain
<1>1. IInv => TrackedFollowsChain
  <2> SUFFICES ASSUME IInv, NEW t \in DOMAIN tracked
               PROVE  \/ \E b \in OnBranch(head) : t \in body[b] /\ tracked[t].block_num = Num(b)
                      \/ t \notin Included(head) /\ (tracked[t].block_num = 0 \/ tracked[t].block_num > Num(head))
    BY DEF TrackedFollowsChain
  <2>1. Placed(body, head, t, tracked[t].block_num)
    BY DEF IInv, TrackedOk
  <2> QED BY <2>1, IncludedIs DEF Placed
<1> QED BY <1>1, Invariance, PTL

\* The status of a transaction (trx_finality_status_processing) names the block of the chain
\* that it is in, and no other up to the head.
THEOREM StatusFollowsChainTheorem == Spec => []StatusFollowsChain
<1>1. IInv => StatusFollowsChain
  <2> SUFFICES ASSUME IInv, status.assertion = "held", NEW t \in Stored, NEW e, e = status.storage[t]
               PROVE  \/ S!is_in_block(e) /\ e.block \in OnBranch(head) /\ t \in body[e.block]
                      \/ t \notin Included(head) /\ (S!is_in_block(e) => Num(e.block) > Num(head))
    BY DEF StatusFollowsChain
  <2>1. EntryOk(body, head, building, status.head, t, e)
    BY DEF IInv, StatusOk, Stored
  <2> QED BY <2>1, IncludedIs DEF EntryOk
<1> QED BY <1>1, Invariance, PTL

-------------------------------------------------------------------------------
(* The answers to the senders.                                               *)

\* A step that answers nobody, or forgets an answer when a sender waits again.
LEMMA NoNewAnswer ==
  ASSUME NEW t \in Trx, answer'[t] \in {answer[t], "none"}
  PROVE  RightAnswer(t)
BY DEF RightAnswer

\* Senders begin to wait without an answer.
LEMMA TrackAnswers ==
  ASSUME IInv, NEW t \in Trx, NEW num_blocks, Track(t, num_blocks), NEW u \in Trx
  PROVE  answer'[u] \in {answer[u], "none"}
<1>1. answer' = answer \/ answer' = [answer EXCEPT ![t] = "none"]
  BY DEF Track
<1> QED BY <1>1 DEF IInv

\* A tracked transaction is in a block up to this number (ack_ready_trxs_by_block_num,
\* ack_ready_trxs_by_lib): it is in a block of the chain with its number.
LEMMA AckedIsPlaced ==
  ASSUME NEW bd, NEW h, NEW bl, NEW p, NEW tr, NEW t, NEW n,
         h \in Known, TrackedOk(bd, h, bl, p, tr), t \in DOMAIN tr, n = tr[t].block_num,
         n # 0, n <= Num(h)
  PROVE  \E b \in OnBranch(h) : t \in bd[b] /\ Num(b) = n
<1>1. n \in Nat /\ Num(h) \in Nat
  BY TrackedType, NumType DEF TrackedOk
<1>2. Placed(bd, h, t, n)
  BY DEF TrackedOk
<1>3. ~ (n = 0 \/ n > Num(h))
  BY SMTT(60), ZenonT(60), <1>1
<1> QED BY <1>2, <1>3 DEF Placed

\* The answers when a block that was received is accepted.
LEMMA CommitAnswers ==
  ASSUME IInv, CommitApplied, NEW t \in Trx
  PROVE  RightAnswer(t)
<1>1. PICK b, acked : b = building.block /\ acked = R!ReadyByNum(tracked, Num(b))
  OBVIOUS
<1>2. /\ building.at = "apply" /\ building.left = {}
      /\ head' = b /\ answer' = Answered(acked, {}) /\ building' = NoBuilding
  BY <1>1 DEF CommitApplied, Accepted
<1>3. head \in Known /\ building'.at # "apply" /\ task.todo # <<>> /\ b = Head(task.todo)
  BY <1>1, <1>2, BuildNone DEF IInv, ChainOk, BuildOk
<1>4. NextBlock(head, b)
  BY <1>3, TaskHead DEF IInv
<1>5. b \in Known /\ Num(b) \in Nat
  BY <1>3, <1>4, NextIs
<1>6. TrackedOk(body, b, building', producer, tracked)
  BY <1>1, <1>2, <1>3, <1>4, TrackedCommit DEF IInv
<1>7. CASE t \notin acked
  <2>1. answer'[t] = answer[t]
    BY <1>2, <1>7 DEF Answered
  <2> QED BY <2>1, NoNewAnswer
<1>8. CASE t \in acked
  <2>1. PICK n, m : n = tracked[t].block_num /\ m = tracked[t].num_blocks
    OBVIOUS
  <2>2. t \in DOMAIN tracked /\ n # 0 /\ m # lib_totem /\ n + m <= Num(b)
    BY <1>1, <1>8, <2>1 DEF R!ReadyByNum
  <2>3. n \in Nat /\ m \in NumBlocks
    BY <1>6, <2>1, <2>2, TrackedType DEF TrackedOk
  <2>4. m \in Nat
    BY <2>2, <2>3, TrxAssumption
  <2>5. n <= Num(b)
    BY SMTT(60), ZenonT(60), <1>5, <2>2, <2>3, <2>4
  <2>6. PICK c \in OnBranch(b) : t \in body[c] /\ Num(c) = n
    BY SMTT(60), ZenonT(60), <1>5, <1>6, <2>1, <2>2, <2>5, AckedIsPlaced
  <2>7. answer'[t] = "in_block"
    BY <1>2, <1>8 DEF Answered
  <2> QED BY <1>2, <2>1, <2>2, <2>6, <2>7 DEF RightAnswer
<1> QED BY <1>7, <1>8

\* Nobody waits on a producer.
LEMMA ProduceAnswers ==
  ASSUME IInv, NEW b, NEW old, NEW until, Produce(b, old, until), NEW t \in Trx
  PROVE  RightAnswer(t)
<1>1. PICK acked : acked = R!ReadyByNum(tracked, Num(b))
  OBVIOUS
<1>2. answer' = Answered(acked, {}) /\ building.at = "producing"
  BY <1>1 DEF Produce, Accepted
<1>3. DOMAIN tracked = {}
  BY <1>2 DEF IInv, BuildOk, TrackedOk
<1>4. t \notin acked
  BY <1>1, <1>3 DEF R!ReadyByNum
<1>5. answer'[t] = answer[t]
  BY <1>2, <1>4 DEF Answered
<1> QED BY <1>5, NoNewAnswer

\* The answers when a block becomes irreversible.
LEMMA IrreversibleAnswers ==
  ASSUME IInv, LogIrreversible, NEW t \in Trx
  PROVE  RightAnswer(t)
<1>1. PICK b, acked, expired :
        /\ b = Path[head][Num(lib) + 1] /\ acked = R!ReadyByLib(tracked, Num(b))
        /\ expired = {u \in DOMAIN tracked \ acked : Expiration[u] <= Num(b)}
  OBVIOUS
<1>2. lib' = b /\ head' = head /\ answer' = Answered(acked, expired)
  BY <1>1 DEF LogIrreversible
<1>3. head \in Known /\ ChainOk(body, head, valid)
  BY DEF IInv, ChainOk
<1>4. b \in Upto(head)
  BY <1>2, LogIrreversibleInv DEF IInv
<1>5. Num(b) \in Nat /\ Num(head) \in Nat /\ Num(b) <= Num(head)
  BY <1>3, <1>4, OnBranchUpto
<1>6. TrackedOk(body, head, building, producer, tracked)
  BY DEF IInv
<1>7. CASE t \in acked
  <2>1. PICK n : n = tracked[t].block_num
    OBVIOUS
  <2>2. t \in DOMAIN tracked /\ n # 0 /\ n <= Num(b)
    BY <1>1, <1>7, <2>1 DEF R!ReadyByLib
  <2>3. n \in Nat
    BY <1>6, <2>1, <2>2, TrackedType DEF TrackedOk
  <2>4. n <= Num(head)
    BY SMTT(60), ZenonT(60), <1>5, <2>2, <2>3
  <2>5. PICK c \in OnBranch(head) : t \in body[c] /\ Num(c) = n
    BY SMTT(60), ZenonT(60), <1>3, <1>6, <2>1, <2>2, <2>4, AckedIsPlaced
  <2>6. answer'[t] = "in_block"
    BY <1>2, <1>7 DEF Answered
  <2> QED BY <1>2, <2>2, <2>5, <2>6 DEF RightAnswer
<1>8. CASE t \in expired
  <2>1. t \in DOMAIN tracked /\ t \notin acked /\ Expiration[t] <= Num(b) /\ Expiration[t] \in Nat
    BY <1>1, <1>8, TrxAssumption
  <2>2. ASSUME t \in In(body, head) PROVE FALSE
    <3>1. PICK n : n = tracked[t].block_num
      OBVIOUS
    <3>2. PICK c \in OnBranch(head) : t \in body[c] /\ n = Num(c)
      BY <1>6, <2>1, <2>2, <3>1 DEF TrackedOk, Placed
    <3>3. Num(c) <= Expiration[t]
      BY <1>3, <3>2 DEF ChainOk, ValidBlock
    <3>4. Num(c) \in Nat /\ Num(c) > 0
      BY SMTT(60), ZenonT(60), <1>3, <3>2, OnBranchIs
    <3>5. n # 0 /\ n <= Num(b)
      BY SMTT(60), ZenonT(60), <1>5, <2>1, <3>2, <3>3, <3>4
    <3> QED BY <1>1, <2>1, <3>1, <3>5 DEF R!ReadyByLib
  <2>3. answer'[t] = "expired"
    BY <1>2, <2>1, <1>8 DEF Answered
  <2> QED BY <1>2, <2>2, <2>3, IncludedIs DEF RightAnswer
<1>9. CASE t \notin acked /\ t \notin expired
  <2>1. answer'[t] = answer[t]
    BY <1>2, <1>9 DEF Answered
  <2> QED BY <2>1, NoNewAnswer
<1> QED BY <1>7, <1>8, <1>9

\* What a sender is told (ack and expiry of trx_retry_db) is so: an acknowledged transaction
\* is in the chain, as deep as the sender asked for or irreversible; one that is reported as
\* expired is not in the chain.
THEOREM AnswersAreRightTheorem == Spec => AnswersAreRight
<1>1. IInv /\ [Next]_vars => [\A t \in Trx : RightAnswer(t)]_vars
  <2> SUFFICES ASSUME IInv, Next, NEW t \in Trx PROVE RightAnswer(t)
    OBVIOUS
  <2>0. UNCHANGED answer => RightAnswer(t)
    BY NoNewAnswer
  <2>1. ASSUME NEW b \in Block, SwitchForks(b) PROVE RightAnswer(t)
    BY <2>0, <2>1 DEF SwitchForks
  <2>2. CASE FailStart \/ FailApply
    BY <2>0, <2>2 DEF FailStart, FailApply, Fails
  <2>3. CASE CommitApplied
    BY <2>3, CommitAnswers
  <2>4. CASE LogIrreversible
    BY <2>4, IrreversibleAnswers
  <2>5. ASSUME NEW mode, NEW time, NEW expired, StartBlock(mode, time, expired) PROVE RightAnswer(t)
    BY <2>0, <2>5 DEF StartBlock
  <2>6. ASSUME NEW old, StartApply(old) PROVE RightAnswer(t)
    BY <2>0, <2>6 DEF StartApply
  <2>7. ASSUME NEW old, NEW u, ApplyTrx(u, old) PROVE RightAnswer(t)
    BY <2>0, <2>7 DEF ApplyTrx
  <2>8. ASSUME NEW u \in Trx, NEW num_blocks, Track(u, num_blocks) PROVE RightAnswer(t)
    BY <2>8, NoNewAnswer, TrackAnswers
  <2>9. ASSUME NEW old, NEW u \in Trx, NEW num_blocks, ProcessQueued(u, old, num_blocks) PROVE RightAnswer(t)
    BY <2>0, <2>8, <2>9 DEF ProcessQueued
  <2>10. ASSUME NEW old, NEW u \in Trx, NEW num_blocks, Incoming(u, old, num_blocks) PROVE RightAnswer(t)
    BY <2>0, <2>8, <2>10 DEF Incoming, Enqueue
  <2>11. ASSUME NEW old, NEW b, NEW until, Produce(b, old, until) PROVE RightAnswer(t)
    BY <2>11, ProduceAnswers
  <2> QED BY <2>1, <2>2, <2>3, <2>4, <2>5, <2>6, <2>7, <2>9, <2>10, <2>11 DEF Next
<1> QED BY <1>1, Invariance, PTL DEF Spec, AnswersAreRight
===============================================================================
