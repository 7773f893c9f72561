------------------------------ MODULE CoreLemmas ------------------------------
(***************************************************************************)
(* Lemmas about finality cores and the branches they summarise, for        *)
(* branches of any length.                                                 *)
(***************************************************************************)
EXTENDS Branch, SequenceTheorems, TLAPS

\* Most leaves are pure logic: Zenon is asked first, the SMT solver what it leaves open,
\* and Zenon once more when both ran out of time.
USE ZenonT(5), SMTT(60), ZenonT(60)

Link == [source_block_num : Nat, target_block_num : Nat, is_link_strong : BOOLEAN]
Ref  == [block_id : Id, timestamp : Nat]
Core == [links : Seq(Link), refs : Seq(Ref), genesis_timestamp : Nat]

(***************************************************************************)
(* The closed form of the listed invariants.  f is the source of the front *)
(* link, g the last final block, k the current block and t the block of    *)
(* the latest QC claim; links and refs are located by block number.        *)
(***************************************************************************)
LinksView(links, f, g, k, t) ==
  /\ links \in Seq(Link)
  /\ Len(links) = k - f + 1
  /\ \A n \in f..k : /\ links[n - f + 1].source_block_num = n
                     /\ links[n - f + 1].target_block_num \in g..n
  /\ \A m, n \in f..k : m <= n => links[m - f + 1].target_block_num <= links[n - f + 1].target_block_num
  /\ links[1].target_block_num = g
  /\ links[k - f + 1].target_block_num = t

RefsView(refs, g, k) ==
  /\ refs \in Seq(Ref)
  /\ Len(refs) = k - g
  /\ \A n \in g..(k - 1) : refs[n - g + 1].block_id.num = n
  /\ \A m, n \in g..(k - 1) : m < n => refs[m - g + 1].timestamp < refs[n - g + 1].timestamp

View(c, f, g, k, t) ==
  /\ c \in Core
  /\ f \in Nat /\ g \in Nat /\ k \in Nat /\ t \in Nat
  /\ g <= f /\ f <= t /\ t <= k
  /\ LinksView(c.links, f, g, k, t)
  /\ RefsView(c.refs, g, k)

Shape(c) == \E f, g, k, t : View(c, f, g, k, t)

-------------------------------------------------------------------------------
\* What next does to both of its vectors: drop the first k elements, append e.
DropAppend(s, k, e) == Append(SubSeq(s, k + 1, Len(s)), e)

Dropped(d, s, k, e) ==
  /\ Len(d) = Len(s) - k + 1
  /\ \A i \in 1..(Len(s) - k) : d[i] = s[k + i]
  /\ d[Len(s) - k + 1] = e

\* The vectors of a core: dropping k entries from the front and adding one at the end,
\* as finality_core::next does with links and refs.
LEMMA SliceAppend ==
  ASSUME NEW S, NEW s \in Seq(S), NEW k \in 0..Len(s), NEW e \in S,
         NEW d, d = DropAppend(s, k, e)
  PROVE  d \in Seq(S) /\ Dropped(d, s, k, e)
<1> DEFINE u == SubSeq(s, k + 1, Len(s))
<1>1. Len(s) \in Nat /\ \A i \in 1..Len(s) : s[i] \in S
  BY LenProperties, ElementOfSeq
<1>2. /\ u \in Seq(S)
      /\ Len(u) = Len(s) - k
      /\ \A i \in 1..(Len(s) - k) : u[i] = s[k + i]
  <2>1. /\ u \in Seq(S)
        /\ Len(u) = IF k + 1 <= Len(s) THEN Len(s) - (k + 1) + 1 ELSE 0
        /\ \A i \in 1..(Len(s) - (k + 1) + 1) : u[i] = s[(k + 1) + i - 1]
    BY <1>1, SubSeqProperties
  <2> QED BY <2>1, <1>1
<1> HIDE DEF u
<1>3. /\ Append(u, e) \in Seq(S)
      /\ Len(Append(u, e)) = Len(u) + 1
      /\ \A i \in 1..Len(u) : Append(u, e)[i] = u[i]
      /\ Append(u, e)[Len(u) + 1] = e
  BY <1>2, AppendProperties
<1>4. d = Append(u, e)
  BY DEF u, DropAppend
<1> QED BY <1>1, <1>2, <1>3, <1>4 DEF Dropped

\* The same for a vector whose elements stand for the numbers a..(b - 1), of
\* which those before aa are dropped.
Slid(d, s, a, b, aa, e) ==
  /\ Len(d) = (b + 1) - aa
  /\ \A n \in aa..(b - 1) : d[n - aa + 1] = s[n - a + 1]
  /\ d[b - aa + 1] = e

\* The same for a vector that is indexed by block numbers: it now starts at aa.
LEMMA SliceFrom ==
  ASSUME NEW S, NEW s \in Seq(S), NEW e \in S, NEW a \in Nat, NEW b \in Nat, Len(s) = b - a,
         NEW aa \in a..b, NEW d, d = DropAppend(s, aa - a, e)
  PROVE  d \in Seq(S) /\ Slid(d, s, a, b, aa, e)
<1>1. PICK j \in 0..Len(s) : j = aa - a
  OBVIOUS
<1>2. d = DropAppend(s, j, e)
  BY <1>1
<1>3. d \in Seq(S) /\ Dropped(d, s, j, e)
  BY <1>2, SliceAppend
<1>4. Len(s) - j = b - aa /\ Len(s) \in Nat
  BY <1>1
<1>5. ASSUME NEW n \in aa..(b - 1)
      PROVE  d[n - aa + 1] = s[n - a + 1]
  <2>1. n - aa + 1 \in 1..(Len(s) - j) /\ j + (n - aa + 1) = n - a + 1
    BY <1>1, <1>4
  <2>2. d[n - aa + 1] = s[j + (n - aa + 1)]
    BY <1>3, <2>1 DEF Dropped
  <2> QED BY <2>1, <2>2
<1>6. Len(s) - j + 1 = (b + 1) - aa /\ Len(s) - j + 1 = b - aa + 1
  BY <1>4
<1>7. Len(d) = (b + 1) - aa /\ d[b - aa + 1] = e
  BY <1>3, <1>6 DEF Dropped
<1> QED BY <1>3, <1>5, <1>7 DEF Slid

\* The accessors of a core in terms of its view.
LEMMA ViewAccessors ==
  ASSUME NEW c, NEW f, NEW g, NEW k, NEW t, View(c, f, g, k, t)
  PROVE  /\ FrontLink(c).source_block_num = f
         /\ last_final_block_num(c) = g
         /\ current_block_num(c) = k
         /\ BackLink(c).target_block_num = t
         /\ latest_qc_claim(c).block_num = t
         /\ Len(c.links) = k - f + 1
         /\ Len(c.refs) = k - g
         /\ (c.refs = <<>>) <=> (k = g)
<1> USE DEF View, LinksView, RefsView
<1>1. f \in f..k /\ k \in f..k /\ f - f + 1 = 1
  OBVIOUS
<1>2. c.links[1].source_block_num = f /\ c.links[1].target_block_num = g
  BY <1>1
<1>3. c.links[k - f + 1].source_block_num = k /\ c.links[k - f + 1].target_block_num = t
  BY <1>1
<1>4. Len(c.links) = k - f + 1 /\ Len(c.refs) = k - g
  OBVIOUS
<1>5. (c.refs = <<>>) <=> (k = g)
  BY <1>4, EmptySeq
<1> QED BY <1>2, <1>3, <1>4, <1>5
       DEF FrontLink, BackLink, last_final_block_num, current_block_num, latest_qc_claim, QcClaim

\* The closed form implies the invariants as finality_core.hpp lists them.
LEMMA ViewImpliesInvariants ==
  ASSUME NEW c, NEW f, NEW g, NEW k, NEW t, View(c, f, g, k, t)
  PROVE  CoreInvariants(c)
<1>0. /\ f \in Nat /\ g \in Nat /\ k \in Nat /\ t \in Nat
      /\ g <= f /\ f <= t /\ t <= k
  BY DEF View
<1>1. /\ FrontLink(c).source_block_num = f /\ last_final_block_num(c) = g
      /\ current_block_num(c) = k /\ BackLink(c).target_block_num = t
      /\ latest_qc_claim(c).block_num = t
      /\ Len(c.links) = k - f + 1 /\ Len(c.refs) = k - g
      /\ (c.refs = <<>>) <=> (k = g)
  BY ViewAccessors
<1>2. LinksWellFormed(c)
  <2>1. c.links # <<>>
    BY <1>0, <1>1, EmptySeq
  <2>2. ASSUME NEW i \in 1..(k - f)
        PROVE /\ c.links[i].source_block_num + 1 = c.links[i+1].source_block_num
              /\ c.links[i].target_block_num <= c.links[i+1].target_block_num
    <3>1. f + i - 1 \in f..k /\ f + i \in f..k /\ (f + i - 1) - f + 1 = i /\ (f + i) - f + 1 = i + 1
      BY <1>0
    <3>2. c.links[i].source_block_num = f + i - 1 /\ c.links[i+1].source_block_num = f + i
      BY <3>1 DEF View, LinksView
    <3>3. c.links[i].target_block_num <= c.links[i+1].target_block_num
      <4>1. f + i - 1 <= f + i
        BY <1>0
      <4>2. c.links[(f + i - 1) - f + 1].target_block_num <= c.links[(f + i) - f + 1].target_block_num
        BY <3>1, <4>1 DEF View, LinksView
      <4> QED BY <3>1, <4>2
    <3> QED BY <1>0, <3>2, <3>3
  <2> QED BY <1>0, <1>1, <2>1, <2>2 DEF LinksWellFormed
<1>3. SizesMatch(c)
  BY <1>0, <1>1 DEF SizesMatch
<1>4. RefsWellFormed(c)
  <2>2. ASSUME k = g
        PROVE  Len(c.links) = 1 /\ BackLink(c).target_block_num = current_block_num(c)
    BY <1>0, <1>1, <2>2
  <2>3. ASSUME k # g
        PROVE  /\ c.refs[1].block_id.num = last_final_block_num(c)
               /\ c.refs[Len(c.refs)].block_id.num + 1 = current_block_num(c)
    <3>1. g \in g..(k-1) /\ g - g + 1 = 1 /\ k - 1 \in g..(k-1) /\ (k - 1) - g + 1 = k - g
      BY <1>0, <2>3
    <3>2. c.refs[1].block_id.num = g /\ c.refs[k - g].block_id.num = k - 1
      BY <3>1 DEF View, RefsView
    <3> QED BY <1>0, <1>1, <3>2
  <2>4. ASSUME NEW i \in 1..(k - g - 1)
        PROVE  /\ c.refs[i].block_id.num + 1 = c.refs[i+1].block_id.num
               /\ c.refs[i].timestamp < c.refs[i+1].timestamp
    <3>1. g + i - 1 \in g..(k-1) /\ g + i \in g..(k-1) /\ (g + i - 1) - g + 1 = i /\ (g + i) - g + 1 = i + 1
      BY <1>0
    <3>2. c.refs[i].block_id.num = g + i - 1 /\ c.refs[i+1].block_id.num = g + i
      BY <3>1 DEF View, RefsView
    <3>3. c.refs[i].timestamp < c.refs[i+1].timestamp
      <4>1. g + i - 1 < g + i
        BY <1>0
      <4>2. c.refs[(g + i - 1) - g + 1].timestamp < c.refs[(g + i) - g + 1].timestamp
        BY <3>1, <4>1 DEF View, RefsView
      <4> QED BY <3>1, <4>2
    <3> QED BY <1>0, <3>2, <3>3
  <2>5. Len(c.refs) - 1 = k - g - 1
    BY <1>0, <1>1
  <2> QED BY <1>1, <2>2, <2>3, <2>4, <2>5 DEF RefsWellFormed, current_block_num
<1> QED BY <1>2, <1>3, <1>4 DEF CoreInvariants

\* The new front of a core: a block not before the old front, not after the
\* claimed block, whose own claim becomes the last final block.
LEMMA NewFront ==
  ASSUME NEW c, NEW f, NEW g, NEW k, NEW t, View(c, f, g, k, t),
         NEW claim \in Claim, t <= claim.block_num, claim.block_num <= k
  PROVE  /\ NewFrontSource(c, claim) \in f..claim.block_num
         /\ NewLastFinal(c, claim) = c.links[NewFrontSource(c, claim) - f + 1].target_block_num
         /\ NewLastFinal(c, claim) \in g..NewFrontSource(c, claim)
<1>0. /\ f \in Nat /\ g \in Nat /\ k \in Nat /\ t \in Nat
      /\ g <= f /\ f <= t /\ t <= k /\ claim.block_num \in Nat
  BY DEF View, Claim
<1>1. FrontLink(c).source_block_num = f /\ last_final_block_num(c) = g
  BY ViewAccessors
<1>2. \A n \in f..k : /\ c.links[n - f + 1].source_block_num = n
                      /\ c.links[n - f + 1].target_block_num \in g..n
  BY DEF View, LinksView
<1>3. f \in f..k /\ claim.block_num \in f..k /\ f - f + 1 = 1
  BY <1>0
<1>4. CASE claim.is_strong_qc
  <2>1. NewFrontSource(c, claim) = claim.block_num
    BY <1>1, <1>2, <1>3, <1>4 DEF NewFrontSource, get_qc_link_from
  <2>2. NewLastFinal(c, claim) = c.links[claim.block_num - f + 1].target_block_num
    BY <1>1, <1>4 DEF NewLastFinal, get_qc_link_from
  <2> QED BY <1>0, <1>2, <1>3, <2>1, <2>2
<1>5. CASE ~ claim.is_strong_qc
  <2>1. NewFrontSource(c, claim) = f /\ NewLastFinal(c, claim) = g
    BY <1>1, <1>5 DEF NewFrontSource, NewLastFinal
  <2>2. c.links[f - f + 1].target_block_num = g
    BY <1>3 DEF View, LinksView
  <2> QED BY <1>0, <2>1, <2>2
<1> QED BY <1>4, <1>5

\* What becomes of the links: those from ff on are kept, one is added.
LinksNext(L, links, f, k, ff, gg, new) ==
  /\ LinksView(L, ff, gg, k + 1, new.target_block_num)
  /\ \A n \in ff..k : L[n - ff + 1] = links[n - f + 1]
  /\ L[(k + 1) - ff + 1] = new

\* finality_core::next keeps the links in shape.
LEMMA NextLinksView ==
  ASSUME NEW links, NEW f \in Nat, NEW g \in Nat, NEW k \in Nat, NEW t \in Nat,
         LinksView(links, f, g, k, t), f <= t, t <= k,
         NEW q \in t..k, NEW ff \in f..q, NEW gg \in g..ff,
         gg = links[ff - f + 1].target_block_num,
         NEW new \in Link, new.source_block_num = k + 1, new.target_block_num = q,
         NEW L, L = DropAppend(links, ff - f, new)
  PROVE  LinksNext(L, links, f, k, ff, gg, new)
<1>0. q \in Nat /\ LinksView(links, f, g, k, t) /\ t <= q /\ q <= k
  OBVIOUS
<1>1. Len(links) = k - f + 1
  BY DEF LinksView
<1>2. /\ ff \in f..q /\ ff \in Nat /\ gg \in Nat
      /\ gg = links[ff - f + 1].target_block_num
      /\ gg \in g..ff
  OBVIOUS
<1>3. links \in Seq(Link) /\ Len(links) = (k + 1) - f /\ k + 1 \in Nat /\ ff \in f..(k + 1)
  BY <1>0, <1>1, <1>2 DEF LinksView
<1>4. L \in Seq(Link) /\ Slid(L, links, f, k + 1, ff, new)
  BY <1>3, SliceFrom
<1>5. Len(L) = (k + 1) - ff + 1
  <2>1. Len(L) = ((k + 1) + 1) - ff
    BY <1>4 DEF Slid
  <2> QED BY <1>2, <2>1
<1>6. \A n \in ff..k : L[n - ff + 1] = links[n - f + 1]
  <2>1. (k + 1) - 1 = k
    OBVIOUS
  <2> QED BY <1>4, <2>1 DEF Slid
<1>7. L[(k + 1) - ff + 1] = new
  BY <1>4 DEF Slid
<1>8. new.source_block_num = k + 1 /\ new.target_block_num = q
  OBVIOUS
<1>9. ASSUME NEW n \in ff..(k + 1)
      PROVE  /\ L[n - ff + 1].source_block_num = n
             /\ L[n - ff + 1].target_block_num \in gg..n
  <2>1. CASE n = k + 1
    BY <1>0, <1>2, <1>7, <1>8, <2>1
  <2>2. CASE n \in ff..k
    <3>1. ff \in f..k /\ n \in f..k /\ ff <= n
      BY <1>0, <1>2, <2>2
    <3>2. /\ links[n - f + 1].source_block_num = n
          /\ links[n - f + 1].target_block_num \in g..n
      BY <1>0, <3>1 DEF LinksView
    <3>3. links[ff - f + 1].target_block_num <= links[n - f + 1].target_block_num
      BY <1>0, <3>1 DEF LinksView
    <3>4. L[n - ff + 1] = links[n - f + 1]
      BY <1>6, <2>2
    <3> QED BY <1>0, <1>2, <3>2, <3>3, <3>4
  <2> QED BY <1>0, <1>2, <2>1, <2>2
<1>10. ASSUME NEW m \in ff..(k + 1), NEW n \in ff..(k + 1), m <= n
       PROVE  L[m - ff + 1].target_block_num <= L[n - ff + 1].target_block_num
  <2>0. m \in Nat /\ n \in Nat /\ m <= k + 1 /\ n <= k + 1 /\ ff <= m /\ ff <= n /\ f <= ff
    BY <1>0, <1>2
  <2>1. CASE m = k + 1
    <3>1. n = m
      BY <1>0, <1>10, <2>0, <2>1
    <3>2. L[n - ff + 1].target_block_num \in gg..n
      BY <1>9
    <3> QED BY <1>2, <3>1, <3>2
  <2>2. CASE m \in ff..k /\ n = k + 1
    <3>1. m \in f..k /\ k \in f..k /\ m <= k
      BY <1>0, <1>2, <2>2
    <3>2. links[m - f + 1].target_block_num <= links[k - f + 1].target_block_num
      BY <1>0, <3>1 DEF LinksView
    <3>3. links[k - f + 1].target_block_num = t
      BY <1>0 DEF LinksView
    <3>4. links[m - f + 1].target_block_num \in g..m
      BY <1>0, <3>1 DEF LinksView
    <3>5. L[m - ff + 1] = links[m - f + 1] /\ L[n - ff + 1] = new
      BY <1>6, <1>7, <2>2
    <3> QED BY <1>0, <1>8, <3>2, <3>3, <3>4, <3>5
  <2>3. CASE m \in ff..k /\ n \in ff..k
    <3>1. m \in f..k /\ n \in f..k
      BY <1>0, <1>2, <2>3
    <3>2. links[m - f + 1].target_block_num <= links[n - f + 1].target_block_num
      BY <1>0, <1>10, <3>1 DEF LinksView
    <3> QED BY <1>6, <2>3, <3>2
  <2> QED BY <1>0, <2>0, <2>1, <2>2, <2>3
<1>11. L[1].target_block_num = gg
  <2>1. ff \in ff..k /\ ff - ff + 1 = 1
    BY <1>0, <1>2
  <2>2. L[1] = links[ff - f + 1]
    BY <1>6, <2>1
  <2> QED BY <1>2, <2>2
<1>12. LinksView(L, ff, gg, k + 1, q)
  BY <1>4, <1>5, <1>7, <1>8, <1>9, <1>10, <1>11 DEF LinksView
<1> QED BY <1>6, <1>7, <1>8, <1>12 DEF LinksNext

RefsNext(R, refs, g, k, gg, new) ==
  /\ RefsView(R, gg, k + 1)
  /\ \A n \in gg..(k - 1) : R[n - gg + 1] = refs[n - g + 1]
  /\ R[k - gg + 1] = new

\* finality_core::next keeps the references in shape.
LEMMA NextRefsView ==
  ASSUME NEW refs, NEW g \in Nat, NEW k \in Nat, g <= k, RefsView(refs, g, k),
         NEW gg \in g..k,
         NEW new \in Ref, new.block_id.num = k,
         \A n \in g..(k - 1) : refs[n - g + 1].timestamp < new.timestamp,
         NEW R, R = DropAppend(refs, gg - g, new)
  PROVE  RefsNext(R, refs, g, k, gg, new)
<1>1. refs \in Seq(Ref) /\ Len(refs) = k - g
  BY DEF RefsView
<1>2. /\ R \in Seq(Ref)
      /\ Len(R) = (k + 1) - gg
      /\ \A n \in gg..(k - 1) : R[n - gg + 1] = refs[n - g + 1]
      /\ R[k - gg + 1] = new
  <2>1. R \in Seq(Ref) /\ Slid(R, refs, g, k, gg, new)
    BY <1>1, SliceFrom
  <2> QED BY <2>1 DEF Slid
<1>3. gg \in Nat /\ g <= gg /\ gg <= k
  OBVIOUS
<1>4. \A n \in gg..(k - 1) : n \in g..(k - 1)
  BY <1>3
<1>5. ASSUME NEW n \in gg..k PROVE R[n - gg + 1].block_id.num = n
  <2>1. CASE n = k
    BY <1>2, <2>1
  <2>2. CASE n \in gg..(k - 1)
    BY <1>2, <1>4, <2>2 DEF RefsView
  <2> QED BY <1>3, <2>1, <2>2
<1>6. ASSUME NEW m \in gg..k, NEW n \in gg..k, m < n
      PROVE  R[m - gg + 1].timestamp < R[n - gg + 1].timestamp
  <2>1. m \in gg..(k - 1)
    BY <1>3, <1>6
  <2>2. R[m - gg + 1] = refs[m - g + 1] /\ m \in g..(k - 1)
    BY <1>2, <1>4, <2>1
  <2>3. CASE n = k
    BY <1>2, <2>2, <2>3
  <2>4. CASE n \in gg..(k - 1)
    <3>1. R[n - gg + 1] = refs[n - g + 1] /\ n \in g..(k - 1)
      BY <1>2, <1>4, <2>4
    <3>2. refs[m - g + 1].timestamp < refs[n - g + 1].timestamp
      BY <1>6, <2>2, <3>1 DEF RefsView
    <3> QED BY <2>2, <3>1, <3>2
  <2> QED BY <1>3, <2>3, <2>4
<1>7. gg..((k + 1) - 1) = gg..k
  BY <1>3
<1>8. RefsView(R, gg, k + 1)
  BY <1>2, <1>5, <1>6, <1>7 DEF RefsView
<1> QED BY <1>2, <1>8 DEF RefsNext

CoreNext(cc, c, f, g, k, ff, gg, ref, claim) ==
  /\ View(cc, ff, gg, k + 1, claim.block_num)
  /\ ff \in f..claim.block_num /\ gg \in g..ff
  /\ gg = c.links[ff - f + 1].target_block_num
  /\ LinksNext(cc.links, c.links, f, k, ff, gg, QcLink(k + 1, claim.block_num, claim.is_strong_qc))
  /\ RefsNext(cc.refs, c.refs, g, k, gg, ref)

\* finality_core::next, on the closed form.
LEMMA NextView ==
  ASSUME NEW c, NEW f, NEW g, NEW k, NEW t, View(c, f, g, k, t),
         NEW claim \in Claim, t <= claim.block_num, claim.block_num <= k,
         NEW ref \in Ref, ref.block_id.num = k,
         \A n \in g..(k - 1) : c.refs[n - g + 1].timestamp < ref.timestamp,
         NEW ff, ff = NewFrontSource(c, claim),
         NEW gg, gg = NewLastFinal(c, claim),
         NEW cc, cc = next(c, ref, claim)
  PROVE  CoreNext(cc, c, f, g, k, ff, gg, ref, claim)
<1> DEFINE q == claim.block_num
           new == QcLink(k + 1, q, claim.is_strong_qc)
<1>0. /\ f \in Nat /\ g \in Nat /\ k \in Nat /\ t \in Nat
      /\ g <= f /\ f <= t /\ t <= k /\ q \in t..k
  BY DEF View, Claim
<1>1. /\ FrontLink(c).source_block_num = f
      /\ last_final_block_num(c) = g
      /\ current_block_num(c) = k
  BY ViewAccessors
<1>2. /\ ff \in f..q
      /\ gg = c.links[ff - f + 1].target_block_num
      /\ gg \in g..ff
  BY NewFront
<1>3. new \in Link /\ new.source_block_num = k + 1 /\ new.target_block_num = q
  BY <1>0 DEF QcLink, Link, Claim
<1>4. cc.links = DropAppend(c.links, ff - f, new)
  BY <1>1 DEF next, NextLinks, DropAppend
<1>5. cc.refs = DropAppend(c.refs, gg - g, ref)
  BY <1>1 DEF next, NextRefs, DropAppend
<1>6. LinksView(c.links, f, g, k, t) /\ RefsView(c.refs, g, k)
  BY DEF View
<1> HIDE DEF new
<1>7. LinksNext(cc.links, c.links, f, k, ff, gg, new)
  <2> HIDE DEF q
  <2> QED BY <1>0, <1>2, <1>3, <1>4, <1>6, NextLinksView
<1>8. gg \in g..k /\ g <= k
  BY <1>0, <1>2
<1>9. RefsNext(cc.refs, c.refs, g, k, gg, ref)
  BY <1>0, <1>5, <1>6, <1>8, NextRefsView
<1>10. LinksView(cc.links, ff, gg, k + 1, q) /\ RefsView(cc.refs, gg, k + 1)
  BY <1>3, <1>7, <1>9 DEF LinksNext, RefsNext
<1>11. cc \in Core
  BY <1>10 DEF Core, next, LinksView, RefsView
<1>12. View(cc, ff, gg, k + 1, q)
  BY <1>0, <1>2, <1>10, <1>11 DEF View
<1> QED BY <1>0, <1>2, <1>7, <1>9, <1>12 DEF new, CoreNext

-------------------------------------------------------------------------------
(***************************************************************************)
(* The core and the branch it summarises.                                  *)
(***************************************************************************)
G == GenesisNum

HistoryView(h, k) ==
  /\ h \in Seq(Block)
  /\ k \in Nat /\ G <= k
  /\ Len(h) = (k + 1) - G
  /\ \A n \in G..k : At(h, n).id.num = n /\ At(h, n).claim.block_num \in G..n
  /\ \A n \in G..k : n = G \/ At(h, n).claim.block_num # n
  /\ \A m, n \in G..k : m < n => At(h, m).timestamp < At(h, n).timestamp
  /\ At(h, G).timestamp = GenesisTime
  /\ At(h, G).claim.block_num = G

\* The links and refs that are left repeat the branch.
Tied(c, h, f, g, k) ==
  /\ \A n \in f..k : /\ c.links[n - f + 1].target_block_num = At(h, n).claim.block_num
                     /\ c.links[n - f + 1].is_link_strong = At(h, n).claim.is_strong_qc
  /\ \A n \in g..(k - 1) : c.refs[n - g + 1] = BlockRef(At(h, n).id, At(h, n).timestamp)

\* f is the last block with a strong claim on it.
FrontView(h, f, g, k) ==
  /\ G <= g
  /\ f = G \/ \E m \in G..k : At(h, m).claim.block_num = f /\ At(h, m).claim.is_strong_qc
  /\ \A m \in G..k : At(h, m).claim.is_strong_qc =>
                       At(h, At(h, m).claim.block_num).claim.block_num <= g

\* The inductive invariant.
IInv(c, h, f, g, k, t) ==
  /\ View(c, f, g, k, t)
  /\ k = G => c.genesis_timestamp = GenesisTime
  /\ HistoryView(h, k)
  /\ Tied(c, h, f, g, k)
  /\ FrontView(h, f, g, k)

Extended(hh, h, k, new) ==
  /\ Len(hh) = (k + 2) - G
  /\ \A n \in G..k : At(hh, n) = At(h, n)
  /\ At(hh, k + 1) = new

\* A branch with one block more keeps its earlier blocks.
LEMMA ExtendHistory ==
  ASSUME NEW h \in Seq(Block), NEW k \in Nat, G <= k, Len(h) = (k + 1) - G,
         NEW new \in Block, NEW hh, hh = Append(h, new)
  PROVE  hh \in Seq(Block) /\ Extended(hh, h, k, new)
<1>0. G \in Nat
  BY GenesisAssumption DEF G
<1>1. /\ hh \in Seq(Block)
      /\ Len(hh) = Len(h) + 1
      /\ \A i \in 1..Len(h) : hh[i] = h[i]
      /\ hh[Len(h) + 1] = new
  BY AppendProperties
<1>2. Len(hh) = (k + 2) - G
  BY <1>0, <1>1
<1>3. ASSUME NEW n \in G..k PROVE At(hh, n) = At(h, n)
  <2>1. n - G + 1 \in 1..Len(h)
    BY <1>0
  <2> QED BY <1>1, <2>1 DEF At, G
<1>4. (k + 1) - G + 1 = Len(h) + 1
  BY <1>0
<1>5. At(hh, k + 1) = new
  BY <1>1, <1>4 DEF At, G
<1> QED BY <1>1, <1>2, <1>3, <1>5 DEF Extended

\* A block that finish_next appends, with a later timestamp and a claim on an
\* ancestor, keeps the branch well-formed.
LEMMA NextHistory ==
  ASSUME NEW h, NEW k, HistoryView(h, k),
         NEW new \in Block, new.id.num = k + 1, new.claim.block_num \in G..k,
         At(h, k).timestamp < new.timestamp,
         NEW hh, hh = Append(h, new)
  PROVE  HistoryView(hh, k + 1) /\ Extended(hh, h, k, new)
<1>0. G \in Nat /\ k \in Nat /\ G <= k /\ h \in Seq(Block) /\ Len(h) = (k + 1) - G
  BY GenesisAssumption DEF G, HistoryView
<1>1. hh \in Seq(Block) /\ Extended(hh, h, k, new)
  BY <1>0, ExtendHistory
<1>2. /\ \A n \in G..k : At(hh, n) = At(h, n)
      /\ At(hh, k + 1) = new /\ Len(hh) = ((k + 1) + 1) - G
  BY <1>0, <1>1 DEF Extended
<1>3. \A n \in G..(k + 1) : n \in G..k \/ n = k + 1
  BY <1>0
<1>4. \A n \in G..k : At(h, n).timestamp \in Nat
  <2> TAKE n \in G..k
  <2>1. n - G + 1 \in 1..Len(h)
    BY <1>0
  <2>2. h[n - G + 1] \in Block
    BY <1>0, <2>1, ElementOfSeq
  <2> QED BY <2>2 DEF Block, At, G
<1>5. ASSUME NEW n \in G..(k + 1)
      PROVE  /\ At(hh, n).id.num = n /\ At(hh, n).claim.block_num \in G..n
             /\ n = G \/ At(hh, n).claim.block_num # n
  <2>1. CASE n = k + 1
    BY <1>0, <1>2, <2>1
  <2>2. CASE n \in G..k
    BY <1>0, <1>2, <2>2 DEF HistoryView
  <2> QED BY <1>3, <2>1, <2>2
<1>6. ASSUME NEW m \in G..(k + 1), NEW n \in G..(k + 1), m < n
      PROVE  At(hh, m).timestamp < At(hh, n).timestamp
  <2>1. m \in G..k
    BY <1>0, <1>6
  <2>2. CASE n \in G..k
    BY <1>2, <1>6, <2>1, <2>2 DEF HistoryView
  <2>3. CASE n = k + 1
    <3>1. m = k \/ At(h, m).timestamp < At(h, k).timestamp
      <4>1. k \in G..k /\ (m = k \/ m < k)
        BY <1>0, <2>1
      <4> QED BY <2>1, <4>1 DEF HistoryView
    <3>2. new.timestamp \in Nat /\ At(h, k).timestamp \in Nat /\ At(h, m).timestamp \in Nat
      BY <1>0, <1>4, <2>1 DEF Block
    <3> QED BY <1>2, <2>1, <2>3, <3>1, <3>2
  <2> QED BY <1>3, <2>2, <2>3
<1>7. At(hh, G) = At(h, G)
  BY <1>0, <1>2
<1>8. HistoryView(hh, k + 1)
  BY <1>0, <1>1, <1>2, <1>5, <1>6, <1>7 DEF HistoryView
<1> QED BY <1>1, <1>8

\* finality_core::next, given a claim between the last one and the tip, gives a core
\* that is tied to the longer branch.
LEMMA NextTied ==
  ASSUME NEW c, NEW h, NEW f, NEW g, NEW k, NEW t, IInv(c, h, f, g, k, t),
         NEW claim \in Claim, t <= claim.block_num, claim.block_num <= k,
         NEW new \in Block, new.id.num = k + 1, new.claim = claim,
         At(h, k).timestamp < new.timestamp,
         NEW ref, ref = BlockRef(At(h, k).id, At(h, k).timestamp),
         NEW ff, ff = NewFrontSource(c, claim),
         NEW gg, gg = NewLastFinal(c, claim),
         NEW cc, cc = next(c, ref, claim),
         NEW hh, hh = Append(h, new)
  PROVE  IInv(cc, hh, ff, gg, k + 1, claim.block_num)
<1> DEFINE q == claim.block_num
           lnk == QcLink(k + 1, q, claim.is_strong_qc)
<1>0. /\ G \in Nat /\ f \in Nat /\ g \in Nat /\ k \in Nat /\ t \in Nat /\ q \in Nat
      /\ G <= g /\ g <= f /\ f <= t /\ t <= k /\ t <= q /\ q <= k
      /\ View(c, f, g, k, t) /\ HistoryView(h, k) /\ Tied(c, h, f, g, k) /\ FrontView(h, f, g, k)
  BY GenesisAssumption DEF G, IInv, View, FrontView, Claim
<1>1. HistoryView(hh, k + 1) /\ Extended(hh, h, k, new)
  <2>1. new.claim.block_num \in G..k
    BY <1>0
  <2> QED BY <1>0, <2>1, NextHistory
<1>2. \A n \in G..k : At(h, n) \in Block /\ At(h, n).id.num = n
  <2> TAKE n \in G..k
  <2>1. n - G + 1 \in 1..Len(h) /\ h \in Seq(Block)
    BY <1>0 DEF HistoryView
  <2>2. h[n - G + 1] \in Block
    BY <2>1, ElementOfSeq
  <2> QED BY <1>0, <2>2 DEF At, G, HistoryView
<1>3. ref \in Ref /\ ref.block_id.num = k
  BY <1>0, <1>2 DEF BlockRef, Ref, Block
<1>4. ASSUME NEW n \in g..(k - 1) PROVE c.refs[n - g + 1].timestamp < ref.timestamp
  <2>1. n \in G..k /\ k \in G..k /\ n < k
    BY <1>0
  <2>2. At(h, n).timestamp < At(h, k).timestamp
    BY <1>0, <2>1 DEF HistoryView
  <2>3. c.refs[n - g + 1] = BlockRef(At(h, n).id, At(h, n).timestamp)
    BY <1>0 DEF Tied
  <2> QED BY <2>2, <2>3 DEF BlockRef
<1>5. /\ View(cc, ff, gg, k + 1, q)
      /\ ff \in f..q /\ gg \in g..ff
      /\ gg = c.links[ff - f + 1].target_block_num
      /\ LinksNext(cc.links, c.links, f, k, ff, gg, lnk)
      /\ RefsNext(cc.refs, c.refs, g, k, gg, ref)
  <2>1. \A n \in g..(k - 1) : c.refs[n - g + 1].timestamp < ref.timestamp
    BY <1>4
  <2>2. CoreNext(cc, c, f, g, k, ff, gg, ref, claim)
    BY <1>0, <1>3, <2>1, NextView
  <2> QED BY <2>2 DEF CoreNext
<1>6. /\ \A n \in G..k : At(hh, n) = At(h, n)
      /\ At(hh, k + 1) = new
  BY <1>1 DEF Extended
<1>7. ff \in f..k /\ ff \in Nat /\ gg \in Nat /\ ff \in G..k /\ G <= gg /\ g <= gg
  <2>1. ff \in f..q /\ gg \in g..ff
    BY <1>5
  <2> QED BY <1>0, <2>1
<1>8. Tied(cc, hh, ff, gg, k + 1)
  <2>1. ASSUME NEW n \in ff..(k + 1)
        PROVE  /\ cc.links[n - ff + 1].target_block_num = At(hh, n).claim.block_num
               /\ cc.links[n - ff + 1].is_link_strong = At(hh, n).claim.is_strong_qc
    <3>1. CASE n = k + 1
      <4>1. cc.links[n - ff + 1] = lnk
        BY <1>5, <3>1 DEF LinksNext
      <4>2. At(hh, n).claim = claim
        BY <1>6, <3>1
      <4> QED BY <4>1, <4>2 DEF QcLink
    <3>2. CASE n \in ff..k
      <4>1. cc.links[n - ff + 1] = c.links[n - f + 1]
        BY <1>5, <3>2 DEF LinksNext
      <4>2. n \in f..k /\ n \in G..k
        BY <1>0, <1>7, <3>2
      <4> QED BY <1>0, <1>6, <4>1, <4>2 DEF Tied
    <3> QED BY <1>0, <1>7, <3>1, <3>2
  <2>2. ASSUME NEW n \in gg..((k + 1) - 1)
        PROVE  cc.refs[n - gg + 1] = BlockRef(At(hh, n).id, At(hh, n).timestamp)
    <3>0. n \in G..k /\ (n = k \/ n \in gg..(k - 1)) /\ k \in G..k
      BY <1>0, <1>7
    <3>1. CASE n = k
      <4>1. cc.refs[n - gg + 1] = ref
        BY <1>5, <3>1 DEF RefsNext
      <4> QED BY <1>6, <3>0, <3>1, <4>1
    <3>2. CASE n \in gg..(k - 1)
      <4>1. cc.refs[n - gg + 1] = c.refs[n - g + 1]
        BY <1>5, <3>2 DEF RefsNext
      <4>2. n \in g..(k - 1)
        BY <1>0, <1>7, <3>2
      <4> QED BY <1>0, <1>6, <3>0, <4>1, <4>2 DEF Tied
    <3> QED BY <3>0, <3>1, <3>2
  <2> QED BY <2>1, <2>2 DEF Tied
<1>9. gg = At(h, ff).claim.block_num
  BY <1>0, <1>5, <1>7 DEF Tied
<1>10. FrontView(hh, ff, gg, k + 1)
  <2>1. ff = G \/ \E m \in G..(k + 1) : At(hh, m).claim.block_num = ff /\ At(hh, m).claim.is_strong_qc
    <3>1. CASE claim.is_strong_qc
      <4>1. k + 1 \in G..(k + 1) /\ At(hh, k + 1).claim = claim
        BY <1>0, <1>6
      <4>2. ff = q
        <5>1. FrontLink(c).source_block_num = f
          BY <1>0, ViewAccessors
        <5>2. q \in f..k
          BY <1>0
        <5>3. c.links[q - f + 1].source_block_num = q
          BY <1>0, <5>2 DEF View, LinksView
        <5> QED BY <3>1, <5>1, <5>3 DEF NewFrontSource, get_qc_link_from
      <4> QED BY <3>1, <4>1, <4>2
    <3>2. CASE ~ claim.is_strong_qc
      <4>1. ff = f
        BY <1>0, <3>2, ViewAccessors DEF NewFrontSource
      <4>2. \A m \in G..k : m \in G..(k + 1)
        BY <1>0
      <4> QED BY <1>0, <1>6, <4>1, <4>2 DEF FrontView
    <3> QED BY <3>1, <3>2
  <2>2. ASSUME NEW m \in G..(k + 1), At(hh, m).claim.is_strong_qc
        PROVE  At(hh, At(hh, m).claim.block_num).claim.block_num <= gg
    <3>1. CASE m = k + 1
      <4>1. claim.is_strong_qc /\ At(hh, m).claim.block_num = q
        BY <1>6, <2>2, <3>1
      <4>2. gg = c.links[q - f + 1].target_block_num
        <5>1. FrontLink(c).source_block_num = f
          BY <1>0, ViewAccessors
        <5> QED BY <4>1, <5>1 DEF NewLastFinal, get_qc_link_from
      <4>3. q \in f..k /\ q \in G..k
        BY <1>0
      <4>4. gg = At(hh, q).claim.block_num
        BY <1>0, <1>6, <4>2, <4>3 DEF Tied
      <4> QED BY <1>7, <4>1, <4>4
    <3>2. CASE m \in G..k
      <4>1. At(hh, m) = At(h, m)
        BY <1>6, <3>2
      <4>2. At(h, m).claim.block_num \in G..m
        BY <1>0, <3>2 DEF HistoryView
      <4>3. At(h, m).claim.block_num \in G..k
        BY <1>0, <3>2, <4>2
      <4>4. At(h, At(h, m).claim.block_num).claim.block_num <= g
        BY <1>0, <2>2, <3>2, <4>1 DEF FrontView
      <4>5. At(h, At(h, m).claim.block_num).claim.block_num \in Nat
        BY <1>2, <4>3 DEF Block, Claim
      <4>6. At(hh, At(hh, m).claim.block_num).claim.block_num = At(h, At(h, m).claim.block_num).claim.block_num
        BY <1>6, <4>1, <4>3
      <4> QED BY <1>0, <1>7, <4>4, <4>5, <4>6
    <3> QED BY <1>0, <3>1, <3>2
  <2> QED BY <1>7, <2>1, <2>2 DEF FrontView
<1>11. k + 1 # G
  BY <1>0
<1> QED BY <1>1, <1>5, <1>8, <1>10, <1>11 DEF IInv

-------------------------------------------------------------------------------
\* The core of the genesis block (create_if_genesis_block) is tied to the branch of
\* that block alone.
LEMMA GenesisTied ==
  ASSUME NEW hash \in Hash
  PROVE  IInv(GenesisCore(hash), GenesisBranch(hash), G, G, G, G)
<1> DEFINE id == GenesisId(hash)
           c == GenesisCore(hash)
           h == GenesisBranch(hash)
           b == [id |-> id, timestamp |-> GenesisTime, claim |-> QcClaim(GenesisNum, FALSE)]
           l == QcLink(G, G, FALSE)
<1>0. G \in Nat /\ GenesisTime \in Nat
  BY GenesisAssumption DEF G
<1>1. id \in Id /\ id.num = G
  BY <1>0 DEF GenesisId, Id, G
<1>2. b \in Block /\ l \in Link
  BY <1>0, <1>1 DEF Block, Claim, QcClaim, Link, QcLink, G
<1>3. c.links = <<l>> /\ c.refs = <<>> /\ c.genesis_timestamp = GenesisTime
  BY <1>1 DEF GenesisCore, create_core_for_genesis_block
<1>4. l.source_block_num = G /\ l.target_block_num = G /\ l.is_link_strong = FALSE
  BY DEF QcLink
<1>5. b.id.num = G /\ b.timestamp = GenesisTime /\ b.claim.block_num = G /\ b.claim.is_strong_qc = FALSE
  BY <1>1 DEF QcClaim, G
<1>6. h = <<b>>
  BY DEF GenesisBranch
<1>7. \A n \in G..G : n = G /\ n - G + 1 = 1
  BY <1>0
<1>8. c \in [links : {<<l>>}, refs : {<<>>}, genesis_timestamp : Nat]
  BY <1>0, <1>1 DEF GenesisCore, create_core_for_genesis_block
<1> HIDE DEF b, l, c, h
<1>9. c.links \in Seq(Link) /\ c.refs \in Seq(Ref) /\ h \in Seq(Block)
  BY <1>2, <1>3, <1>6
<1>10. c \in Core
  BY <1>3, <1>8, <1>9 DEF Core
<1>11. c.links[1] = l /\ Len(c.links) = 1 /\ Len(c.refs) = 0 /\ h[1] = b /\ Len(h) = 1
  BY <1>2, <1>3, <1>6
<1>12. G - G + 1 = 1 /\ G - G = 0 /\ (G + 1) - G = 1 /\ G..(G - 1) = {}
  BY <1>0
<1>13. LinksView(c.links, G, G, G, G)
  BY <1>0, <1>4, <1>7, <1>9, <1>11, <1>12 DEF LinksView
<1>14. RefsView(c.refs, G, G)
  BY <1>9, <1>11, <1>12 DEF RefsView
<1>15. View(c, G, G, G, G)
  BY <1>0, <1>10, <1>13, <1>14 DEF View
<1>16. At(h, G) = b
  BY <1>11, <1>12 DEF At, G
<1>17. HistoryView(h, G)
  BY <1>0, <1>5, <1>7, <1>9, <1>11, <1>12, <1>16 DEF HistoryView
<1>18. Tied(c, h, G, G, G)
  BY <1>4, <1>5, <1>7, <1>11, <1>12, <1>16 DEF Tied
<1>19. FrontView(h, G, G, G)
  BY <1>0, <1>5, <1>7, <1>16 DEF FrontView
<1> QED BY <1>3, <1>15, <1>17, <1>18, <1>19 DEF IInv, c, h

\* The last element of a branch is the block with the greatest number.
LEMMA TipAt ==
  ASSUME NEW h, NEW k, HistoryView(h, k)
  PROVE  Tip(h) = At(h, k) /\ At(h, k) \in Block /\ At(h, k).id.num = k
<1>0. G \in Nat /\ k \in Nat /\ G <= k /\ h \in Seq(Block) /\ Len(h) = (k + 1) - G
  BY GenesisAssumption DEF G, HistoryView
<1>1. Len(h) = k - G + 1 /\ k - G + 1 \in 1..Len(h) /\ k \in G..k
  BY <1>0
<1>2. h[k - G + 1] \in Block
  BY <1>0, <1>1, ElementOfSeq
<1> QED BY <1>1, <1>2 DEF At, G, Tip, HistoryView

\* verify_basic_proper_block_invariants and finish_next keep core and branch tied.
ChildView(cc, hh, c, h, k, claim, new) ==
  /\ IInv(cc, hh, NewFrontSource(c, claim), NewLastFinal(c, claim), k + 1, claim.block_num)
  /\ new \in Block /\ new.id.num = k + 1
  /\ hh = Append(h, new)
  /\ Extended(hh, h, k, new)

\* The core and branch of a child (finish_next) are tied when those of its parent are.
LEMMA ChildTied ==
  ASSUME NEW c, NEW h, NEW f, NEW g, NEW k, NEW t, IInv(c, h, f, g, k, t),
         NEW hash \in Hash, NEW ts \in Nat, At(h, k).timestamp < ts,
         NEW claim \in Claim, t <= claim.block_num, claim.block_num <= k,
         NEW new, new = [id |-> [num |-> k + 1, hash |-> hash], timestamp |-> ts, claim |-> claim],
         NEW cc, cc = ChildCore(c, h, claim),
         NEW hh, hh = Extend(h, hash, ts, claim)
  PROVE  ChildView(cc, hh, c, h, k, claim, new)
<1>1. View(c, f, g, k, t) /\ HistoryView(h, k) /\ FrontView(h, f, g, k)
  BY DEF IInv
<1>2. Tip(h) = At(h, k) /\ At(h, k) \in Block /\ At(h, k).id.num = k
  BY <1>1, TipAt
<1>3. cc = next(c, BlockRef(At(h, k).id, At(h, k).timestamp), claim) /\ hh = Append(h, new)
  BY <1>2 DEF ChildCore, TipRef, Extend
<1>4. k \in Nat /\ G \in Nat /\ t \in Nat /\ G <= t
  BY <1>1, GenesisAssumption DEF View, G, FrontView
<1>5. /\ new \in Block /\ new.id.num = k + 1 /\ new.claim = claim
      /\ At(h, k).timestamp < new.timestamp
  BY <1>4 DEF Block, Id
<1>6. IInv(cc, hh, NewFrontSource(c, claim), NewLastFinal(c, claim), k + 1, claim.block_num)
  BY <1>3, <1>5, NextTied
<1>7. Extended(hh, h, k, new)
  <2>1. new.claim.block_num \in G..k
    BY <1>4, <1>5 DEF Claim
  <2> QED BY <1>1, <1>3, <1>5, <2>1, NextHistory
<1> QED BY <1>3, <1>5, <1>6, <1>7 DEF ChildView

\* What the accessors of finality_core return, in terms of the branch.
CoreReads(c, h, g, k, t) ==
  /\ last_final_block_num(c) = g /\ current_block_num(c) = k
  /\ latest_qc_claim(c).block_num = t
  /\ t = At(h, k).claim.block_num
  /\ latest_qc_claim(c).is_strong_qc = At(h, k).claim.is_strong_qc
  /\ latest_qc_block_timestamp(c) = At(h, t).timestamp
  /\ last_final_block_timestamp(c) = At(h, g).timestamp
  /\ \A n \in g..(k - 1) : get_block_reference(c, n) = BlockRef(At(h, n).id, At(h, n).timestamp)
  /\ k = G \/ t < k

\* What the getters of a core that is tied to its branch return: the blocks of the
\* branch.
LEMMA TiedReads ==
  ASSUME NEW c, NEW h, NEW f, NEW g, NEW k, NEW t, IInv(c, h, f, g, k, t)
  PROVE  CoreReads(c, h, g, k, t)
<1>0. /\ View(c, f, g, k, t) /\ HistoryView(h, k) /\ Tied(c, h, f, g, k)
      /\ G \in Nat /\ f \in Nat /\ g \in Nat /\ k \in Nat /\ t \in Nat
      /\ G <= g /\ g <= f /\ f <= t /\ t <= k
      /\ k = G => c.genesis_timestamp = GenesisTime
  BY GenesisAssumption DEF G, IInv, View, FrontView
<1>1. /\ last_final_block_num(c) = g /\ current_block_num(c) = k
      /\ BackLink(c).target_block_num = t /\ latest_qc_claim(c).block_num = t
      /\ (c.refs = <<>>) <=> (k = g)
  BY <1>0, ViewAccessors
<1>2. \A n \in g..(k - 1) : get_block_reference(c, n) = BlockRef(At(h, n).id, At(h, n).timestamp)
  BY <1>0, <1>1 DEF Tied, get_block_reference
<1>3. /\ t = At(h, k).claim.block_num
      /\ latest_qc_claim(c).is_strong_qc = At(h, k).claim.is_strong_qc
  <2>1. k \in f..k
    BY <1>0
  <2>2. c.links[k - f + 1].target_block_num = t /\ Len(c.links) = k - f + 1
    BY <1>0 DEF View, LinksView
  <2>3. c.links[k - f + 1].is_link_strong = At(h, k).claim.is_strong_qc
    BY <1>0, <2>1 DEF Tied
  <2>4. t = At(h, k).claim.block_num
    BY <1>0, <2>1, <2>2 DEF Tied
  <2> QED BY <2>2, <2>3, <2>4 DEF latest_qc_claim, QcClaim, BackLink
<1>4. k = G \/ t < k
  <2>1. k \in G..k
    BY <1>0
  <2> QED BY <1>0, <1>3, <2>1 DEF HistoryView
<1>5. /\ latest_qc_block_timestamp(c) = At(h, t).timestamp
      /\ last_final_block_timestamp(c) = At(h, g).timestamp
  <2>1. CASE k # g
    <3>1. g \in g..(k - 1) /\ t \in g..(k - 1)
      BY <1>0, <1>4, <2>1
    <3>2. ~ is_genesis_core(c)
      BY <1>1, <2>1 DEF is_genesis_core
    <3>3. /\ get_block_reference(c, t).timestamp = At(h, t).timestamp
          /\ get_block_reference(c, g).timestamp = At(h, g).timestamp
      BY <1>2, <3>1 DEF BlockRef
    <3> QED BY <1>1, <3>2, <3>3 DEF latest_qc_block_timestamp, last_final_block_timestamp
  <2>2. CASE k = g
    <3>1. k = G /\ t = G /\ g = G
      BY <1>0, <1>4, <2>2
    <3>2. At(h, G).timestamp = GenesisTime
      BY <1>0 DEF HistoryView
    <3>3. is_genesis_core(c)
      BY <1>1, <2>2 DEF is_genesis_core
    <3> QED BY <1>0, <1>1, <3>1, <3>2, <3>3 DEF latest_qc_block_timestamp, last_final_block_timestamp
  <2> QED BY <2>1, <2>2
<1> QED BY <1>1, <1>2, <1>3, <1>4, <1>5 DEF CoreReads

\* extends is ancestry from the last final block on.
LEMMA TiedExtends ==
  ASSUME NEW c, NEW h, NEW f, NEW g, NEW k, NEW t, IInv(c, h, f, g, k, t),
         NEW id, id.num \in Nat
  PROVE  extends(c, id) <=> (g <= id.num /\ id.num < k /\ At(h, id.num).id = id)
<1>0. CoreReads(c, h, g, k, t) /\ g \in Nat /\ k \in Nat
  BY TiedReads DEF IInv, View
<1>1. last_final_block_num(c) = g /\ current_block_num(c) = k
  BY <1>0 DEF CoreReads
<1>2. ASSUME g <= id.num, id.num < k
      PROVE  get_block_reference(c, id.num).block_id = At(h, id.num).id
  <2>1. id.num \in g..(k - 1)
    BY <1>0, <1>2
  <2>2. get_block_reference(c, id.num) = BlockRef(At(h, id.num).id, At(h, id.num).timestamp)
    BY <1>0, <2>1 DEF CoreReads
  <2> QED BY <2>2 DEF BlockRef
<1> QED BY <1>1, <1>2 DEF extends
===============================================================================
