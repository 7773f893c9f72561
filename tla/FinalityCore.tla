----------------------------- MODULE FinalityCore -----------------------------
(***************************************************************************)
(* The finality core of a Savanna block (finality_core.hpp/.cpp): the      *)
(* links that record which block claims a quorum certificate (QC) on which *)
(* ancestor, the references to the ancestors that are not yet final, and   *)
(* the arithmetic by which a QC claim advances the last final block.       *)
(*                                                                         *)
(* A core is a record [links, refs, genesis_timestamp].  A block id is a   *)
(* record whose num field is the block number the code extracts from the   *)
(* id; a block_ref keeps the id and the timestamp (the digest and policy   *)
(* generations it also carries play no part here).  Sequences are indexed  *)
(* from 1 where the vectors are indexed from 0.                            *)
(***************************************************************************)
EXTENDS Integers, Sequences

QcLink(source, target, strong) ==
  [source_block_num |-> source, target_block_num |-> target, is_link_strong |-> strong]

QcClaim(num, strong) == [block_num |-> num, is_strong_qc |-> strong]

BlockRef(id, ts) == [block_id |-> id, timestamp |-> ts]

\* qc_claim_t::operator<=> : lexicographic on block_num, then is_strong_qc.
ClaimLeq(p, q) ==
  \/ p.block_num < q.block_num
  \/ p.block_num = q.block_num /\ (p.is_strong_qc => q.is_strong_qc)

create_core_for_genesis_block(id, ts) ==
  [links |-> <<QcLink(id.num, id.num, FALSE)>>, refs |-> <<>>, genesis_timestamp |-> ts]

is_genesis_core(c) == c.refs = <<>>

\* links.front() and links.back()
FrontLink(c) == c.links[1]
BackLink(c)  == c.links[Len(c.links)]

current_block_num(c)    == BackLink(c).source_block_num
last_final_block_num(c) == FrontLink(c).target_block_num
latest_qc_claim(c)      == QcClaim(BackLink(c).target_block_num, BackLink(c).is_link_strong)

get_block_reference(c, n) == c.refs[n - last_final_block_num(c) + 1]

get_qc_link_from(c, n) == c.links[n - FrontLink(c).source_block_num + 1]

last_final_block_timestamp(c) ==
  IF is_genesis_core(c) THEN c.genesis_timestamp
  ELSE get_block_reference(c, last_final_block_num(c)).timestamp

latest_qc_block_timestamp(c) ==
  IF is_genesis_core(c) THEN c.genesis_timestamp
  ELSE get_block_reference(c, BackLink(c).target_block_num).timestamp

\* Mutant: compares the block number only.
Mut_ExtendsByNumber(c, id) == last_final_block_num(c) <= id.num /\ id.num < current_block_num(c)

\* Only ancestors from the last final block on are known to a core.
extends(c, id) ==
  /\ last_final_block_num(c) <= id.num
  /\ id.num < current_block_num(c)
  /\ get_block_reference(c, id.num).block_id = id

is_genesis_block_num(c, n) ==
  FrontLink(c).source_block_num = FrontLink(c).target_block_num /\ FrontLink(c).source_block_num = n

\* get_new_block_numbers: a weak claim moves nothing; a strong claim on block n
\* makes final the block that n itself claims a QC on.
NewLastFinal(c, claim) ==
  IF claim.is_strong_qc THEN get_qc_link_from(c, claim.block_num).target_block_num
  ELSE last_final_block_num(c)

\* Mutant: a weak claim advances finality too.
Mut_FrontSourceOfWeak(c, claim) == get_qc_link_from(c, claim.block_num).source_block_num

NewFrontSource(c, claim) ==
  IF claim.is_strong_qc THEN get_qc_link_from(c, claim.block_num).source_block_num
  ELSE FrontLink(c).source_block_num

next_metadata(c, claim) ==
  [last_final_block_num |-> NewLastFinal(c, claim), latest_qc_claim_block_num |-> claim.block_num]

\* finality_core::next: garbage collect links and refs, then append the new ones.
NextLinks(c, claim) ==
  Append(SubSeq(c.links, NewFrontSource(c, claim) - FrontLink(c).source_block_num + 1, Len(c.links)),
         QcLink(current_block_num(c) + 1, claim.block_num, claim.is_strong_qc))

\* Mutant: refs of final blocks are never dropped.
Mut_NextRefsKeepAll(c, current_block, claim) == Append(c.refs, current_block)

NextRefs(c, current_block, claim) ==
  Append(SubSeq(c.refs, NewLastFinal(c, claim) - last_final_block_num(c) + 1, Len(c.refs)),
         current_block)

\* next leaves genesis_timestamp of the new core default-initialized (slot 0).
next(c, current_block, claim) ==
  [links |-> NextLinks(c, claim), refs |-> NextRefs(c, current_block, claim), genesis_timestamp |-> 0]

-------------------------------------------------------------------------------
(* The preconditions of next that its callers establish                      *)
(* (verify_basic_proper_block_invariants and block_header_state::next).      *)
NextPre(c, current_block, claim) ==
  /\ current_block.block_id.num = current_block_num(c)
  /\ c.refs # <<>> => c.refs[Len(c.refs)].timestamp < current_block.timestamp
  /\ ClaimLeq(latest_qc_claim(c), claim)
  /\ claim.block_num <= current_block_num(c)

(* The invariants 1 to 9 that finality_core.hpp lists for every core.        *)
LinksWellFormed(c) ==
  /\ c.links # <<>>                                                   \* 1
  /\ last_final_block_num(c) <= FrontLink(c).source_block_num         \* 2
  /\ FrontLink(c).source_block_num <= latest_qc_claim(c).block_num    \* 2
  /\ \A i \in 1..(Len(c.links) - 1) :                                 \* 7
       /\ c.links[i].source_block_num + 1 = c.links[i+1].source_block_num
       /\ c.links[i].target_block_num <= c.links[i+1].target_block_num

RefsWellFormed(c) ==
  /\ c.refs = <<>> =>                                                 \* 3
       /\ Len(c.links) = 1
       /\ BackLink(c).target_block_num = BackLink(c).source_block_num
  /\ c.refs # <<>> =>
       /\ c.refs[1].block_id.num = last_final_block_num(c)            \* 4
       /\ c.refs[Len(c.refs)].block_id.num + 1 = current_block_num(c) \* 5
  /\ \A i \in 1..(Len(c.refs) - 1) :                                  \* 6
       /\ c.refs[i].block_id.num + 1 = c.refs[i+1].block_id.num
       /\ c.refs[i].timestamp < c.refs[i+1].timestamp

SizesMatch(c) ==
  /\ current_block_num(c) - last_final_block_num(c) = Len(c.refs)             \* 8
  /\ current_block_num(c) - FrontLink(c).source_block_num = Len(c.links) - 1  \* 9

CoreInvariants(c) == LinksWellFormed(c) /\ RefsWellFormed(c) /\ SizesMatch(c)
===============================================================================
