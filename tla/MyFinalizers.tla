------------------------------ MODULE MyFinalizers ------------------------------
(***************************************************************************)
(* The finalizers of one node (my_finalizers_t): their safety information  *)
(* in memory and in the safety file, votes that are sent only after the    *)
(* file is replaced, a node that may stop at any point, saves that fail    *)
(* with the old or the new file in place, and keys that are configured     *)
(* differently at each start.                                              *)
(*                                                                         *)
(* A block is a record [id, timestamp, core, voters]: voters are the keys  *)
(* in its active or pending finalizer policy.                              *)
(***************************************************************************)
EXTENDS FinalizerVote, FiniteSets

CONSTANTS
  Key,        \* BLS keys
  Blocks,     \* the blocks the node may consider voting on
  Defaults,   \* what set_default_safety_information may be given
  Unset,      \* unset_fsi
  MaxStarts,  \* bound: starts of the node
  MaxLosses   \* bound: times the safety file is missing at a start

\* An empty block_ref has the default timestamp, slot 0.
RefOK(ref) == ref.timestamp \in Nat /\ (empty(ref) => ref.timestamp = 0)
FsiOK(fsi) == RefOK(fsi.last_vote) /\ RefOK(fsi.lock)

ASSUME FsiAssumption ==
  /\ FsiOK(Unset) /\ empty(Unset.last_vote) /\ empty(Unset.lock)
  /\ \A fsi \in Defaults : FsiOK(fsi) /\ ~ empty(fsi.lock)

\* Blocks after the genesis block, told apart by their ids: consider_voting looks up
\* the reference that a block claims a QC on.
ASSUME BlocksAssumption ==
  /\ IsFiniteSet(Blocks)
  /\ \A b \in Blocks : /\ ~ is_genesis_core(b.core)
                       /\ \A ref \in {BlockRefOf(b), ClaimedRef(b)} : RefOK(ref) /\ ~ empty(ref)
  /\ \A b, c \in Blocks : b.id = c.id => b = c

VARIABLES
  up,
  file,                 \* the safety file: key -> safety information
  finalizers,           \* key -> safety information in memory
  inactive_safety_info, \* the same for keys in the file that are not configured
  default_fsi,
  has_voted,
  safety_write_failed,
  updating,             \* blocks whose QC a thread found not has_voted for, before it took mtx
  cast,                 \* for each key, the votes saved since the file was last missing
  forgotten,            \* and those saved before
  starts, losses

vars == <<up, file, finalizers, inactive_safety_info, default_fsi, has_voted, safety_write_failed,
          updating, cast, forgotten, starts, losses>>

None == [k \in {} |-> Unset]

Init ==
  /\ up = FALSE
  /\ file = None /\ finalizers = None /\ inactive_safety_info = None
  /\ default_fsi = Unset
  /\ has_voted = FALSE /\ safety_write_failed = FALSE
  /\ updating = {}
  /\ cast = [k \in Key |-> {}] /\ forgotten = [k \in Key |-> {}]
  /\ starts = 0 /\ losses = 0

-------------------------------------------------------------------------------
\* Mutant: safety information of keys that are not configured is dropped.
Mut_FileWithoutInactive(mem) == mem

\* The content save_finalizer_safety_info writes.
FileContent(mem) ==
  [k \in DOMAIN inactive_safety_info \cup DOMAIN mem |->
     IF k \in DOMAIN inactive_safety_info THEN inactive_safety_info[k] ELSE mem[k]]

\* set_keys: a key without a record starts from the default.
LoadedFsi(k) == IF k \in DOMAIN file THEN file[k] ELSE default_fsi

InactiveOf(keys) == [k \in DOMAIN file \ keys |-> file[k]]

\* The node starts with the given keys: load_finalizer_safety_info and set_keys.
\* The default may be set before or after (next action).
Start(keys) ==
  /\ ~ up /\ starts < MaxStarts
  /\ up' = TRUE /\ starts' = starts + 1
  /\ finalizers' = [k \in keys |-> LoadedFsi(k)]
  /\ inactive_safety_info' = InactiveOf(keys)
  /\ UNCHANGED <<file, default_fsi, has_voted, safety_write_failed, updating, cast, forgotten, losses>>

\* set_default_safety_information, at startup (before or after the keys are set) or
\* at the transition to Savanna: for finalizers without information.
SetDefault(fsi) ==
  /\ default_fsi = Unset
  /\ default_fsi' = fsi
  /\ finalizers' = [k \in DOMAIN finalizers |->
                      IF empty(finalizers[k].last_vote) /\ empty(finalizers[k].lock) THEN fsi
                      ELSE finalizers[k]]
  /\ UNCHANGED <<up, file, inactive_safety_info, has_voted, safety_write_failed, updating,
                 cast, forgotten, starts, losses>>

-------------------------------------------------------------------------------
\* save_finalizer_safety_info after a change of memory to mem.
SaveSucceeds(mem) ==
  /\ ~ safety_write_failed
  /\ file' = FileContent(mem)
  /\ UNCHANGED safety_write_failed

\* durable_file::replace fails, or the node stops in it, before or after the rename.
SaveFails(mem) ==
  /\ file' \in (IF safety_write_failed THEN {file} ELSE {file, FileContent(mem)})
  /\ safety_write_failed' = TRUE

\* my_finalizers_t::maybe_vote.  signed are the keys whose signature does not
\* throw; the others keep the changed safety information, without a vote.
VotersOf(b) == {k \in DOMAIN finalizers \cap b.voters : CanVote(finalizers[k], b)}

MemAfterVote(b) ==
  [k \in DOMAIN finalizers |-> IF k \in VotersOf(b) THEN VotedFsi(finalizers[k], b) ELSE finalizers[k]]

Cast(b, signed) ==
  cast' = [k \in Key |-> IF k \in signed
                         THEN cast[k] \cup {[id |-> b.id, strong |-> VotesStrong(finalizers[k], b)]}
                         ELSE cast[k]]

\* Mutant: the votes are sent although the file could not be replaced.
Mut_SendAnyway(b, signed) ==
  /\ has_voted' = TRUE
  /\ Cast(b, signed)
  /\ SaveSucceeds(MemAfterVote(b)) \/ SaveFails(MemAfterVote(b))

SaveAndSend(b, signed) ==
  /\ has_voted' = TRUE
  /\ \/ SaveSucceeds(MemAfterVote(b)) /\ Cast(b, signed)
     \/ SaveFails(MemAfterVote(b)) /\ UNCHANGED cast

\* The controller sets the default before the first vote.
MaybeVote(b) ==
  /\ up /\ default_fsi # Unset /\ ~ safety_write_failed
  /\ VotersOf(b) # {}
  /\ finalizers' = MemAfterVote(b)
  /\ \E signed \in SUBSET VotersOf(b) :
       IF signed = {} THEN UNCHANGED <<file, has_voted, safety_write_failed, cast>>
       ELSE SaveAndSend(b, signed)
  /\ UNCHANGED <<up, inactive_safety_info, default_fsi, updating, forgotten, starts, losses>>

-------------------------------------------------------------------------------
\* The keys that a strong QC on b shows to have voted strong on it.  A vote is sent
\* after mtx is released; one that is lost, or whose node stops first, is a vote
\* that no QC has.
Evidence(b) == {k \in DOMAIN finalizers : [id |-> b.id, strong |-> TRUE] \in cast[k] \cup forgotten[k]}

\* my_finalizers_t::maybe_update_fsi, first without mtx ...
CheckHasVoted(b) ==
  /\ up /\ ~ has_voted /\ Evidence(b) # {}
  /\ updating' = updating \cup {b.id}
  /\ UNCHANGED <<up, file, finalizers, inactive_safety_info, default_fsi, has_voted, safety_write_failed,
                 cast, forgotten, starts, losses>>

\* Mutant: evidence replaces safety information that is newer.
Mut_UpdatedByEvidence(b) == Evidence(b)

UpdatedByEvidence(b) == {k \in Evidence(b) : EvidenceIsNewer(finalizers[k], b)}

\* ... then with it, by when another thread may have voted.
MaybeUpdateFsi(b) ==
  /\ up /\ b.id \in updating
  /\ updating' = updating \ {b.id}
  /\ finalizers' = [k \in DOMAIN finalizers |->
                      IF k \in UpdatedByEvidence(b) THEN EvidenceFsi(b) ELSE finalizers[k]]
  /\ IF UpdatedByEvidence(b) = {} THEN UNCHANGED <<file, safety_write_failed>>
     ELSE SaveSucceeds(finalizers') \/ SaveFails(finalizers')
  /\ UNCHANGED <<up, inactive_safety_info, default_fsi, has_voted, cast, forgotten, starts, losses>>

-------------------------------------------------------------------------------
\* The node stops, in good order or not.
Stop ==
  /\ up
  /\ up' = FALSE
  /\ finalizers' = None /\ inactive_safety_info' = None /\ default_fsi' = Unset
  /\ has_voted' = FALSE /\ safety_write_failed' = FALSE
  /\ updating' = {}
  /\ UNCHANGED <<file, cast, forgotten, starts, losses>>

\* The operator starts the node elsewhere without the safety file.
LoseFile ==
  /\ ~ up /\ losses < MaxLosses
  /\ file' = None /\ losses' = losses + 1
  /\ cast' = [k \in Key |-> {}]
  /\ forgotten' = [k \in Key |-> forgotten[k] \cup cast[k]]
  /\ UNCHANGED <<up, finalizers, inactive_safety_info, default_fsi, has_voted, safety_write_failed, updating,
                 starts>>

Next ==
  \/ \E keys \in SUBSET Key : keys # {} /\ Start(keys)
  \/ \E fsi \in Defaults : SetDefault(fsi)
  \/ \E b \in Blocks : MaybeVote(b) \/ CheckHasVoted(b) \/ MaybeUpdateFsi(b)
  \/ Stop
  \/ LoseFile

Spec == Init /\ [][Next]_vars

-------------------------------------------------------------------------------
\* A vote that may be sent is in the safety file, whenever the node stops
\* (maybe_vote: "save the safety info and, if successful, gossip the votes"): the
\* file does not allow another vote in its slot, and is locked as the vote asks.
VotesAreDurable ==
  \A k \in Key, b \in Blocks, s \in BOOLEAN :
    [id |-> b.id, strong |-> s] \in cast[k] =>
      /\ k \in DOMAIN file
      /\ b.timestamp <= file[k].last_vote.timestamp
      /\ s => ClaimedTime(b) <= file[k].lock.timestamp

Newer(new, old) ==
  old.last_vote.timestamp <= new.last_vote.timestamp /\ old.lock.timestamp <= new.lock.timestamp

\* Through restarts, failed saves, changed configurations, and threads that bring
\* evidence while others vote, what the file says of a key never goes back, and it
\* says something of every key it ever said something of, until the file is lost.
FileNeverGoesBack ==
  [][LoseFile \/ \A k \in DOMAIN file : k \in DOMAIN file' /\ Newer(file'[k], file[k])]_vars

\* Each key, seen through the file, votes as if the node never stopped: the
\* conjunction of V(k)!Spec over the keys.
V(k) == INSTANCE Voter WITH fsi   <- IF k \in DOMAIN file THEN file[k] ELSE Unset,
                            votes <- cast[k], lost <- forgotten[k]

EachKeyIsAVoter ==
  /\ \A k \in Key : V(k)!Init
  /\ [][\A k \in Key : UNCHANGED V(k)!vars \/ V(k)!Next]_vars
===============================================================================
