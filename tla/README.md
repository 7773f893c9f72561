# Verification of flon-core's consensus

flon-core is the C++ node of the FullOn chain, a fork of Antelope Spring. Blocks
are produced by scheduled proposers and made irreversible by Savanna: a set of
finalizers votes on every block, the votes of a quorum form a quorum certificate
(QC), a block *claims* the latest QC on one of its ancestors, and a strong claim
on a block makes final the block which that one claims.

This directory holds TLA+ models of the parts of the node that decide what is
final and what the node's chain and its transactions are, the TLC configurations
that check them on small instances, and TLAPS proofs for all instances.
Definitions keep the names of the C++ code where TLA+ allows; `PROJECT.json` maps
each of them to its lines, and lists the hazards of the code at theirs.

To check: `tlc -config X.cfg MCModule` for each run listed below, and `tlapm M.tla`
for `CoreLemmas`, `SavannaProofs`, `PolicyProofs`, `QcProofs`, `VoteProofs`,
`FinalizerProofs`, `ForkProofs` and `TransactionProofs`. The longest,
`ForkProofs`, takes about 25 minutes, `TransactionProofs` a quarter of an hour and
`SavannaProofs` about ten minutes.

## 1. The system

```
 net plugin ----blocks---> create_block_state_i ---> fork database <--- push/accept
     |                      (header threads)           |   |            (main thread)
     |                           |                     |   +--> maybe_switch_forks,
   votes                    own vote (my_finalizers)   |        apply, undo, log_irreversible
     |                           |                     |           |            |
     +--> vote processor <-------+                     |      block log,    signals
              |  (vote threads)                        |      chain db         |
              +--> aggregating_qc of the block --QC--> next produced block      |
                                                                                |
   senders --transactions--> producer plugin, unapplied queue <-----------------+
      ^                                                                         |
      +------ answers ---- chain plugin: retry, finality status <---------------+
```

| Part | Source (under `src/`) | State | Operations | What is hard | What must hold |
|---|---|---|---|---|---|
| Finality core | `libraries/chain/finality/finality_core.*` | links and refs of a block back to its last final block | `next`, `extends`, accessors | pruning and index arithmetic | the pruned core tells the truth about the branch |
| Voting rules | `finality/finalizer.cpp` | lock, last vote, latest time on another branch | `decide_vote` | forks, weak votes, blocks out of order | safety of finality; nobody is locked out |
| Own finalizers | `finality/finalizer.*`, `durable_file.hpp` | safety information in memory and file | `set_keys`, `maybe_vote`, `maybe_update_fsi`, save and load | stops, failed writes, keys that come and go | no vote leaves before it is durable |
| Vote aggregation | `finality/qc.*` | bitsets, sums and state per policy, received QC | `aggregate_vote`, `set_received_qc`, `get_best_qc`, `verify_qc` | threads, two policies with a mutex each, weights | one vote each; states agree with votes; QCs verify |
| Vote processor | `vote_processor.hpp`, `vote_admission.hpp` | task queues, deferred votes, reservations | `process_vote_message`, `notify_new_block`, passes over deferred votes | the mutex is released in the middle; limits | no vote lost or counted twice; capacity returns |
| Fork database | `fork_database.*` | root, blocks above it, pending irreversible block | `add`, `remove`, `advance_root`, branches, save and read | removal and pruning between additions | one tree; reads back as written |
| Controller, chain head | `controller.cpp` | head, chain database, block log | `push_block`, `accept_block`, `maybe_switch_forks`, `commit_block`, `pop_block`, `log_irreversible` | invalid blocks in mid-switch, failed appends, other threads | head, database, log and fork database agree; ends on the best branch |
| Policies in headers | `block_header_state.*` | proposed, pending and active policies | `finish_next`, promotion | proposals in quick succession, finality that lags, missed rounds | policies are activated in order, after their quorums |
| Transactions across forks | `unapplied_transaction_queue.hpp`, `trx_retry_db.cpp`, `trx_finality_status_processing.cpp`, `producer_plugin.cpp` | queue, tracked transactions, status | the signal handlers, start, abort and production of blocks | fork switches that fail, blocks of the same number | no transaction is lost; answers fit the chain |
| Start and replay | `controller.cpp`, `fork_database.cpp` | files on disk | `startup`, `replay`, `init` | crashes, stops between two files | a consistent head is found |
| Execution | `transaction_context.cpp`, `apply_context.cpp`, `resource_limits.cpp`, `authorization_manager.cpp`, WebAssembly | accounts, usage, tables | actions of a transaction | arithmetic at its limits | determinism, limits |
| Network plugin | `plugins/net_plugin` | connections, sync ranges | handshakes, sync, dispatch | lost peers, timeouts | a node that is behind catches up |
| Other plugins and programs | `plugins/*`, `programs/*`, other libraries | caches and indexes of the above | queries | | answers fit the chain |

The parts down to the transactions are modelled (section 5 has the others).

## 2. Modules

**Finality core.** `FinalityCore` has the operations of `finality_core` as
operators on a record `[links, refs, genesis_timestamp]` (sequences count from
1, the vectors from 0). `Branch` has blocks as records `[id, timestamp, claim]`,
branches as sequences of them, and how a child's core is derived (`finish_next`,
`block_header_state::next`). `CoreChain` grows one branch; each step appends a
block with any claim that `verify_basic_proper_block_invariants` accepts.
`history` holds the whole branch, and only the properties read it.

**Consensus.** `FinalizerVote` is `finalizer::decide_vote` as operators.
`Savanna` is the whole network: a tree of blocks, each with any acceptable claim
(`Propose`), and honest finalizers that may vote on any block of it at any time
or never (`Vote`). So messages may be lost, delayed, repeated and reordered.
Byzantine finalizers count as having voted both ways on every block. The
finalizer policy is constant.

**One node's finalizers.** `MyFinalizers` is `my_finalizers_t`: memory, the
safety file, failed saves that leave the old or the new file, failed signing, a
stop at any point, starts with any keys, evidence from QCs, and the loss of the
file. `Voter` is its abstract specification: a finalizer that votes by
`decide_vote` and never forgets (the finalizer of `Savanna`). Each key refines
it from one loss of the file to the next (`EachKeyIsAVoter`).

**Votes and certificates.** `QcSig` is `aggregating_qc_sig_t` and `qc_sig_t` as
operators, for one policy. A QC is the sets of its signers. How many values an
`int` and an `uint64_t` have are constants, so that truncation is visible with
small weights. The weight of a set of finalizers is the number of its units of
weight, which makes sums a matter of finite sets.
`AggregatingQc` is one block with an active and maybe a pending policy, threads
that bring votes, received QCs, and the producer that takes the best QC; each
critical section is one step.

**Vote threads.** `VoteProcessor` is `vote_processor_t` with
`vote_admission`: the remote workers, the local worker, their queues, and one
step for each stretch between releases of `mtx`. Reservations are not counted;
the model derives them from where copies of the ticket are. Time is reduced to
when a deferred vote becomes too old.

**Fork database and controller.** `ForkDatabase` has the operations on the
Savanna fork database as operators on its value, over a given tree of blocks.
`ForkSwitch` is the controller on top of it: the main thread applies one block
per step and other threads add blocks in between. The chain database is the
block it stands at and the block up to which it is committed. `pop_block`,
failed blocks, the reversal of a fork switch, failed appends to the block log
and the shutdown in mid-branch are as in the code.

**Stops, crashes and starts.** `Restart` adds to `ForkSwitch` that the node goes
down and comes back. A node that stops writes `chain_head` and the fork database
before its chain database is marked as clean. A start finds all of it
(`existing`), or the block log and the fork database's file (`replay`: the chain
database was dirty or was deleted), or the block log alone (`crashed`, at any
step). `Opened` is the fork database read back block by block in the order it was
written in. `Started` is what `startup` and `replay` make of it: the blocks of the log
are applied again, the root of the fork database follows, and the validated
blocks at the beginning of the best branch are applied on top. `Starts` collects
the assertions on the way. The move to the best branch that `init` ends with has
the steps of `SwitchForks`. Blocks that were lost with the fork database may
arrive again.

**Policies.** `PolicyChain` is one branch with the members of a header state that
track finalizer and proposer policies. A block may propose a finalizer policy
and a schedule, claims any QC that validation accepts (any block from the latest
claim to the parent, as when QCs lag), and may follow its parent after any number of
slots; `finish_next` promotes. A finalizer policy stands for its generation, a
schedule for its version and time of proposal. The specification has no bound; the
bounds of the run are in `MCPolicyChain`.

**Transactions.** `UnappliedQueue`, `TrxRetry` and `TrxStatus` are the producer
plugin's queue and the chain plugin's `trx_retry_db` and
`trx_finality_status_processing`, as operators on their values. `Transactions`
composes them with a controller reduced to what they see of it: the order of
`block_start`, `applied_transaction`, `accepted_block` and `irreversible_block`
while blocks are applied, produced, popped or fail. Which branch is best is left
open here, so every switch that `ForkSwitch` can make is covered, and more.
Which status entries are too old is left open too, and so is whether a
transaction fits a block.

How they compose: `Savanna` uses `Branch`, `FinalityCore` and `FinalizerVote`;
`MyFinalizers` uses `FinalizerVote` and shows that restarts do not break what
`Savanna` assumes of an honest finalizer; `AggregatingQc` shows that a verified
QC is what `Savanna` takes it to be, the votes of a quorum; `PolicyChain` uses
`Branch` and `FinalityCore`; `ForkSwitch` relies on `Savanna` in that all strong
claims lead to final blocks of one branch; `Transactions` relies on `ForkSwitch`
in that a fork switch ends on the new branch or back on the old one.

## 3. Runs

| Run | What it asks | Bounds, and why they suffice |
|---|---|---|
| `core_chain` | does the pruned core agree with the whole branch? | seven blocks, two hashes, a block in every slot (the theorems cover any gaps): a strong claim on a strong claim, a weak claim made strong later, two advances of finality |
| `savanna` | is finality safe, and is nobody locked out? | weights 2, 1 and a Byzantine 1, five blocks in five slots: two branches that each claim a QC, and votes that change branch |
| `my_finalizers` | are votes durable, and is each key a `Voter`? | two keys, three starts, one loss of the file, a fork of three blocks: a key left out and put back, one that votes on both branches and one whose record must survive its votes |
| `qc` | do sums, states and certificates agree when threads race? | two threads, three finalizers of which one votes both ways, four policies (equal, unequal, large weights, and two policies with a finalizer in both), up to two received parts of QCs |
| `vote_processor` | is a vote lost or counted twice, and does capacity return? | two remote workers and the local one, two peers and the node voting on a block, limits of one: overlapping passes, rejection, a block that becomes irreversible first or never comes |
| `fork_switch` | do head, chain database, block log and fork database agree? | six blocks on two branches, one of which may be invalid, one arriving twice, one that can become final |
| `append_fails` | block log and root after a failed append; what does a start recover after a stop or a crash; does the node end on the best branch? | one failure and one restart, at any step; six blocks of which two can become final in one step, an invalid block on either branch, and a short branch that is better for a while than a longer one |
| `policies` | are policies promoted in order and in time? | branches with up to three finalizer policies and seven blocks after the genesis block: two activations, and a claim that moves on to a block from before the last one; or with two schedules, children after one or four slots, rounds of three slots and five blocks: both activated, a missed round, and one that overtakes the other. `finish_next` deals with the two kinds of policies apart, and no branch has both |
| `transactions` | do queue, tracked transactions and status follow the chain? | two branches with two blocks each, one of which the node may produce, and a block that is built on that one; a transaction that any of them may include, and that expires; senders that ask for a depth of one or for irreversibility |

`savanna` explores one representative of the states that differ in the hashes of
the blocks of a number only (`HashesInOrder`): hashes are compared for equality
and nothing else. `core_chain` uses symmetry of hashes. Every model starts in the
state of the code at the Savanna genesis block, or of a newly constructed object.

What the properties say is in the comment above each. The deepest of them:
`FinalBlocksAgree` (safety of consensus), `StrongVoteCoversOwnVotes` (a strong
vote vouches for the finalizer's votes on all branches), `NobodyIsStuck`,
`VotesAreDurable` and `EachKeyIsAVoter` (crashes), `DualVoteReachesBoth`
(duplicates dropped half way), `NoVoteVanishes` and `CapacityReturns` (deferred
votes), `HeadIsOnValidatedBranch` and `SettlesOnBestBranch` (fork switches),
`StartRecovers` (stops and crashes of the node),
`PoliciesAreKnown` and `ActivatedAfterDualQuorum` (policies), `AnswersAreRight`
and `NoTransactionIsLost` (transactions).

Deadlock is not checked: in every model the environment may stop (no more
blocks, votes or starts), and then nothing is left to do.

Three runs show disagreements between the code and what it says of itself; each
checks one property, which TLC violates:

* `built_qc`: the two parts of a QC are read one after the other, and a strong
  part leaves out weak votes that the weak part of the other policy keeps; so a
  finalizer of both policies can be in one part only, and receivers refuse the QC.
* `lost_wakeup`: a vote whose block arrives between the look-up and the deferral
  stays deferred. The node's own vote is exposed to it, because it is cast
  before the block is added to the fork database.
* `revision`: when appending to the block log throws in `commit_block`, the
  block's changes are undone but `chain_head` stays, and the next `start_block`
  fails its assertion.

Smaller observations, without a run of their own:

* `weak_final` is entered with `>=` from `weak_achieved`, one vote before a strong
  QC is out of reach (`qc.cpp:259`),
  although `qc.hpp` says "`strong` not possible anymore". No property here relies on it.
* A transaction that is executed again keeps the `received` time of its status
  entry. When the entry expires while its block is produced, the assertion of
  `signal_accepted_block` fails, and the exception is logged and dropped.
  `StatusFollowsChain` is about the states in which that did not happen.
* A fork switch that fails discards the transactions of the blocks it pops
  (`controller.cpp:4608`); `NoTransactionIsLost` does not ask for them.
* `replay` applies the validated blocks of the best branch whose numbers are above
  the head's, and builds them on `chain_head` (`controller.cpp:1919`). A node
  that left a longer branch for a better, shorter one, and stopped when the
  longer one was best again, throws "previous mismatch" at its next start and
  needs a replay. `StartRecovers` excepts this case (`LeftLongerBranch`), which
  the `append_fails` run reaches, and the database that a failed append left
  behind its head.

### Fairness

`AggregatingQc` and `VoteProcessor` assume that a thread which has a task goes on
with it: the pools' threads run until shutdown and take no lock for long.
`CapacityReturns` also assumes that time passes and that peers send rejected
votes again; `LocalVotesAreNotBlocked` assumes fairness of the local worker only.
`ForkSwitch` and `Restart` assume that the main thread runs: the production loop calls
`maybe_switch_forks` before each block. Most of these are written as weak
fairness with the enabling condition spelled out ("infinitely often not able to,
or infinitely often a step"), because TLC is slow in evaluating `ENABLED`. The
other models state no fairness; they are checked for safety only.

## 4. Proofs

Proved with TLAPS, for every value of the constants:

`CoreLemmas` proves what `next` does to a core of any size. Its invariant is a
closed form of the nine invariants in `finality_core.hpp`, in which links and
refs are located by block number instead of by position, together with the
relation between the core and the branch. The listed invariants are not
inductive: they say nothing about which targets the links have, on which the
next last final block depends.

The first part of `SavannaProofs` concludes, for branches of any length and any hashes, all
properties of the run `core_chain`, and that the timestamps and the genesis block
are recognised from what the core keeps. In particular no assertion in
`finality_core.cpp` fails for claims that validation accepts. Assumed: there is a
hash, and the genesis number is positive.

The rest of `SavannaProofs` proves the properties of the run `savanna` for any
number of blocks, slots, finalizers and quorums. Assumed: any two quorums share an
honest finalizer (`QuorumAssumption`), and the genesis hash and time are in their
sets. The argument:

1. The branches of the tree agree (`TreeInv`): each block's core is tied to its
   branch, and a block has the same past on every branch it is on. Ancestry is
   then a partial order that is linear below a block.
2. `Inv` says of each finalizer: its last vote is its latest and no slot has two
   (`LastVoteInv`); its lock has a QC and is as late as anything its strong votes
   claimed (`LockInv`); votes after `other_branch_latest_time` were on the branch
   of the last vote (`BranchInv`); a strong vote covers its own votes since the
   claimed block (`CoversInv`); a vote after a strong vote was justified by a QC
   at least as late as the lock (`JustifiedInv`). None is inductive alone:
   `CoversInv` needs `BranchInv`, and that needs `LastVoteInv` and `LockInv`.
   There is one lemma per action.
3. Two QCs share an honest voter, so blocks with QCs have different times, and by
   well-founded induction on time every QC later than a final block is on its
   branch (`QcsExtendFinal`). That final blocks agree, that every last final
   block is final and that last final blocks agree follow.
4. Every lock has a QC, so no lock is later than the latest QC; a block that
   claims it passes the liveness check, and nobody is stuck.

`PolicyProofs` proves the finalizer properties of the run `policies` for branches
of any length, any number of proposals and every claim that validation accepts. It
reuses `CoreLemmas` for the core.
`PolicyInv` says that since the block claimed last the active policy changed at
most once, from the one the header remembers (`Remembered`), and that nothing
changed since the pending policy became pending (`PendingSince`).
`PoliciesAreKnown` is not inductive without both: whether the policies of a claimed
block are at hand depends on how often the active policy changed since, and that on
when the pending one did.

It also proves the two properties of proposer policies for any length of a round
(assumed positive). `PropInv` adds to the order of the versions that a
pending schedule was proposed in an earlier round than the head's; with the
promotion at a change of round this gives the two rounds.

`QcProofs` proves the safety properties of the run `qc` for any finalizers,
weights, thresholds, threads and received QCs. Assumed: policies are such as
`set_finalizers` accepts (`PolicyAssumption`), an `int` has an even number of
values and an `uint64_t` a multiple of it (`WidthAssumption`). `QcInv` has for
each policy that its bitsets are disjoint and its state matches the sums
(`SigFor`), and for the threads what they rely on without holding a mutex
(`VoteInv`): a vote that has come to the pending policy is the one that the active
policy counted. `OneVoteEach` is not inductive without the latter: the two
policies agree only because a thread goes on to the pending policy with a vote
that was not a duplicate for the active one. That the limit on weak votes is right
when the sum does not fit an `int` is a lemma on the two moduli.

`VoteProofs` proves for any votes, limits and number of threads that no vote is
lost (`NoVoteVanishes`), none is aggregated twice (`AggregatedOnce`), the type
invariant with its one pending notification, and that the votes queued, executing
and deferred stay within the limits of `vote_admission` (`LimitsHold`). Assumed:
limits are natural numbers, and a message is not a notification. `VoteInv` says
that each vote is in one place, the places being the queues, the index, the
aggregated ones and what each thread owns, and that what arrived is in some place
or expired. Both properties need it, since passes overlap: that a pass erases a vote
from `index` before it releases `mtx` is what keeps the votes of two passes apart.

`FinalizerProofs` proves the three properties of the run `my_finalizers` for any
keys and blocks, and any number of starts, failed saves and losses of the file.
Assumed: an empty reference has time slot 0, defaults have a lock, and blocks are
finitely many, told apart by their ids, and come after the genesis block
(`FsiAssumption`, `BlocksAssumption`). `FileInv` adds to `VotesAreDurable` that
memory is never older than the file, and that the records of keys which are not
configured are those in the file; a save could go back otherwise.
`EachKeyIsAVoterHolds` is the refinement of `Voter`, step by step. Its invariant
`VoterInv` says that until a save fails, what memory has of a key is what votes
reach from what the file has. The lemmas are that votes on n blocks are at most n
steps (`LevelsPast`: each vote passes a block for ever, because it is monotone in
time), so that `Reach` is closed under votes, and that evidence which is newer than
memory is of a vote forgotten with the file.

`ForkProofs` proves the invariants of `ForkSwitch` and `Restart`, for any tree of
blocks, any invalid blocks and any number of arrivals, failed appends, stops, crashes
and starts: for `Spec`, a node that runs, and for `RestartSpec`. Assumed is that the
blocks form a tree with a QC claim each, as header validation leaves them
(`TreeAssumption`): a child has the next number and a later time, and its claim is
on an ancestor and does not go back. `ForkInv` has two parts:

1. Always (`StateInv`): the index of the fork database is a tree above the root and
   contains the branch of each of its blocks, and what their claims make final is
   pending already; block log and last commit of the chain database are at the root
   (`ChainInv`). The validated blocks are branches from the root; the head is one of
   them, or the child of one that a failed append left behind (`BranchInv`). The blocks
   that a fork switch has still to apply are in the index and lead on from the head,
   and the old branch is in the index unless something above the fork became
   irreversible (`TaskInv`). `NoOrphans` and `BlockLogEndsAtRoot` follow, and that
   the root never goes back (`RootNeverGoesBack`).
2. Until an append fails (`SyncInv`): the chain database is at the head, and the
   assertions of the fork switch held. `HeadIsOnValidatedBranch`,
   `RevisionOnParWithHead` and `NeverLosesSync` follow. None is inductive alone: popping
   ends at the fork only because of the count in `TaskInv`, which holds only while
   blocks stay in the index when others are removed, and those are never ancestors of
   the old branch.

The condition in the second part is needed: the run `revision` shows how
`RevisionOnParWithHead` fails after an append did. `RootIsFinal` is proved for `Spec`
only: a replay without the fork database's file has no pending block, so that there is
nothing to compare the root with.

`StartRecovers` follows from the first part of `ForkInv`, so it does not matter how
many appends failed. A block is better than its ancestors (`DescendantIsBetter`), so
the worst block that was not read yet finds its parent among those that were; its
claim is pending already, so adding it changes nothing else; hence the file is read
back as it was (`OpenedIs`). A replay of the block log ends at the root. From there, or
from the head if nothing of a longer branch is left over, the blocks to replay lead on
one by one, and the root may advance on the way without removing the rest (`PushedIs`).

The lemmas that needed care are about recursion. The provers can not instantiate
an induction theorem with a formula, but they can with a set: `NumInduction` and
`TreeInduction` take the set of numbers or blocks of which a claim holds.
`pop_block` in a loop (`Pop`), reading the fork database's file (`Opened`), replaying
blocks (`Pushed`) and `ReachedBy` are recursive functions that are shown to exist that
way before they are used.

`TransactionProofs` proves the four properties of the run `transactions`, for any
tree of blocks with any transactions in them, any transactions sent to the node and
any number of fork switches, invalid blocks and produced blocks. Assumed: the path of
a block ends with the block and has the paths of its ancestors as its beginnings
(`PathAssumption`), and expirations and depths are natural numbers (`TrxAssumption`).
`IInv` says, in the middle of a fork switch and of a block too:

1. What is on the chain was applied, and what was applied has nothing that was
   expired or that its branch already had (`ChainOk`). That an expired transaction is
   not in the chain when its sender is told so rests on it.
2. The blocks to apply lead on from the head, the old branch from the fork
   (`TaskOk`); the block being applied is the first of them, and what was executed
   so far, in it or in the pending block, is not in the chain yet (`BuildOk`).
3. A tracked transaction has the number of its block on the chain, or none up to the
   head; while a block is applied, it has that block's number exactly if it was
   executed in it already (`TrackedOk`). Without the last clause a number left by
   a branch that failed could be taken for one of the block that is applied next.
4. An entry of the status which is in a block is in one on the branch of the block
   that the *processing* takes for the head (`StatusOk`). That block need not be
   on the controller's branch: the processing is not told of popped blocks. Entries
   in blocks up to the controller's head are right nevertheless, so if the next
   block it hears of is higher than the last one it processed, none is wrong, and if
   not, the comparison of numbers in `signal_applied_transaction` finds out.
5. What was executed here or forked out is in the chain, in the pending block or in
   the queue (`KeptInv`, which is `NoTransactionIsLost` during a switch as well).

The properties are not inductive alone: between tasks they say nothing of a switch that
is under way, and a switch that fails goes back to a branch through states that only
2 to 4 describe.

Only model-checked or left out, and why:

* All liveness (`DualVoteReachesBoth`, `CapacityReturns`,
  `LocalVotesAreNotBlocked`, `SettlesOnBestBranch`), because fairness and `ENABLED`
  are out of the prover's reach.
* `RootIsFinal` across restarts, for the reason given with `ForkProofs`; the run
  `fork_switch`, which checks it, has none.

## 5. Not modelled

Left out of the modelled parts: signatures and hashes (a signature is the fact
that its owner signed), serialisation, Merkle roots over refs, logging and
metrics, the legacy fork database, read mode irreversible, vote results sent
back to the network, the order and the size limits of the transaction queue, and
the times at which tracked transactions are sent again.

Parts that are not modelled, and why:

* *Start from a snapshot, hard replay, and a shutdown requested during start.*
  A hard replay repairs the block log; what it finds depends on the file's bytes.
  `Restart` takes the block log as durable and the chain database as clean or
  not, as chainbase reports it; chainbase's source is not in this repository.
* *The transition from the legacy consensus* happens once in the life of a chain
  and would need a model of that consensus. All models start after it.
* *Execution of transactions, WebAssembly, resource limits, authorisation.*
  Contracts are arbitrary programs; a block is valid or not in the models. The
  limits are sequential arithmetic that unit tests reach.
* *The network plugin.* Its peers are what the other models leave open: blocks,
  votes and transactions come in any order, more than once or never. Its own
  sync state, over sockets and timers, is not checked.
* *The producer plugin's* schedule, deadlines and pause on missing votes, which
  depend on clocks; its handling of blocks and transactions is in `Transactions`.
* *Block log, snapshots, state history, trace API* are file formats and readers.
* *HTTP, wallets, serialisation, libraries and programs* are input, output and
  conversions of data.
