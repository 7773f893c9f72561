---------------------------- MODULE UnappliedQueue ----------------------------
(***************************************************************************)
(* unapplied_transaction_queue: the transactions that are to be executed   *)
(* again, with the reason.  A queue is a function from the transactions in *)
(* it; the queue is unique by transaction, so an insertion of one that is  *)
(* in it changes nothing.                                                  *)
(***************************************************************************)
EmptyQueue == <<>>

\* The insertions of the index by_trx_id.
Insert(queue, trxs, type) ==
  [t \in DOMAIN queue \cup trxs |-> IF t \in DOMAIN queue THEN queue[t] ELSE type]

Erase(queue, trxs) == [t \in DOMAIN queue \ trxs |-> queue[t]]

add_forked(queue, trxs) == Insert(queue, trxs, "forked")

\* Mutant: what was executed in an aborted block is left out.
Mut_add_aborted(queue, trxs) == queue

add_aborted(queue, trxs) == Insert(queue, trxs, "aborted")

add_incoming(queue, t) == Insert(queue, {t}, "incoming")

clear_applied(queue, trxs) == Erase(queue, trxs)

\* Expired ones are removed from the front of by_expiry, until yield interrupts.
clear_expired(queue, trxs) == Erase(queue, trxs)

\* process_unapplied_trxs and process_incoming_trxs: an executed or failed
\* transaction leaves the queue, one that did not fit stays.
Processable(queue, producing) ==
  {t \in DOMAIN queue : queue[t] = "incoming" \/ producing}
===============================================================================
