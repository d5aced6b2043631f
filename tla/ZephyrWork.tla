----------------------------- MODULE ZephyrWork -----------------------------
(***************************************************************************)
(* The flags of a Zephyr (delayable) work item and what the kernel calls   *)
(* of src/src do to them.  A flag set is a subset of Flags:                *)
(*   "delayed"    its timer is running                                     *)
(*   "queued"     it is on a work queue                                    *)
(*   "running"    its handler is running                                   *)
(*   "canceling"  it was cancelled while its handler was running           *)
(* The kernel is not part of the repository: these are the semantics the   *)
(* code in src/src relies on.                                              *)
(***************************************************************************)
EXTENDS Naturals, Sequences

Flags == {"delayed", "queued", "running", "canceling"}

\* k_work_delayable_is_pending(): anything at all, a running handler included.
IsPending(flags) == flags # {}

\* k_work_submit_to_queue(): refused while a cancellation is in progress.
Submit(flags) == IF "canceling" \in flags THEN flags ELSE flags \cup {"queued"}

\* k_work_schedule(_for_queue) with a delay: no effect on an item that is
\* delayed, queued or being cancelled.
CanSchedule(flags) == flags \subseteq {"running"}
Schedule(flags) == IF CanSchedule(flags) THEN flags \cup {"delayed"} ELSE flags

\* The delay is over.
Expire(flags) == Submit(flags \ {"delayed"})

\* k_work_cancel_delayable(): a running handler is not stopped, the item is
\* only marked until that handler returns.
Cancel(flags) ==
    IF "running" \in flags THEN {"running", "canceling"} ELSE {}

\* ... and a queued item leaves its queue, which holds it at most once.
Without(queue, item) ==
    IF \A i \in DOMAIN queue : queue[i] # item THEN queue
    ELSE LET k == CHOOSE i \in DOMAIN queue : queue[i] = item
         IN  [i \in 1 .. Len(queue) - 1 |-> IF i < k THEN queue[i] ELSE queue[i + 1]]

\* The work queue's thread takes the item and later returns from its handler.
Run(flags) == (flags \ {"queued"}) \cup {"running"}
Return(flags) == flags \ {"running", "canceling"}

=============================================================================
