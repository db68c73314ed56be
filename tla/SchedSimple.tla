---------------------------- MODULE SchedSimple ----------------------------
(***************************************************************************)
(* The ready list of src/core/sched_simple.c, shared by both architectures. *)
(* A list is the sequence of its tasks, head first; prio and affinity map a *)
(* task to its fields.  Every operator below stands for what the C function *)
(* does while it holds g_sched_lock, so a caller uses it in one step.       *)
(*                                                                         *)
(* The list positions are described rather than computed: a caller picks    *)
(* the (only) index that satisfies the description.                         *)
(***************************************************************************)
EXTENDS Integers, Sequences, SequencesExt

AnyCpu == -1     \* pcpu_affinity of a task that is not pinned

(* __insert_task_sorted: i is the position in front of the first task with  *)
(* a strictly greater priority number, or the end of the list.              *)
IsInsertPos(list, prio, t, i) ==
    /\ \A j \in 1..(i - 1) : prio[list[j]] <= prio[t]
    /\ i <= Len(list) => prio[t] < prio[list[i]]

(* simple_scheduler_sched's list update: newList is list with t inserted.   *)
Insert(list, prio, t, newList) ==
    \E i \in 1..(Len(list) + 1) :
        /\ IsInsertPos(list, prio, t, i)
        /\ newList = InsertAt(list, i, t)

(* May pCPU c run t?                                                        *)
Eligible(affinity, t, c) == affinity[t] \in {AnyCpu, c}

(* list[i] is the first task pCPU c may run.                                *)
IsFirstEligible(list, affinity, c, i) ==
    /\ Eligible(affinity, list[i], c)
    /\ \A j \in 1..(i - 1) : ~Eligible(affinity, list[j], c)

(* simple_scheduler_next_no_publish extracts list[i] for a pCPU c whose     *)
(* current task is running (none when running = noTask).                    *)
IsNext(list, prio, affinity, c, running, noTask, i) ==
    /\ IsFirstEligible(list, affinity, c, i)
    /\ running # noTask => prio[list[i]] <= prio[running]

(* ... and returns NULL when no index qualifies.                            *)
NoNext(list, prio, affinity, c, running, noTask) ==
    \A i \in 1..Len(list) : ~IsNext(list, prio, affinity, c, running, noTask, i)
=============================================================================
