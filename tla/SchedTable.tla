----------------------------- MODULE SchedTable -----------------------------
(***************************************************************************)
(* The scheduler table of kernel/sched.c (struct scheduler_table) and the  *)
(* functions that transform it.  Every operator named after a C function   *)
(* takes the table before the call and yields the table after it; where    *)
(* the caller looks at the return value it yields a record with the new    *)
(* table and the outcome.  The callers run with interrupts off, so each    *)
(* call is one indivisible transformation; module Scheduler says when the  *)
(* calls happen.                                                           *)
(***************************************************************************)
EXTENDS Integers, Sequences, SequencesExt

CONSTANTS
    Tids,       \* the slots of sprt_tid_array
    Idle,       \* THREAD_TID_IDLE
    NoThread    \* the null pointer in sprt_work

ASSUME TidsAssumption ==
    /\ Tids \subseteq Nat
    /\ Idle \in Tids
    /\ NoThread \notin Tids

\* enum __ERT_THREAD_BASIC_STATUS; NONE is also the status of a free slot.
Parked == {"READY", "SUSPEND", "SLEEP"}
Status == {"NONE", "RUNNING"} \cup Parked

Table == [status    : [Tids -> Status],
          to_status : [Tids -> Status],
          prio      : [Tids -> Nat],
          list      : [Parked -> Seq(Tids)],
          work      : Tids \cup {NoThread}]

\* The slots whose handler is not null.
registered(tab) == {t \in Tids : tab.status[t] # "NONE"}

\* What the table has to satisfy between two calls: a thread is on the list
\* its status names, once, and on no other, and the running thread is the
\* one sprt_work points at.
InPlace(tab) ==
    /\ \A s \in Parked :
        /\ \A i, j \in 1..Len(tab.list[s]) :
                tab.list[s][i] = tab.list[s][j] => i = j
        /\ \A t \in Tids : tab.status[t] = s <=> Contains(tab.list[s], t)
    /\ \A t \in Tids : tab.status[t] = "RUNNING" <=> tab.work = t

-----------------------------------------------------------------------------
(* The status macros. *)

__SET_THREAD_STATUS(tab, tid, s) ==
    [tab EXCEPT !.to_status = [@ EXCEPT ![tid] = s]]

\* Slip: the request is left standing.
sync_keeps_request(tab, tid, s) ==
    [tab EXCEPT !.status = [@ EXCEPT ![tid] = s]]

__SYNC_THREAD_STATUS(tab, tid, s) ==
    [tab EXCEPT !.status    = [@ EXCEPT ![tid] = s],
                !.to_status = [@ EXCEPT ![tid] = "NONE"]]

-----------------------------------------------------------------------------
(* The status lists, kept from the highest priority (lowest number) down. *)

Relist(tab, s, l) == [tab EXCEPT !.list = [@ EXCEPT ![s] = l]]

\* Slip: CONFIG_ROLL_POLL's tail insertion.
add_to_tail(tab, tid, s) ==
    IF Contains(tab.list[s], tid) THEN tab
    ELSE Relist(tab, s, Append(tab.list[s], tid))

\* Slip: the thread goes before its equals.
add_before_equals(tab, tid, s) ==
    LET l == tab.list[s]
        k == SelectLastInSeq(l, LAMBDA u : tab.prio[u] < tab.prio[tid])
    IN  IF Contains(l, tid) THEN tab ELSE Relist(tab, s, InsertAt(l, k + 1, tid))

\* The scan runs from the tail to the first entry that is not of lower
\* priority; the thread goes behind it, or to the head when there is none.
__schedule_add_status_list(tab, tid, s) ==
    LET l == tab.list[s]
        k == SelectLastInSeq(l, LAMBDA u : tab.prio[u] <= tab.prio[tid])
    IN  IF Contains(l, tid)
        THEN tab
        ELSE Relist(tab, s, InsertAt(l, k + 1, tid))

\* Slip: the link is not unlinked.
del_nothing(tab, tid, s) == tab

__schedule_del_status_list(tab, tid, s) ==
    Relist(tab, s, RemoveFirst(tab.list[s], tid))

Ok(tab)   == [tab |-> tab, ok |-> TRUE]
Fail(tab) == [tab |-> tab, ok |-> FALSE]

\* schedule_add_{ready,suspend,sleep}_list: refuse a thread already there.
schedule_add_list(tab, tid, s) ==
    IF tab.status[tid] = s
    THEN Fail(tab)
    ELSE Ok(__schedule_add_status_list(tab, tid, s))

\* schedule_detach_{ready,suspend,sleep}_list: only from the thread's status.
schedule_detach_list(tab, tid, s) ==
    IF tab.status[tid] = s
    THEN __schedule_del_status_list(tab, tid, s)
    ELSE tab

-----------------------------------------------------------------------------
(* Handing over the processor. *)

\* READY ---> RUNNING; a thread that was running goes back to the ready list.
schedule_despoil_work_role(tab, tid) ==
    LET run == tab.work
        add == schedule_add_list(tab, run, "READY")
    IN  IF tab.status[tid] # "READY" THEN Fail(tab)
        ELSE IF run = NoThread       THEN Ok([tab EXCEPT !.work = tid])
        ELSE IF ~add.ok              THEN Fail(tab)
        ELSE Ok([__SYNC_THREAD_STATUS(add.tab, run, "READY") EXCEPT !.work = tid])

\* Slip: the next thread's status is not updated.
reinstall_without_sync(tab, tid) ==
    LET ready == tab.list["READY"]
        next  == Head(ready)
    IN  IF tid # tab.work \/ ready = << >>
        THEN Fail(tab)
        ELSE Ok([schedule_detach_list(tab, next, "READY") EXCEPT !.work = next])

\* RUNNING ---> xxx; the first ready thread takes the processor.
schedule_reinstall_work_role(tab, tid) ==
    LET ready == tab.list["READY"]
        next  == Head(ready)
        det   == schedule_detach_list(tab, next, "READY")
    IN  IF tid # tab.work \/ ready = << >>
        THEN Fail(tab)
        ELSE Ok(__SYNC_THREAD_STATUS([det EXCEPT !.work = next], next, "RUNNING"))

\* Detach from the place src names ...
switch_from(tab, tid, src) ==
    CASE src = "RUNNING" -> schedule_reinstall_work_role(tab, tid)
      [] src \in Parked  -> Ok(schedule_detach_list(tab, tid, src))
      [] OTHER           -> Ok(tab)

\* ... and attach to the place dst names.
switch_to(tab, tid, dst) ==
    CASE dst = "RUNNING" -> schedule_despoil_work_role(tab, tid)
      [] dst \in Parked  -> schedule_add_list(tab, tid, dst)
      [] OTHER           -> Fail(tab)

\* Slip: the idle thread is treated like any other.
switch_idle_too(tab, tid) ==
    LET src  == tab.status[tid]
        dst  == tab.to_status[tid]
        from == switch_from(tab, tid, src)
        to   == switch_to(from.tab, tid, dst)
    IN  IF src = dst \/ ~from.ok
        THEN Fail(__SYNC_THREAD_STATUS(tab, tid, src))
        ELSE Ok(__SYNC_THREAD_STATUS(to.tab, tid, dst))

schedule_thread_switch(tab, tid) ==
    LET src  == tab.status[tid]
        dst  == tab.to_status[tid]
        from == switch_from(tab, tid, src)
        to   == switch_to(from.tab, tid, dst)
        fail(t) == Fail(__SYNC_THREAD_STATUS(t, tid, src))
    IN  IF src = dst \/ (tid = Idle /\ dst \notin {"RUNNING", "READY"})
             THEN fail(tab)
        ELSE IF ~from.ok
             THEN fail(tab)
        ELSE IF ~to.ok \/ to.tab.work = NoThread
             THEN fail(to.tab)
        ELSE Ok(__SYNC_THREAD_STATUS(to.tab, tid, dst))

-----------------------------------------------------------------------------
(* The entry points. *)

\* schedule_thread_suspend and schedule_thread_sleep on another thread.
schedule_thread_park(tab, tid, s) ==
    schedule_thread_switch(__SET_THREAD_STATUS(tab, tid, s), tid)

schedule_thread_wakeup(tab, tid) ==
    IF tab.status[tid] \notin {"SUSPEND", "SLEEP"}
    THEN Fail(tab)
    ELSE schedule_thread_switch(__SET_THREAD_STATUS(tab, tid, "READY"), tid)

\* The first free slot of the range; NoThread stands for -ER_MORE.
get_unused_tid_from_scheduler(tab, range) ==
    LET free == {t \in range : tab.status[t] = "NONE"}
    IN  IF free = {} THEN NoThread
        ELSE CHOOSE t \in free : \A u \in free : t <= u

\* register_new_thread under the lock, for a slot it has found free.
register_new_thread(tab, tid, priority) ==
    LET new == [tab EXCEPT !.prio = [@ EXCEPT ![tid] = priority]]
        add == schedule_add_list(new, tid, "READY")
    IN  __SYNC_THREAD_STATUS(add.tab, tid, "READY")

\* __schedule_thread: the outcome says whether there is a context to switch
\* to; ref is thread_schedule_ref, 0 until the first switch.
__schedule_thread(tab, ref) ==
    LET ready == tab.list["READY"]
        first == tab.work = NoThread
        prev  == IF first THEN Head(ready) ELSE tab.work
        want  == IF first THEN "RUNNING"
                 ELSE IF tab.to_status[prev] = "NONE" THEN "READY"
                 ELSE tab.to_status[prev]
    IN  IF ready = << >> \/ (first /\ ref # 0)
        THEN Fail(tab)
        ELSE schedule_thread_switch(__SET_THREAD_STATUS(tab, prev, want), prev)
=============================================================================
