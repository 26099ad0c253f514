----------------------------- MODULE Scheduler ------------------------------
(***************************************************************************)
(* The scheduler at work on the single core: what the running thread calls *)
(* (kernel/sched.c, kernel/thread.c), what the tick interrupt does to it   *)
(* (kernel/sleep.c, kernel/kthread/kthread.c) and how the interrupt exit   *)
(* preempts it (arch/arm/lib/vectors.S, arch/arm/kernel/context.S).        *)
(*                                                                         *)
(* An interrupt may come between any two actions.  A call that takes the   *)
(* scheduler lock has at least two: spin_lock_irqsave takes the lock and   *)
(* only then masks interrupts, so between the two the lock is held and an  *)
(* interrupt may still come (pc = "window").  What spin_lock itself does   *)
(* step by step is module Locks.                                           *)
(***************************************************************************)
EXTENDS SchedTable

CONSTANTS
    Base,        \* THREAD_TID_BASE, the thread kthread_init creates
    UserTids,    \* the slots from THREAD_TID_START on
    AttrPrio,    \* the priority in the attributes each thread is created with
    DefaultPrio, \* THREAD_PROTY_DEFAULT
    LatePrio,    \* thread_set_priority on threads already registered
    Killers      \* the threads that suspend or kill by tid (the terminal's)

ASSUME ThreadsAssumption ==
    /\ Base \in Tids \ {Idle}
    /\ UserTids \subseteq Tids \ {Idle, Base}
    /\ AttrPrio \in [Tids -> Nat]
    /\ DefaultPrio \in Nat \ {0}
    /\ LatePrio \in SUBSET ((Tids \ {Idle}) \X Nat)
    /\ Killers \subseteq Tids

VARIABLES
    tab,         \* sgrt_scheduler_table
    ref,         \* thread_schedule_ref
    lock,        \* sgrt_scheduler_table.sgrt_lock is held
    preempt_cnt, \* g_sched_preempt_cnt
    pc,          \* where each thread is in its call into the scheduler
    call,        \* the operation of that call, its target or the slots to search
    fault        \* a null pointer was used: a context, or a thread's handler

vars == <<tab, ref, lock, preempt_cnt, pc, call, fault>>

Parking == {"park_suspend", "park_sleep"}
Selfish == {"suspend", "sleep"}
OnOther == Parking \cup {"wakeup"}
Ops     == Selfish \cup OnOther \cup {"unused", "register"}
Calls   == [op : Ops \cup {"none"}, tid : Tids, slots : SUBSET Tids]

Call(op, tid) == [op |-> op, tid |-> tid, slots |-> {}]
NoCall        == Call("none", Idle)

\* Where a thread has preemption off, and where not.
Creating == {"create", "alloc", "checked", "leave"}
Pinned   == Creating \cup {"window"}
Loose    == {"run", "compared", "resched"}

\* Slip: the count is not touched.
count_unchanged(n) == n

\* COUNT_INC and COUNT_DEC on g_sched_preempt_cnt.
preempt_disable(n) == n + 1
preempt_enable(n)  == IF n = 0 THEN 0 ELSE n - 1

\* thread_attr_revise takes priority 0 for "not set".
thread_attr_revise(priority) == IF priority = 0 THEN DefaultPrio ELSE priority

-----------------------------------------------------------------------------
\* start_kernel has registered the base thread and the idle thread.
EmptyTable ==
    [status    |-> [t \in Tids |-> "NONE"],
     to_status |-> [t \in Tids |-> "NONE"],
     prio      |-> [t \in Tids |-> 0],
     list      |-> [s \in Parked |-> << >>],
     work      |-> NoThread]

BootTable ==
    LET base == register_new_thread(EmptyTable, Base, thread_attr_revise(AttrPrio[Base]))
    IN  register_new_thread(base, Idle, thread_attr_revise(AttrPrio[Idle]))

Init ==
    /\ tab = BootTable
    /\ ref = 0
    /\ lock = FALSE
    /\ preempt_cnt = 0
    /\ pc = [t \in Tids |-> "run"]
    /\ call = [t \in Tids |-> NoCall]
    /\ fault = "none"

-----------------------------------------------------------------------------
(* What the running thread does.  The idle thread only spins. *)

Runs(t, at) == fault = "none" /\ tab.work = t /\ pc[t] = at

\* schedule_thread: preemption off, interrupts off, switch.  Without a
\* context it returns; with one, whoever runs next gives back the count.
schedule_thread(t, at) ==
    /\ Runs(t, at)
    /\ t # Idle
    /\ LET r == __schedule_thread(tab, ref)
       IN  tab' = r.tab
    /\ pc' = [pc EXCEPT ![t] = "run"]
    /\ UNCHANGED <<ref, lock, preempt_cnt, call, fault>>

\* The last statement of start_kernel, before any thread runs.
start_kernel ==
    /\ fault = "none"
    /\ ref = 0
    /\ LET r == __schedule_thread(tab, ref)
       IN  /\ tab' = r.tab
           /\ ref' = IF r.ok THEN 1 ELSE 0
    /\ UNCHANGED <<lock, preempt_cnt, pc, call, fault>>

\* spin_lock: spins while the lock is held, then counts and takes it.
spin_lock(t, at, c) ==
    /\ Runs(t, at)
    /\ t # Idle
    /\ ~lock
    /\ lock' = TRUE
    /\ preempt_cnt' = preempt_disable(preempt_cnt)
    /\ pc' = [pc EXCEPT ![t] = "window"]
    /\ call' = [call EXCEPT ![t] = c]
    /\ UNCHANGED <<tab, ref, fault>>

schedule_self_suspend(t) == spin_lock(t, "run", Call("suspend", t))
schedule_self_sleep(t)   == spin_lock(t, "run", Call("sleep", t))

\* Any tid: only what it is compared with is known of it, and that before the
\* lock is taken, with preemption on.
compare(t, self, other, u) ==
    /\ Runs(t, "run")
    /\ t \in Killers \ {Idle}
    /\ pc' = [pc EXCEPT ![t] = "compared"]
    /\ call' = [call EXCEPT ![t] = Call(IF u = t THEN self ELSE other, u)]
    /\ UNCHANGED <<tab, ref, lock, preempt_cnt, fault>>

schedule_thread_suspend(t, u) == compare(t, "suspend", "park_suspend", u)
schedule_thread_sleep(t, u)   == compare(t, "sleep", "park_sleep", u)

\* ... which the call it has chosen does next.
park(t) == spin_lock(t, "compared", call[t])

wakeup(t, u) == spin_lock(t, "run", Call("wakeup", u))

\* The locked part of a call, interrupts off, to spin_unlock_irqrestore.
Body(c) ==
    CASE c.op = "suspend"      -> __SET_THREAD_STATUS(tab, c.tid, "SUSPEND")
      [] c.op = "sleep"        -> __SET_THREAD_STATUS(tab, c.tid, "SLEEP")
      [] c.op = "park_suspend" -> schedule_thread_park(tab, c.tid, "SUSPEND").tab
      [] c.op = "park_sleep"   -> schedule_thread_park(tab, c.tid, "SLEEP").tab
      [] c.op = "wakeup"       -> schedule_thread_wakeup(tab, c.tid).tab
      [] c.op = "register"     ->
            register_new_thread(tab, c.tid, thread_attr_revise(AttrPrio[c.tid]))
      [] c.op = "unused"       -> tab

\* Back from the section with this place and call.
unlock(t, at, c) ==
    /\ Runs(t, "window")
    /\ tab' = Body(call[t])
    /\ lock' = FALSE
    /\ preempt_cnt' = preempt_enable(preempt_cnt)
    /\ pc' = [pc EXCEPT ![t] = at]
    /\ call' = [call EXCEPT ![t] = c]
    /\ UNCHANGED <<ref, fault>>

locked_section(t) ==
    \/ call[t].op \in Selfish   /\ unlock(t, "resched", NoCall)
    \/ call[t].op = "register"  /\ unlock(t, "leave", NoCall)
    \/ /\ call[t].op \in OnOther
       /\ call[t].tid \in registered(tab)
       /\ unlock(t, "run", NoCall)

\* The section does not ask whether there is a thread of that tid: it reads
\* or writes through a null handler, interrupts off and the lock held.
null_handler(t) ==
    /\ Runs(t, "window")
    /\ call[t].op \in OnOther
    /\ call[t].tid \notin registered(tab)
    /\ fault' = "handler"
    /\ UNCHANGED <<tab, ref, lock, preempt_cnt, pc, call>>

\* What comes of it is undefined; a data abort returns to the instruction
\* that caused it, so the model stays there.
exec_data_abort_handler == fault = "handler" /\ UNCHANGED vars

\* __thread_create: preemption goes off, a base inside the range is the only
\* candidate ...
thread_create(t, range, base) ==
    LET slots == IF base \in range THEN {base} ELSE range
    IN  /\ Runs(t, "run")
        /\ t # Idle
        /\ preempt_cnt' = preempt_disable(preempt_cnt)
        /\ pc' = [pc EXCEPT ![t] = "create"]
        /\ call' = [call EXCEPT ![t] = [Call("unused", Idle) EXCEPT !.slots = slots]]
        /\ UNCHANGED <<tab, ref, lock, fault>>

\* ... get_unused_tid_from_scheduler takes the lock ...
search_tid(t) == spin_lock(t, "create", call[t])

\* Slip: the error code of get_unused_tid_from_scheduler is taken for a tid.
found_tid_unchecked(t) ==
    /\ call[t].op = "unused"
    /\ unlock(t, "alloc",
              Call("register", get_unused_tid_from_scheduler(tab, call[t].slots)))

\* ... and finds a slot, or none: the creation fails.
found_tid(t) ==
    LET tid == get_unused_tid_from_scheduler(tab, call[t].slots)
    IN  /\ call[t].op = "unused"
        /\ \/ tid # NoThread /\ unlock(t, "alloc", Call("register", tid))
           \/ tid = NoThread /\ unlock(t, "leave", NoCall)

\* From one place of __thread_create to the next.
proceed(t, at, next, c) ==
    /\ Runs(t, at)
    /\ pc' = [pc EXCEPT ![t] = next]
    /\ call' = [call EXCEPT ![t] = c]
    /\ UNCHANGED <<tab, ref, lock, preempt_cnt, fault>>

\* Without memory for the thread the creation fails ...
thread_create_fail(t) == proceed(t, "alloc", "leave", NoCall)

\* ... as it does when register_new_thread finds the slot taken; the lock
\* comes after that look.
thread_register(t) ==
    IF call[t].tid \in registered(tab)
    THEN proceed(t, "alloc", "leave", NoCall)
    ELSE proceed(t, "alloc", "checked", call[t])

enter_tid(t) == spin_lock(t, "checked", call[t])

\* Slip: a creation that ends leaves preemption off.
leave_disabled(t) ==
    /\ Runs(t, "leave")
    /\ pc' = [pc EXCEPT ![t] = "run"]
    /\ UNCHANGED <<tab, ref, lock, preempt_cnt, call, fault>>

\* All ways through __thread_create give preemption back.
thread_create_end(t) ==
    /\ Runs(t, "leave")
    /\ preempt_cnt' = preempt_enable(preempt_cnt)
    /\ pc' = [pc EXCEPT ![t] = "run"]
    /\ UNCHANGED <<tab, ref, lock, call, fault>>

\* thread_set_priority after creation: the thread stays where it is queued.
thread_set_priority(t, u, priority) ==
    /\ Runs(t, "run")
    /\ t # Idle
    /\ u \in registered(tab)
    /\ tab' = [tab EXCEPT !.prio = [@ EXCEPT ![u] = priority]]
    /\ UNCHANGED <<ref, lock, preempt_cnt, pc, call, fault>>

-----------------------------------------------------------------------------
(* The tick interrupt. *)

\* Slip: the time-out wakes whatever it finds.
timeout_wakes_all(tb, u) == IF lock THEN tb ELSE schedule_thread_wakeup(tb, u).tab

\* The time-out of a sleep: gives up when the lock is held.
thread_sleep_timeout(tb, u) ==
    IF lock \/ tb.status[u] # "SUSPEND"
    THEN tb
    ELSE schedule_thread_wakeup(tb, u).tab

\* Slips: the ready list, or the priorities, are not looked at.
timeout_unchecked(tb)    == TRUE
timeout_any_priority(tb) == tb.list["READY"] # << >>

\* The preemption timer with the slice used up: is somebody at least as
\* important ready?
kthread_schedule_timeout(tb) ==
    LET ready == tb.list["READY"]
    IN  ready # << >> /\ tb.prio[Head(ready)] <= tb.prio[tb.work]

\* Slip: the preemption count is not looked at.
irq_exit_always(tb, flag) ==
    LET r == __schedule_thread(tb, ref)
    IN  IF flag
        THEN tab' = r.tab /\ fault' = IF r.ok THEN fault ELSE "context"
        ELSE tab' = tb /\ UNCHANGED fault

\* _irq_handler and __schedule_before: the flag is cleared even when
\* preemption is off, and a null context is used without a look.
irq_exit(tb, flag) ==
    LET r == __schedule_thread(tb, ref)
    IN  IF flag /\ preempt_cnt = 0
        THEN tab' = r.tab /\ fault' = IF r.ok THEN fault ELSE "context"
        ELSE tab' = tb /\ UNCHANGED fault

\* One tick: at most one sleeper's timer has expired (u, or NoThread), and
\* the preemption timer has not, or is before or behind it in the list.
systick_isr(u, check) ==
    LET woken == IF u = NoThread THEN tab ELSE thread_sleep_timeout(tab, u)
        flag  == CASE check = "first" -> kthread_schedule_timeout(tab)
                   [] check = "last"  -> kthread_schedule_timeout(woken)
                   [] check = "none"  -> FALSE
    IN  /\ fault = "none"
        /\ tab.work # NoThread
        /\ irq_exit(woken, flag)
        /\ UNCHANGED <<ref, lock, preempt_cnt, pc, call>>

-----------------------------------------------------------------------------
Thread(t) ==
    \/ schedule_thread(t, "run")
    \/ schedule_thread(t, "resched")
    \/ schedule_self_suspend(t)
    \/ schedule_self_sleep(t)
    \/ \E u \in Tids : schedule_thread_suspend(t, u)
    \/ \E u \in Tids : schedule_thread_sleep(t, u)
    \/ park(t)
    \/ \E u \in Tids : wakeup(t, u)
    \/ locked_section(t)
    \/ null_handler(t)
    \/ \E range \in {UserTids, Tids \ UserTids}, base \in Tids \cup {NoThread} :
            thread_create(t, range, base)
    \/ search_tid(t)
    \/ found_tid(t)
    \/ thread_register(t)
    \/ thread_create_fail(t)
    \/ enter_tid(t)
    \/ thread_create_end(t)
    \/ \E lp \in LatePrio : thread_set_priority(t, lp[1], lp[2])

Tick ==
    \E u \in Tids \cup {NoThread}, check \in {"none", "first", "last"} :
        systick_isr(u, check)

Next ==
    \/ start_kernel
    \/ Tick
    \/ \E t \in Tids : Thread(t)
    \/ exec_data_abort_handler

Spec == Init /\ [][Next]_vars

\* The running thread goes on with the call it is in (weak fairness), and
\* the preemption timer, armed again after every slice, keeps expiring at
\* moments when preemption is on (strong fairness).  The fairness formulas
\* are written out with the condition that enables each action.
InCall == fault = "none" /\ \E t \in Tids : tab.work = t /\ pc[t] # "run"

FinishCall ==
    \E t \in Tids : \/ schedule_thread(t, "resched")
                   \/ park(t) \/ locked_section(t) \/ null_handler(t)
                   \/ search_tid(t) \/ found_tid(t)
                   \/ thread_register(t) \/ thread_create_fail(t) \/ enter_tid(t)
                   \/ thread_create_end(t)

SwitchDue ==
    /\ fault = "none"
    /\ preempt_cnt = 0
    /\ tab.work # NoThread
    /\ kthread_schedule_timeout(tab)

PreemptingTick ==
    SwitchDue /\ \E u \in Tids \cup {NoThread} : systick_isr(u, "last")

Fairness ==
    /\ <>(ref = 1)
    /\ []<>(~InCall)      \/ []<><<FinishCall>>_vars
    /\ <>[](~SwitchDue)   \/ []<><<PreemptingTick>>_vars

FairSpec == Spec /\ Fairness
-----------------------------------------------------------------------------
(* Properties. *)

\* The variables have the types of the C objects they stand for.
TypeOK ==
    /\ tab \in Table
    /\ ref \in {0, 1}
    /\ lock \in BOOLEAN
    /\ preempt_cnt \in Nat
    /\ pc \in [Tids -> Loose \cup Pinned]
    /\ call \in [Tids -> Calls]
    /\ fault \in {"none", "context", "handler"}

\* A thread is on the list its status names, once, and on no other; the
\* running thread is the one sprt_work points at.  This is what lets
\* schedule_thread_switch detach by status alone.
PlaceMatchesStatus == InPlace(tab)

\* "It is necessary to ensure that at least one thread (including idle
\* threads) is running": after the first switch somebody runs, and the idle
\* thread is never parked anywhere but on the ready list.
SomebodyRuns ==
    /\ ref = 1 => tab.work # NoThread
    /\ tab.status[Idle] \in {"READY", "RUNNING"}

\* The interrupt exit uses the context of __schedule_thread without testing
\* it: it must never be null there.
NoNullContext == fault # "context"

\* A status is asked for and not yet taken (to_status) only by the running
\* thread, between schedule_self_suspend or _sleep and the switch, and never
\* by the idle thread: nobody is switched on a request somebody else left.
RequestsOfRunning ==
    \A t \in Tids : tab.to_status[t] # "NONE" =>
        /\ tab.work = t
        /\ t # Idle
        /\ tab.to_status[t] \in {"SUSPEND", "SLEEP"}

\* A thread is never switched out while it holds the scheduler lock or
\* creates a thread.
SwitchedOutClean ==
    /\ \A t \in Tids : pc[t] \in Pinned => tab.work = t
    /\ lock <=> \E t \in Tids : pc[t] = "window"

\* Preemption is off exactly as deep as the running thread's calls are: all
\* ways through them give back what they took, the failures of
\* __thread_create included.
PreemptBalanced ==
    /\ \A t \in Tids :
        /\ pc[t] \in Creating => preempt_cnt = 1
        /\ pc[t] = "window" =>
              preempt_cnt = IF call[t].op \in {"unused", "register"} THEN 2 ELSE 1
    /\ (\A t \in Tids : pc[t] \in Loose) => preempt_cnt = 0

\* What was looked up before the lock was taken still holds under it: the
\* tid __thread_create has chosen is free until it is registered, and a
\* thread that schedule_thread_suspend or _sleep has found not to be running
\* is not running when its status is changed, though preemption was on.
LookupsStayValid ==
    \A t \in Tids : LET c == call[t] IN
        /\ c.op = "register" => tab.status[c.tid] = "NONE"
        /\ pc[t] = "window" /\ c.op \in Parking => tab.status[c.tid] # "RUNNING"

\* "every thread will be sorted by priority" (__schedule_add_status_list).
ListsSorted ==
    \A s \in Parked : \A i, j \in 1..Len(tab.list[s]) :
        i < j => tab.prio[tab.list[s][i]] <= tab.prio[tab.list[s][j]]

\* An interrupt never takes the processor from a thread to give it to one
\* of lower priority.
PreemptionNeverDemotes ==
    [][Tick /\ tab'.work # tab.work
          => tab.prio[tab'.work] <= tab.prio[tab.work]]_vars

Before(tb, a, b) ==
    LET l == tb.list["READY"]
    IN  \E i, j \in 1..Len(l) : i < j /\ l[i] = a /\ l[j] = b

\* Of two ready threads of one priority the one that became ready first is
\* first: a newcomer goes behind its equals, and nobody overtakes.
FifoAmongEquals ==
    [][\A a, b \in Tids :
          /\ tab.status[a] = "READY"
          /\ tab.status[b] = "READY" => Before(tab, a, b)
          /\ {tab'.status[a], tab'.status[b]} = {"READY"}
          /\ tab'.prio[a] = tab'.prio[b]
          /\ a # b
          => Before(tab', a, b)]_vars

\* "sleep ---> ready/suspend (need to be awaked by another thread)": no
\* tick takes a killed thread out of the sleep list.  (fwk_netif_rx, which
\* does, is called by the thread that sends: it is an action wakeup.)
TickNeverRevivesKilled ==
    [][Tick => \A t \in Tids : tab.status[t] = "SLEEP" => tab'.status[t] = "SLEEP"]_vars

\* The ready threads to which no ready or running thread is superior.
TopReady ==
    {t \in Tids : /\ tab.status[t] = "READY"
                  /\ \A u \in Tids : tab.status[u] \in {"READY", "RUNNING"}
                                        => tab.prio[t] <= tab.prio[u]}

\* Such a thread gets the processor, or stops being one, or everything has
\* stopped on a null handler: the preemption timer, as long as it keeps
\* expiring, and the first-come order keep its equals from running for ever.
TopNotStarved ==
    \A t \in Tids : t \in TopReady ~> t \notin TopReady \/ fault # "none"

\* The scheduler does to the threads' states only what ThreadStates allows,
\* the transitions of the comment in schedule_thread_switch.
Abstract == INSTANCE ThreadStates WITH st <- tab.status
ImplementsThreadStates == Abstract!Spec

\* include/kernel/kernel.h: "status move: ready ---> running; running --->
\* ready/suspend/sleep; suspend ---> ready; sleep ---> ready/suspend".  A new
\* thread becomes ready, and an interrupt may wake a thread and switch to it.
StatusMoves ==
    {<<"READY", "RUNNING">>, <<"RUNNING", "READY">>, <<"RUNNING", "SUSPEND">>,
     <<"RUNNING", "SLEEP">>, <<"SUSPEND", "READY">>, <<"SLEEP", "READY">>,
     <<"SLEEP", "SUSPEND">>, <<"NONE", "READY">>, <<"SUSPEND", "RUNNING">>}

MovesAsDocumented ==
    [][\A t \in Tids : LET from == tab.status[t]
                           to   == tab'.status[t]
                       IN  from # to => <<from, to>> \in StatusMoves]_vars

\* include/kernel/thread.h: "kernel thread requires higher priority (0 ~ 19)";
\* the base thread is created with priority 0.
KernelThreadPriority == tab.prio[Base] \in 0..19
=============================================================================
