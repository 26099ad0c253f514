---------------------------- MODULE SleepTimers -----------------------------
(***************************************************************************)
(* Time: the tick counter and the timer list (common/generic/time.c,       *)
(* include/common/time.h), the delays built on them (kernel/sleep.c), the  *)
(* time slices and the preemption timer (kernel/kthread/kthread.c), on top *)
(* of the scheduler table.  The base thread and the workers call           *)
(* schedule_delay for ever; a worker may also compute, yield or wake       *)
(* another thread up before its time, as the terminal's kill does.         *)
(*                                                                         *)
(* jiffies is a word: it wraps from JIFFIES_MAX to 0, and so do the sums   *)
(* the code makes with it.  Preemption is off exactly while the scheduler  *)
(* lock is held (module Scheduler), so the lock stands for both.           *)
(***************************************************************************)
EXTENDS SchedTable

CONSTANTS
    Base,         \* the thread running kthread_entry
    Prio,         \* each thread's priority
    JIFFIES_MAX,  \* the largest tick count
    INITVAL,      \* JIFFIES_INITVAL
    Period,       \* msecs_to_jiffies(THREAD_PREEMPT_PERIOD)
    Margin,       \* THREAD_PREEMPT_PERIOD itself, compared with jiffies
    Slice,        \* msecs_to_jiffies of the time slice
    Delays,       \* the lengths of the delays asked for, in jiffies
    Wakers        \* the threads that wake others by tid

ASSUME TimeAssumption ==
    /\ Base \in Tids \ {Idle}
    /\ Prio \in [Tids -> Nat]
    /\ JIFFIES_MAX \in Nat
    /\ INITVAL \in 0..JIFFIES_MAX
    /\ {Period, Margin, Slice} \cup Delays \subseteq 1..JIFFIES_MAX
    /\ Wakers \subseteq Tids \ {Idle, Base}

VARIABLES
    tab,      \* sgrt_scheduler_table
    lock,     \* its lock is held
    jiffies,
    timers,   \* sgrt_global_timer_list
    expires,  \* of each timer, 0 when it is not set
    count,    \* the sum of jiffies and a length each thread works with
    slice,    \* the running thread's expires, loaded when it is switched in
    pc,       \* where each thread is in schedule_delay and schedule_timeout
    due       \* history: the ticks of its delay still to come

vars == <<tab, lock, jiffies, timers, expires, count, slice, pc, due>>

\* The timers: one on the stack of every sleeper, and the preemption timer.
KTimer == NoThread
Timers == Tids \cup {KTimer}
Time   == 0..JIFFIES_MAX

\* Where kutime_t sums wrap.
Plus(j, n) == (j + n) % (JIFFIES_MAX + 1)

mrt_time_after(a, b) == a > b

-----------------------------------------------------------------------------
\* The first switch has been made and the workers have been created.
BootTable ==
    LET reg(tb, t) == register_new_thread(tb, t, Prio[t])
        none == [status    |-> [t \in Tids |-> "NONE"],
                 to_status |-> [t \in Tids |-> "NONE"],
                 prio      |-> Prio,
                 list      |-> [s \in Parked |-> << >>],
                 work      |-> NoThread]
        base == __schedule_thread(reg(reg(none, Base), Idle), 0).tab
    IN  FoldSet(LAMBDA t, tb : reg(tb, t), base, Tids \ {Base, Idle})

Init ==
    /\ tab = BootTable
    /\ lock = FALSE
    /\ jiffies = INITVAL
    /\ timers = << >>
    /\ expires = [m \in Timers |-> 0]
    /\ count = [t \in Tids |-> 0]
    /\ slice = Plus(INITVAL, Slice)
    /\ pc = [t \in Tids |-> "run"]
    /\ due = [t \in Tids |-> 0]

-----------------------------------------------------------------------------
(* The timer list. *)

\* mod_timer: the list after it; a timer already linked stays where it is.
mod_timer(l, m, e) == IF Contains(l, m) \/ e = 0 THEN l ELSE Append(l, m)

\* Slip: the timer stays on the list.
del_timer_late(l, m) == l

del_timer(l, m) == RemoveFirst(l, m)

-----------------------------------------------------------------------------
(* What the running thread does. *)

Runs(t, at) == tab.work = t /\ pc[t] = at
Goto(t, at) == pc' = [pc EXCEPT ![t] = at]

\* __thread_init_before: whoever gets the processor gets a new slice.
SwitchTo(r, j, sl) ==
    /\ tab' = r.tab
    /\ slice' = IF r.ok THEN Plus(j, Slice) ELSE sl

schedule_thread(t, at, next) ==
    /\ Runs(t, at)
    /\ t # Idle
    /\ SwitchTo(__schedule_thread(tab, 1), jiffies, slice)
    /\ Goto(t, next)
    /\ UNCHANGED <<lock, jiffies, timers, expires, count, due>>

\* kthread_entry's loop: when the preemption timer stands still the time for
\* it is computed, with interrupts on ...
kthread_entry ==
    /\ Runs(Base, "run")
    /\ IF expires[KTimer] = 0
       THEN count' = [count EXCEPT ![Base] = Plus(jiffies, Period)] /\ Goto(Base, "start")
       ELSE UNCHANGED count /\ Goto(Base, "delay")
    /\ UNCHANGED <<tab, lock, jiffies, timers, expires, slice, due>>

\* ... and then set.
start_timer ==
    /\ Runs(Base, "start")
    /\ expires' = [expires EXCEPT ![KTimer] = count[Base]]
    /\ timers' = mod_timer(timers, KTimer, count[Base])
    /\ count' = [count EXCEPT ![Base] = 0]
    /\ Goto(Base, "delay")
    /\ UNCHANGED <<tab, lock, jiffies, slice, due>>

\* schedule_delay, _ms and _us: the end of the delay is computed ...
schedule_delay(t, n) ==
    /\ t # Idle
    /\ Runs(t, IF t = Base THEN "delay" ELSE "run")
    /\ count' = [count EXCEPT ![t] = Plus(jiffies, n)]
    /\ due' = [due EXCEPT ![t] = n]
    /\ Goto(t, "counted")
    /\ UNCHANGED <<tab, lock, jiffies, timers, expires, slice>>

\* ... and the thread sleeps if that still lies ahead.
time_after_test(t) ==
    /\ Runs(t, "counted")
    /\ IF mrt_time_after(count[t], jiffies)
       THEN UNCHANGED count /\ Goto(t, "timeout")
       ELSE count' = [count EXCEPT ![t] = 0] /\ Goto(t, "run")
    /\ UNCHANGED <<tab, lock, jiffies, timers, expires, slice, due>>

\* spin_lock, before the interrupts are masked.
spin_lock(t, at, next) ==
    /\ Runs(t, at)
    /\ ~lock
    /\ lock' = TRUE
    /\ Goto(t, next)
    /\ UNCHANGED <<tab, jiffies, timers, expires, count, slice, due>>

\* schedule_timeout, first locked section: the timer goes on the list.
arm_timer(t) ==
    /\ Runs(t, "arm")
    /\ lock' = FALSE
    /\ expires' = [expires EXCEPT ![t] = count[t]]
    /\ timers' = mod_timer(timers, t, count[t])
    /\ count' = [count EXCEPT ![t] = 0]
    /\ Goto(t, "armed")
    /\ UNCHANGED <<tab, jiffies, slice, due>>

\* schedule_self_suspend, its locked section.
schedule_self_suspend(t) ==
    /\ Runs(t, "request")
    /\ lock' = FALSE
    /\ tab' = __SET_THREAD_STATUS(tab, t, "SUSPEND")
    /\ Goto(t, "resched")
    /\ UNCHANGED <<jiffies, timers, expires, count, slice, due>>

\* schedule_timeout, last locked section: the timer leaves the stack.
disarm_timer(t) ==
    /\ Runs(t, "disarm")
    /\ lock' = FALSE
    /\ timers' = del_timer(timers, t)
    /\ expires' = [expires EXCEPT ![t] = 0]
    /\ Goto(t, "run")
    /\ UNCHANGED <<tab, jiffies, count, slice, due>>

\* schedule_thread_wakeup by a running thread, its locked section: a sleeper
\* that it finds comes back now, with its timer still on the list.
wakeup(t, u) ==
    /\ Runs(t, "wake")
    /\ lock' = FALSE
    /\ tab' = schedule_thread_wakeup(tab, u).tab
    /\ due' = IF tab.status[u] = "SUSPEND" THEN [due EXCEPT ![u] = 0] ELSE due
    /\ Goto(t, "run")
    /\ UNCHANGED <<jiffies, timers, expires, count, slice>>

-----------------------------------------------------------------------------
(* The tick interrupt.  A tick works on the record of what it changes. *)

\* Slip: a time-out that finds the lock held takes its timer off.
timeout_once(s, t) ==
    IF lock \/ s.tab.status[t] # "SUSPEND"
    THEN [s EXCEPT !.expires = [@ EXCEPT ![t] = 0]]
    ELSE [s EXCEPT !.tab = schedule_thread_wakeup(@, t).tab]

\* The timer stays on the list: a wake-up that could not be made now is
\* tried again on the next tick.
thread_sleep_timeout(s, t) ==
    IF lock \/ s.tab.status[t] # "SUSPEND"
    THEN s
    ELSE [s EXCEPT !.tab = schedule_thread_wakeup(@, t).tab]

\* Slip: the timer is not started again.
timeout_no_restart(s, j) == s

kthread_schedule_timeout(s, j) ==
    LET work  == s.tab.work
        ready == s.tab.list["READY"]
        again == [s EXCEPT !.expires = [@ EXCEPT ![KTimer] = Plus(j, Period)]]
    IN  IF mrt_time_after(s.slice, j)
        THEN again
        ELSE [again EXCEPT
                !.slice = IF JIFFIES_MAX - j <= Margin THEN 0 ELSE j,
                !.flag  = @ \/ (ready # << >> /\ s.tab.prio[Head(ready)] <= s.tab.prio[work])]

\* Slip: an expiry time is not compared with the counter.
timer_event_unchecked(s, j) ==
    FoldLeft(LAMBDA r, m : IF r.expires[m] = 0 THEN r
                           ELSE IF m = KTimer THEN kthread_schedule_timeout(r, j)
                           ELSE thread_sleep_timeout(r, m), s, timers)

do_timer_event(s, j) ==
    FoldLeft(LAMBDA r, m : IF r.expires[m] = 0 \/ ~mrt_time_after(j, r.expires[m]) THEN r
                           ELSE IF m = KTimer THEN kthread_schedule_timeout(r, j)
                           ELSE thread_sleep_timeout(r, m), s, timers)

\* Slip: the counter does not wrap.
counter_no_wrap(j) == j + 1

get_time_counter(j) == IF j >= JIFFIES_MAX THEN 0 ELSE j + 1

\* The handler, and the exit that switches if it may.
systick_isr ==
    LET j == get_time_counter(jiffies)
        s == do_timer_event([tab |-> tab, expires |-> expires,
                             slice |-> slice, flag |-> FALSE], j)
    IN  /\ jiffies' = j
        /\ expires' = s.expires
        /\ IF s.flag /\ ~lock
           THEN SwitchTo(__schedule_thread(s.tab, 1), j, s.slice)
           ELSE tab' = s.tab /\ slice' = s.slice
        /\ due' = [t \in Tids |-> IF due[t] = 0 THEN 0 ELSE due[t] - 1]
        /\ UNCHANGED <<lock, timers, count, pc>>

-----------------------------------------------------------------------------
InCall(t) ==
    \/ time_after_test(t)
    \/ spin_lock(t, "timeout", "arm")
    \/ arm_timer(t)
    \/ spin_lock(t, "armed", "request")
    \/ schedule_self_suspend(t)
    \/ schedule_thread(t, "resched", "woken")
    \/ spin_lock(t, "woken", "disarm")
    \/ disarm_timer(t)
    \/ \E u \in Tids : wakeup(t, u)

Thread(t) ==
    \/ schedule_thread(t, "run", "run")
    \/ \E n \in Delays : schedule_delay(t, n)
    \/ t \in Wakers /\ spin_lock(t, "run", "wake")
    \/ InCall(t)

Next == systick_isr \/ kthread_entry \/ start_timer \/ \E t \in Tids : Thread(t)

Spec == Init /\ [][Next]_vars

\* The clock ticks for ever, the running thread goes on with the call it is
\* in, and not every tick that finds a sleeper's timer expired falls into the
\* few instructions in which somebody holds the lock with interrupts on.
Expiring(t) ==
    /\ tab.status[t] = "SUSPEND"
    /\ Contains(timers, t)
    /\ mrt_time_after(get_time_counter(jiffies), expires[t])
    /\ systick_isr

\* The counter moves: only systick_isr does that.
Clock == jiffies' = get_time_counter(jiffies)

Fairness ==
    /\ WF_jiffies(Clock)
    /\ []<>(pc[tab.work] \in {"run", "delay"}) \/ []<><<start_timer \/ \E t \in Tids : InCall(t)>>_vars
    /\ \A t \in Tids \ {Idle} : <>[][~Expiring(t)]_vars \/ []<><<~lock /\ Expiring(t)>>_vars

FairSpec == Spec /\ Fairness
-----------------------------------------------------------------------------
(* Properties. *)

\* The variables have the types of the C objects they stand for.
TypeOK ==
    /\ tab \in [status : [Tids -> Status], to_status : [Tids -> Status],
                prio : {Prio}, list : [Parked -> Seq(Tids)], work : Tids]
    /\ lock \in BOOLEAN
    /\ {jiffies, slice} \subseteq Time
    /\ timers \in Seq(Timers)
    /\ expires \in [Timers -> Time]
    /\ count \in [Tids -> Time]
    /\ pc \in [Tids -> {"run", "start", "delay", "wake", "counted", "timeout", "arm", "armed", "request",
                        "resched", "woken", "disarm"}]
    /\ due \in [Tids -> 0..JIFFIES_MAX]

\* sgrt_tm lives on the stack of schedule_timeout: the list never holds a
\* timer whose frame is not live, whoever woke the sleeper, and holds no
\* timer twice.
TimersOnLiveFrames ==
    /\ \A i, j \in DOMAIN timers : timers[i] = timers[j] => i = j
    /\ \A t \in Tids : Contains(timers, t) =>
            pc[t] \in {"armed", "request", "resched", "woken", "disarm"}

\* A thread that schedule_timeout has suspended can count on its timer: it is
\* on the list and do_timer_event does not pass it over.
SleepersHaveTimer ==
    \A t \in Tids : tab.status[t] = "SUSPEND" => Contains(timers, t) /\ expires[t] # 0

\* A thread that has gone to sleep is not back before its time, unless
\* another thread has woken it.
SleepNotShort ==
    \A t \in Tids : tab.work = t /\ pc[t] \in {"woken", "disarm"} => due[t] = 0

\* Sleepers whose timer can expire, that is, not set to the last tick.
Asleep == {t \in Tids : tab.status[t] = "SUSPEND" /\ expires[t] # JIFFIES_MAX}

\* Each of them wakes up, though a time-out that finds the lock held, or its
\* thread not suspended yet, does nothing.  (The idle thread has no timer, so
\* by SleepersHaveTimer it is never asleep.)
SleepersWake == \A t \in Tids \ {Idle} : t \in Asleep ~> t \notin Asleep

\* The preemption timer does not get stuck at a time it can reach.
PreemptTimerFires ==
    \A e \in 1..(JIFFIES_MAX - 1) : expires[KTimer] = e ~> expires[KTimer] # e

\* kernel/sleep.c: "sleep (unit: ms)": schedule_delay returns when the time
\* asked for has passed.
DelayNotShort == \A t \in Tids : pc[t] = "run" => due[t] = 0

Suspended == {t \in Tids : tab.status[t] = "SUSPEND"}

\* kernel/sleep.c: "suspend status over, wake it up": every sleeper wakes up.
AllSleepersWake == \A t \in Tids : t \in Suspended ~> t \notin Suspended
=============================================================================
