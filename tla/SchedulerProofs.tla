-------------------------- MODULE SchedulerProofs ---------------------------
(* The invariant of Scheduler is inductive: the switches, the tick, and    *)
(* what follows for every behaviour.                                        *)
EXTENDS SchedulerSteps

\* start_kernel's switch, with nobody running, keeps the invariant.
LEMMA StepStartKernel ==
    ASSUME IInv, start_kernel
    PROVE  IInv'
<1>1. TabInv(tab) /\ tab.work = NoThread /\ tab.work # Idle /\ ref = 0
  BY IInvTab, TidsAssumption DEF IInv, start_kernel
<1>2. tab.list["READY"] # << >>
  BY <1>1, IdleIsReady
<1> DEFINE r == __schedule_thread(tab, 0)
           n == Head(tab.list["READY"])
<1>3. tab' = r.tab /\ ref' = IF r.ok THEN 1 ELSE 0
  BY <1>1 DEF start_kernel
<1>u. lock' = lock /\ preempt_cnt' = preempt_cnt /\ pc' = pc /\ call' = call /\ fault' = fault
  BY DEF start_kernel
<1>4. /\ r.ok = TRUE
      /\ r.tab \in Table
      /\ InPlace(r.tab)
      /\ n \in Tids
      /\ tab.status[n] = "READY"
      /\ r.tab.status = [tab.status EXCEPT ![n] = "RUNNING"]
      /\ r.tab.to_status = [tab.to_status EXCEPT ![n] = "NONE"]
      /\ r.tab.work = n
  BY <1>1, <1>2, FirstSchedule DEF TabInv
<1> HIDE DEF r, n
<1>5. TabInv(tab')
  <2>1. tab.status \in [Tids -> Status] /\ tab.to_status \in [Tids -> Status]
    BY <1>1 DEF TabInv, Table
  <2>2. r.tab.status[Idle] \in {"READY", "RUNNING"}
    BY <1>1, <1>4, <2>1, TidsAssumption DEF TabInv
  <2>3. \A t \in Tids : r.tab.to_status[t] = "NONE"
    BY <1>1, <1>4, <2>1, TidsAssumption DEF TabInv, Requests
  <2> QED
    BY <1>3, <1>4, <2>2, <2>3 DEF TabInv, Requests
<1>6. \A u \in Tids : pc[u] \in Loose
  BY <1>1, TidsAssumption DEF IInv, TypeOK, SwitchedOutClean
<1>7. \A u \in Tids : CallOK(u, pc[u], call[u])
  BY DEF IInv, CallsInProgress
<1>8. lock = FALSE /\ preempt_cnt = 0
  BY <1>6 DEF IInv, TypeOK, SwitchedOutClean, PreemptBalanced, Loose
<1>9. ref' = 1 /\ tab'.work \in Tids
  BY <1>3, <1>4
<1>10. TypeOK'
  BY <1>3, <1>4, <1>9, <1>u DEF IInv, TypeOK
<1>11. fault' # "context"
  BY <1>u DEF IInv, NoNullContext
<1> QED
  BY <1>5, <1>6, <1>7, <1>8, <1>9, <1>10, <1>11, <1>u, LooseIInv

\* schedule_thread called by the running thread keeps the invariant.
LEMMA StepScheduleThread ==
    ASSUME IInv, NEW t \in Tids, NEW at \in {"run", "resched"}, schedule_thread(t, at)
    PROVE  IInv'
<1>1. /\ fault = "none" /\ tab.work = t /\ t # Idle /\ pc[t] = at
      /\ tab' = __schedule_thread(tab, ref).tab
      /\ pc' = [pc EXCEPT ![t] = "run"]
      /\ ref' = ref /\ lock' = lock /\ preempt_cnt' = preempt_cnt
      /\ call' = call /\ fault' = fault
  BY DEF schedule_thread, Runs
<1>2. Know(t)
  BY <1>1, Facts
<1>3. tab.list["READY"] # << >>
  BY <1>1, <1>2, IdleIsReady DEF Know
<1>4. TabInv(tab') /\ tab'.work \in Tids
  BY <1>1, <1>2, <1>3, RescheduleTab DEF Know
<1>5. call[t] = NoCall /\ lock = FALSE /\ preempt_cnt = 0
  BY <1>1, <1>2 DEF Know, CallOK, Depth, Creating
<1>6. pc' \in [Tids -> Loose \cup Pinned]
  BY <1>1, <1>2 DEF Know, Loose
<1>7. TypeOK'
  BY <1>1, <1>4, <1>6 DEF IInv, TypeOK, TabInv
<1>8. CallOK(t, "run", NoCall)
  BY NoCallFacts DEF CallOK, Selfish, Parking
<1>9. \A u \in Tids : pc'[u] \in Loose /\ CallOK(u, pc'[u], call'[u])
  BY <1>1, <1>2, <1>5, <1>8 DEF Know, Loose
<1>10. ref' = 1 /\ fault' # "context"
  BY <1>1, <1>2 DEF Know
<1> QED
  BY <1>1, <1>4, <1>5, <1>7, <1>9, <1>10, LooseIInv

\* The interrupt: the sleeper's wake-up keeps the table good, and the exit
\* switches only when somebody is ready and nobody is in a call.
LEMMA StepTick ==
    ASSUME IInv, NEW u \in Tids \cup {NoThread}, NEW check \in {"none", "first", "last"},
           systick_isr(u, check)
    PROVE  IInv'
<1> DEFINE wk   == IF u = NoThread THEN tab ELSE thread_sleep_timeout(tab, u)
           flag == CASE check = "first" -> kthread_schedule_timeout(tab)
                     [] check = "last"  -> kthread_schedule_timeout(wk)
                     [] check = "none"  -> FALSE
<1>1. /\ tab.work # NoThread
      /\ irq_exit(wk, flag)
      /\ fault = "none" /\ ref' = ref /\ lock' = lock /\ preempt_cnt' = preempt_cnt
      /\ pc' = pc /\ call' = call
  BY DEF systick_isr
<1> DEFINE t == tab.work
<1>t. /\ TabInv(tab) /\ tab \in Table /\ tab.work \in Tids
      /\ Know(t)
  BY <1>1, IInvTab, Facts DEF IInv, TypeOK, Table
<1>2. /\ TabInv(wk)
      /\ SameThreads(wk, tab)
      /\ wk.work = tab.work
      /\ \A x \in Tids : tab.status[x] \in Parked <=> wk.status[x] \in Parked
      /\ \A x \in Tids : tab.status[x] = "READY" => wk.status[x] = "READY"
  <2>1. CASE wk = tab
    BY <2>1, <1>t DEF SameThreads
  <2>2. CASE wk # tab
    <3>1. u \in Tids /\ wk = schedule_thread_wakeup(tab, u).tab
      BY <2>2 DEF thread_sleep_timeout
    <3> HIDE DEF wk
    <3> QED
      BY <3>1, <1>t, WakeTab
  <2> QED
    BY <2>1, <2>2
<1>3. flag => wk.list["READY"] # << >>
  <2>1. tab.list["READY"] # << >> => wk.list["READY"] # << >>
    <3> HIDE DEF wk
    <3> QED
      BY <1>t, <1>2, ReadyNotEmpty DEF TabInv
  <2>2. check = "none" => ~flag
    OBVIOUS
  <2>3. flag => tab.list["READY"] # << >> \/ wk.list["READY"] # << >>
    <3> HIDE DEF wk
    <3> QED
      BY <2>2 DEF kthread_schedule_timeout
  <2> HIDE DEF wk, flag
  <2> QED
    BY <2>1, <2>3
<1> HIDE DEF wk, flag, t
<1>4. CASE flag /\ preempt_cnt = 0
  <2> DEFINE r == __schedule_thread(wk, ref)
  <2>1. tab' = r.tab /\ fault' = IF r.ok THEN fault ELSE "context"
    BY <1>1, <1>4 DEF irq_exit
  <2>2. /\ r.ok = TRUE
        /\ TabInv(r.tab)
        /\ r.tab.work \in Tids
    BY <1>2, <1>3, <1>4, <1>t, RescheduleTab
  <2> HIDE DEF r
  <2>3. pc[t] \in Loose /\ t \in Tids
    <3>1. t \in Tids /\ pc[t] \in Loose \cup Pinned /\ Depth(pc[t], call[t]) = 0
      BY <1>4, <1>t DEF Know, t
    <3>2. pc[t] \notin Creating /\ pc[t] # "window"
      BY <3>1 DEF Depth
    <3> QED
      BY <3>1, <3>2 DEF Pinned
  <2>4. /\ \A x \in Tids : pc[x] \in Loose /\ CallOK(x, pc[x], call[x])
        /\ lock = FALSE
    BY <1>t, <2>3 DEF Know, Loose
  <2>5. TypeOK'
    BY <1>1, <2>1, <2>2 DEF IInv, TypeOK, TabInv
  <2>6. ref' = 1 /\ fault' # "context"
    BY <1>1, <1>t, <2>1, <2>2 DEF Know
  <2> QED
    BY <1>1, <1>4, <2>1, <2>2, <2>4, <2>5, <2>6, LooseIInv
<1>5. CASE ~(flag /\ preempt_cnt = 0)
  <2>1. tab' = wk /\ fault' = fault
    BY <1>1, <1>5 DEF irq_exit
  <2>2. t \in Tids /\ pc[t] \in Loose \cup Pinned /\ call[t] \in Calls
    BY <1>t DEF Know, t
  <2>3. pc' = [pc EXCEPT ![t] = pc[t]] /\ call' = [call EXCEPT ![t] = call[t]]
    BY <1>1, <1>t DEF Know
  <2>4. TabInv(tab') /\ tab'.work = t /\ ref' = 1 /\ fault' \in {"none", "handler"}
    BY <1>1, <1>2, <1>t, <2>1 DEF Know, t
  <2>5. call[t].op = "register" => tab'.status[call[t].tid] = "NONE"
    BY <1>2, <1>t, <2>1, <2>2 DEF Know, SameThreads, Calls
  <2>6. /\ lock' \in BOOLEAN /\ (lock' <=> pc[t] = "window")
        /\ preempt_cnt' = Depth(pc[t], call[t])
        /\ CallOK(t, pc[t], call[t])
    BY <1>1, <1>t DEF Know
  <2> QED
    BY <1>t, <2>2, <2>3, <2>4, <2>5, <2>6, CallStep
<1> QED
  BY <1>4, <1>5

\* What takes the lock keeps the invariant.
LEMMA StepLock ==
    ASSUME NEW t \in Tids, Know(t),
           \/ schedule_self_suspend(t) \/ schedule_self_sleep(t) \/ park(t)
           \/ search_tid(t) \/ enter_tid(t)
           \/ \E u \in Tids : wakeup(t, u)
    PROVE  IInv'
<1>0. t # Idle /\ call[t] \in Calls
  BY DEF schedule_self_suspend, schedule_self_sleep, park, search_tid, enter_tid,
         wakeup, spin_lock, Know
<1>1. /\ "run" \in Loose \cup Pinned /\ "run" \notin Creating
      /\ "compared" \in Loose \cup Pinned /\ "compared" \notin Creating
      /\ "create" \in Loose \cup Pinned /\ "create" \in Creating
      /\ "checked" \in Loose \cup Pinned /\ "checked" \in Creating
  BY DEF Loose, Pinned, Creating
<1>2. ASSUME NEW op \in Selfish, spin_lock(t, "run", Call(op, t)) PROVE IInv'
  <2> DEFINE c == Call(op, t)
  <2>1. c \in Calls /\ c.op = op /\ c.tid = t
    BY CallFacts DEF Ops
  <2>2. spin_lock(t, "run", c)
    BY <1>2
  <2> HIDE DEF c
  <2>3. CallOK(t, "window", c) /\ c.op \notin {"unused", "register"}
    BY <1>0, <2>1 DEF CallOK, Selfish, Parking
  <2> QED
    BY <1>1, <2>1, <2>2, <2>3, StepSpinLock
<1>3. ASSUME NEW u \in Tids, spin_lock(t, "run", Call("wakeup", u)) PROVE IInv'
  <2> DEFINE c == Call("wakeup", u)
  <2>1. c \in Calls /\ c.op = "wakeup"
    BY CallFacts DEF Ops, OnOther
  <2>2. spin_lock(t, "run", c)
    BY <1>3
  <2> HIDE DEF c
  <2>3. CallOK(t, "window", c) /\ c.op \notin {"unused", "register"}
    BY <1>0, <2>1 DEF CallOK, Selfish, Parking
  <2> QED
    BY <1>1, <2>1, <2>2, <2>3, StepSpinLock
<1>4. ASSUME NEW at \in {"compared", "create", "checked"}, spin_lock(t, at, call[t]) PROVE IInv'
  <2>1. CallOK(t, at, call[t])
    BY <1>4 DEF spin_lock, Runs, Know
  <2>2. CallOK(t, "window", call[t])
    BY <1>0, <2>1 DEF CallOK, Selfish, Parking
  <2>3. call[t].op \in {"unused", "register"} <=> at \in Creating
    BY <2>1 DEF CallOK, Selfish, Parking, Creating
  <2> QED
    BY <1>0, <1>1, <1>4, <2>2, <2>3, StepSpinLock
<1>5. "suspend" \in Selfish /\ "sleep" \in Selfish
  BY DEF Selfish
<1> QED
  BY <1>2, <1>3, <1>4, <1>5
     DEF schedule_self_suspend, schedule_self_sleep, park, search_tid, enter_tid, wakeup

\* A thread that takes a step is the running one.
LEMMA RunsFacts ==
    ASSUME IInv, NEW t \in Tids, Thread(t)
    PROVE  Know(t)
<1>1. tab.work = t
  BY DEF Thread, schedule_thread, schedule_self_suspend, schedule_self_sleep,
         schedule_thread_suspend, schedule_thread_sleep, compare, park, wakeup,
         locked_section, null_handler, thread_create, search_tid, found_tid,
         thread_register, thread_create_fail, enter_tid, thread_create_end,
         thread_set_priority, spin_lock, unlock, proceed, Runs
<1> QED
  BY <1>1, Facts

\* Every call of the running thread keeps the invariant.
LEMMA StepThread ==
    ASSUME IInv, NEW t \in Tids, Thread(t)
    PROVE  IInv'
<1>0. Know(t)
  BY RunsFacts
<1>1. CASE schedule_thread(t, "run") \/ schedule_thread(t, "resched")
  BY <1>1, StepScheduleThread
<1>2. CASE \/ schedule_self_suspend(t) \/ schedule_self_sleep(t) \/ park(t)
           \/ search_tid(t) \/ enter_tid(t)
           \/ \E u \in Tids : wakeup(t, u)
  BY <1>0, <1>2, StepLock
<1>3. ASSUME NEW u \in Tids, schedule_thread_suspend(t, u) \/ schedule_thread_sleep(t, u)
      PROVE  IInv'
  <2>1. {"suspend", "sleep"} = Selfish /\ {"park_suspend", "park_sleep"} = Parking
    BY DEF Selfish, Parking
  <2> QED
    BY <1>0, <1>3, <2>1, StepCompare DEF schedule_thread_suspend, schedule_thread_sleep
<1>4. CASE locked_section(t)
  BY <1>0, <1>4, StepLockedSection
<1>5. CASE null_handler(t)
  BY <1>0, <1>5, StepNullHandler
<1>6. ASSUME NEW range \in {UserTids, Tids \ UserTids}, NEW base \in Tids \cup {NoThread},
             thread_create(t, range, base)
      PROVE  IInv'
  <2>1. range \in SUBSET Tids
    BY ThreadsAssumption
  <2> QED
    BY <1>0, <1>6, <2>1, StepThreadCreate
<1>7. CASE found_tid(t)
  BY <1>0, <1>7, StepFoundTid
<1>8. CASE thread_register(t) \/ thread_create_fail(t)
  BY <1>0, <1>8, StepCreate
<1>9. CASE thread_create_end(t)
  BY <1>0, <1>9, StepCreateEnd
<1>10. ASSUME NEW lp \in LatePrio, thread_set_priority(t, lp[1], lp[2]) PROVE IInv'
  <2>1. lp[1] \in Tids /\ lp[2] \in Nat
    BY ThreadsAssumption
  <2> QED
    BY <1>0, <1>10, <2>1, StepSetPriority
<1> QED
  BY <1>1, <1>2, <1>3, <1>4, <1>5, <1>6, <1>7, <1>8, <1>9, <1>10 DEF Thread

\* Every step of the system keeps the invariant.
LEMMA NextIInv == IInv /\ [Next]_vars => IInv'
<1> SUFFICES ASSUME IInv, [Next]_vars PROVE IInv'
  OBVIOUS
<1>1. CASE UNCHANGED vars
  BY <1>1 DEF vars, IInv, TypeOK, PlaceMatchesStatus, SomebodyRuns, NoNullContext,
     RequestsOfRunning, SwitchedOutClean, PreemptBalanced, LookupsStayValid, CallsInProgress
<1>2. CASE start_kernel
  BY <1>2, StepStartKernel
<1>3. CASE Tick
  BY <1>3, StepTick DEF Tick
<1>4. ASSUME NEW t \in Tids, Thread(t) PROVE IInv'
  BY <1>4, StepThread
<1>5. CASE exec_data_abort_handler
  BY <1>1, <1>5 DEF exec_data_abort_handler
<1> QED
  BY <1>1, <1>2, <1>3, <1>4, <1>5 DEF Next

-----------------------------------------------------------------------------
(* The theorems. *)

\* The inductive invariant holds in every reachable state.
THEOREM Invariance == Spec => []IInv
<1> QED
  BY InitIInv, NextIInv, PTL DEF Spec

\* The scheduler's variables keep their types.
THEOREM TypeCorrectness == Spec => []TypeOK
<1>1. IInv => TypeOK
  BY DEF IInv
<1> QED
  BY <1>1, Invariance, PTL

\* However calls and interrupts interleave, every thread is on the one list
\* its status names: schedule_thread_switch never detaches from a list the
\* thread is not on and never queues a thread twice.
THEOREM PlaceCorrectness == Spec => []PlaceMatchesStatus
<1>1. IInv => PlaceMatchesStatus
  BY DEF IInv
<1> QED
  BY <1>1, Invariance, PTL

\* After the first switch a thread is always running, and the context the
\* interrupt exit takes from __schedule_thread is never null.
THEOREM AlwaysRunning == Spec => [](SomebodyRuns /\ NoNullContext)
<1>1. IInv => SomebodyRuns /\ NoNullContext
  BY DEF IInv
<1> QED
  BY <1>1, Invariance, PTL

\* No thread is preempted holding the scheduler lock or a reserved tid, the
\* preemption count is balanced, and what was looked up before the lock was
\* taken is still true under it.
THEOREM CallsAreSafe ==
    Spec => [](RequestsOfRunning /\ SwitchedOutClean /\ PreemptBalanced /\ LookupsStayValid)
<1>1. IInv => RequestsOfRunning /\ SwitchedOutClean /\ PreemptBalanced /\ LookupsStayValid
  BY DEF IInv
<1> QED
  BY <1>1, Invariance, PTL
=============================================================================
