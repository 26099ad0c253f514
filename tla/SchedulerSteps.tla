--------------------------- MODULE SchedulerSteps ---------------------------
(* The calls of the running thread keep the invariant of Scheduler: the     *)
(* locks they take, their locked sections, the steps of __thread_create.    *)
EXTENDS SchedulerInvariant

\* Taking the lock: nothing changes in the table, the caller is in its call.
LEMMA StepSpinLock ==
    ASSUME NEW t \in Tids, Know(t), NEW at \in Loose \cup Pinned, NEW c \in Calls,
           spin_lock(t, at, c), CallOK(t, "window", c),
           c.op \in {"unused", "register"} <=> at \in Creating,
           c.op = "register" => c = call[t]
    PROVE  IInv'
<1>1. /\ fault = "none" /\ pc[t] = at /\ ~lock /\ lock' = TRUE
      /\ preempt_cnt' = preempt_cnt + 1
      /\ pc' = [pc EXCEPT ![t] = "window"]
      /\ call' = [call EXCEPT ![t] = c]
      /\ tab' = tab /\ ref' = ref /\ fault' = fault
  BY DEF spin_lock, Runs, preempt_disable
<1>2. at # "window"
  BY <1>1 DEF Know
<1>3. preempt_cnt = IF at \in Creating THEN 1 ELSE 0
  BY <1>1, <1>2 DEF Know, Depth
<1>4. preempt_cnt' = Depth("window", c)
  BY <1>1, <1>3 DEF Depth, Creating
<1>5. TabInv(tab') /\ tab'.work = t /\ ref' = 1 /\ fault' \in {"none", "handler"}
  BY <1>1 DEF Know
<1>6. c.op = "register" => tab'.status[c.tid] = "NONE"
  BY <1>1 DEF Know
<1>7. "window" \in Loose \cup Pinned
  BY DEF Pinned
<1>8. lock' \in BOOLEAN /\ (lock' <=> "window" = "window")
  BY <1>1
<1> QED
  BY <1>1, <1>4, <1>5, <1>6, <1>7, <1>8, CallStep

\* A step of the running thread that changes its place and call only.
LEMMA StepProceed ==
    ASSUME NEW t \in Tids, Know(t), NEW p \in Loose \cup Pinned, NEW c \in Calls,
           pc' = [pc EXCEPT ![t] = p], call' = [call EXCEPT ![t] = c],
           UNCHANGED <<tab, ref, lock, fault>>,
           fault = "none", p # "window", pc[t] # "window",
           preempt_cnt' = Depth(p, c), CallOK(t, p, c),
           c.op = "register" => c = call[t]
    PROVE  IInv'
<1>1. TabInv(tab') /\ tab'.work = t /\ ref' = 1 /\ fault' \in {"none", "handler"}
  BY DEF Know
<1>2. c.op = "register" => tab'.status[c.tid] = "NONE"
  BY DEF Know
<1>3. lock' \in BOOLEAN /\ (lock' <=> p = "window")
  BY DEF Know
<1> QED
  BY <1>1, <1>2, <1>3, CallStep

\* A call is well formed when its parts are.
LEMMA CallFacts ==
    ASSUME NEW op \in Ops, NEW u \in Tids
    PROVE  Call(op, u) \in Calls /\ Call(op, u).op = op /\ Call(op, u).tid = u
BY DEF Call, Calls

\* The comparison with the running tid keeps the invariant.
LEMMA StepCompare ==
    ASSUME NEW t \in Tids, Know(t), NEW u \in Tids,
           NEW self \in Selfish, NEW other \in Parking, compare(t, self, other, u)
    PROVE  IInv'
<1> DEFINE op == IF u = t THEN self ELSE other
           c  == Call(op, u)
<1>1. /\ fault = "none" /\ pc[t] = "run" /\ t # Idle
      /\ pc' = [pc EXCEPT ![t] = "compared"]
      /\ call' = [call EXCEPT ![t] = c]
      /\ UNCHANGED <<tab, ref, lock, fault>> /\ preempt_cnt' = preempt_cnt
  BY DEF compare, Runs
<1>2. /\ op \in Selfish \cup Parking
      /\ op \in Selfish => u = t
      /\ op \in Parking => u # t
  BY DEF Selfish, Parking
<1> HIDE DEF op
<1>3. c \in Calls /\ c.op = op /\ c.tid = u
  BY <1>2, CallFacts DEF Ops, OnOther
<1> HIDE DEF c
<1>4. CallOK(t, "compared", c)
  BY <1>1, <1>2, <1>3 DEF CallOK
<1>5. preempt_cnt' = Depth("compared", c)
  BY <1>1 DEF Know, Depth, Creating
<1>6. c.op # "register"
  BY <1>2, <1>3 DEF Selfish, Parking
<1>7. "compared" \in Loose \cup Pinned
  BY DEF Loose
<1> QED
  BY <1>1, <1>3, <1>4, <1>5, <1>6, <1>7, StepProceed

\* A null handler stops everything where it is.
LEMMA StepNullHandler ==
    ASSUME NEW t \in Tids, Know(t), null_handler(t)
    PROVE  IInv'
<1>1. /\ fault' = "handler"
      /\ tab' = tab /\ ref' = ref /\ lock' = lock /\ preempt_cnt' = preempt_cnt
      /\ pc' = pc /\ call' = call
  BY DEF null_handler
<1>2. pc[t] \in Loose \cup Pinned /\ call[t] \in Calls
  BY DEF Know
<1>3. pc' = [pc EXCEPT ![t] = pc[t]] /\ call' = [call EXCEPT ![t] = call[t]]
  BY <1>1 DEF Know
<1>4. TabInv(tab') /\ tab'.work = t /\ ref' = 1
  BY <1>1 DEF Know
<1>5. /\ lock' \in BOOLEAN /\ (lock' <=> pc[t] = "window")
      /\ preempt_cnt' = Depth(pc[t], call[t])
      /\ CallOK(t, pc[t], call[t])
      /\ call[t].op = "register" => tab'.status[call[t].tid] = "NONE"
  BY <1>1 DEF Know
<1> QED
  BY <1>1, <1>2, <1>3, <1>4, <1>5, CallStep

\* The locked part of a call works on a lookup that is still valid and
\* leaves a good table.
LEMMA BodyTab ==
    ASSUME NEW t \in Tids, TabInv(tab), tab.work = t, t # Idle, NEW c \in Calls,
           c.op # "none",
           c.op \in Selfish => c.tid = t,
           c.op \in Parking => c.tid # t,
           c.op \in OnOther => c.tid \in registered(tab),
           c.op = "register" => tab.status[c.tid] = "NONE"
    PROVE  TabInv(Body(c)) /\ Body(c).work = t
<1>1. c.op \in Ops /\ c.tid \in Tids
  BY DEF Calls
<1>t. tab \in Table /\ tab.status \in [Tids -> Status] /\ InPlace(tab) /\ Requests(tab)
  BY DEF TabInv, Table
<1>2. CASE c.op = "suspend"
  <2>1. Body(c) = __SET_THREAD_STATUS(tab, tab.work, "SUSPEND")
    BY <1>2 DEF Body, Selfish
  <2> QED
    BY <2>1, RequestTab
<1>3. CASE c.op = "sleep"
  <2>1. Body(c) = __SET_THREAD_STATUS(tab, tab.work, "SLEEP")
    BY <1>3 DEF Body, Selfish
  <2> QED
    BY <2>1, RequestTab
<1>4. c.op \in Parking => tab.status[c.tid] \in Parked
  <2> SUFFICES ASSUME c.op \in Parking PROVE tab.status[c.tid] \in Parked
    OBVIOUS
  <2>1. c.tid # t /\ tab.status[c.tid] # "NONE"
    BY DEF OnOther, registered
  <2>2. tab.status[c.tid] # "RUNNING"
    BY <1>1, <1>t, <2>1 DEF InPlace
  <2> QED
    BY <1>1, <1>t, <2>1, <2>2 DEF Status
<1>5. CASE c.op = "park_suspend"
  <2>1. Body(c) = schedule_thread_park(tab, c.tid, "SUSPEND").tab
    BY <1>5 DEF Body
  <2>2. tab.status[c.tid] \in Parked
    BY <1>4, <1>5 DEF Parking
  <2> QED
    BY <1>1, <2>1, <2>2, ParkTab
<1>6. CASE c.op = "park_sleep"
  <2>1. Body(c) = schedule_thread_park(tab, c.tid, "SLEEP").tab
    BY <1>6 DEF Body
  <2>2. tab.status[c.tid] \in Parked
    BY <1>4, <1>6 DEF Parking
  <2> QED
    BY <1>1, <2>1, <2>2, ParkTab
<1>7. CASE c.op = "wakeup"
  <2>1. Body(c) = schedule_thread_wakeup(tab, c.tid).tab
    BY <1>7 DEF Body
  <2> QED
    BY <1>1, <2>1, WakeTab
<1>8. CASE c.op = "register"
  <2> DEFINE p == thread_attr_revise(AttrPrio[c.tid])
             r == Body(c)
  <2>1. r = register_new_thread(tab, c.tid, p)
    BY <1>8 DEF Body
  <2>2. p \in Nat /\ tab.status[c.tid] = "NONE"
    BY <1>1, <1>8, RevisedPrio
  <2> HIDE DEF p, r
  <2>3. /\ r \in Table
        /\ InPlace(r)
        /\ Requests(r)
        /\ r.status = [tab.status EXCEPT ![c.tid] = "READY"]
        /\ r.work = tab.work
    BY <1>1, <1>t, <2>1, <2>2, RegisterTab
  <2>4. r.status[Idle] \in {"READY", "RUNNING"}
    BY <1>1, <1>t, <2>2, <2>3, TidsAssumption DEF TabInv
  <2> QED
    BY <2>3, <2>4 DEF TabInv, r
<1>9. CASE c.op = "unused"
  BY <1>9 DEF Body
<1> QED
  BY <1>1, <1>2, <1>3, <1>5, <1>6, <1>7, <1>8, <1>9 DEF Ops, Selfish, OnOther, Parking

\* The way back from the locked part.
LEMMA StepUnlock ==
    ASSUME NEW t \in Tids, Know(t), NEW at \in Loose \cup Pinned, NEW c \in Calls,
           unlock(t, at, c), at # "window", CallOK(t, at, c),
           call[t].op \in OnOther => call[t].tid \in registered(tab),
           call[t].op \in {"unused", "register"} <=> at \in Creating,
           c.op = "register" => call[t].op = "unused" /\ tab.status[c.tid] = "NONE"
    PROVE  IInv'
<1>1. /\ fault = "none" /\ pc[t] = "window"
      /\ tab' = Body(call[t]) /\ lock' = FALSE
      /\ preempt_cnt' = preempt_enable(preempt_cnt)
      /\ pc' = [pc EXCEPT ![t] = at]
      /\ call' = [call EXCEPT ![t] = c]
      /\ ref' = ref /\ fault' = fault
  BY DEF unlock, Runs
<1>2. /\ call[t] \in Calls /\ call[t].op # "none" /\ t # Idle
      /\ call[t].op \in Selfish => call[t].tid = t
      /\ call[t].op \in Parking => call[t].tid # t
      /\ call[t].op = "register" => tab.status[call[t].tid] = "NONE"
  BY <1>1 DEF Know, CallOK
<1>3. TabInv(tab') /\ tab'.work = t
  <2> DEFINE d == call[t]
  <2>1. TabInv(tab) /\ tab.work = t
    BY DEF Know
  <2> HIDE DEF d
  <2>2. TabInv(Body(d)) /\ Body(d).work = t
    BY <1>2, <2>1, BodyTab DEF d
  <2> QED
    BY <1>1, <2>2 DEF d
<1>4. preempt_cnt = IF at \in Creating THEN 2 ELSE 1
  BY <1>1 DEF Know, Depth, Creating
<1>5. preempt_cnt' = Depth(at, c)
  BY <1>1, <1>4 DEF Depth, preempt_enable
<1>6. c.op = "register" => tab'.status[c.tid] = "NONE"
  BY <1>1 DEF Body
<1>7. ref' = 1 /\ fault' \in {"none", "handler"}
  BY <1>1 DEF Know
<1>8. lock' \in BOOLEAN /\ (lock' <=> at = "window")
  BY <1>1
<1> QED
  BY <1>1, <1>3, <1>5, <1>6, <1>7, <1>8, CallStep

\* The three ends of a locked section.
LEMMA StepLockedSection ==
    ASSUME NEW t \in Tids, Know(t), locked_section(t)
    PROVE  IInv'
<1>0. NoCall \in Calls /\ NoCall.op \notin Selfish \cup Parking \cup {"register"}
  BY NoCallFacts DEF Selfish, Parking
<1>1. t # Idle
  BY DEF locked_section, unlock, Runs, Know, CallOK
<1>2. CASE call[t].op \in Selfish /\ unlock(t, "resched", NoCall)
  <2>1. CallOK(t, "resched", NoCall) /\ "resched" \in Loose \cup Pinned
    BY <1>0, <1>1 DEF CallOK, Loose
  <2>2. "resched" \notin Creating /\ call[t].op \notin OnOther \cup {"unused", "register"}
    BY <1>2 DEF Creating, Selfish, OnOther, Parking
  <2> QED
    BY <1>0, <1>2, <2>1, <2>2, StepUnlock
<1>3. CASE call[t].op = "register" /\ unlock(t, "leave", NoCall)
  <2>1. CallOK(t, "leave", NoCall) /\ "leave" \in Loose \cup Pinned
    BY <1>0, <1>1 DEF CallOK, Pinned, Creating
  <2>2. "leave" \in Creating /\ call[t].op \notin OnOther
    BY <1>3 DEF Creating, OnOther, Parking
  <2> QED
    BY <1>0, <1>3, <2>1, <2>2, StepUnlock
<1>4. CASE call[t].op \in OnOther /\ call[t].tid \in registered(tab) /\ unlock(t, "run", NoCall)
  <2>1. CallOK(t, "run", NoCall) /\ "run" \in Loose \cup Pinned
    BY <1>0 DEF CallOK, Loose
  <2>2. "run" \notin Creating /\ call[t].op \notin {"unused", "register"}
    BY <1>4 DEF Creating, OnOther, Parking
  <2> QED
    BY <1>0, <1>4, <2>1, <2>2, StepUnlock
<1> QED
  BY <1>2, <1>3, <1>4 DEF locked_section

\* __thread_create reserves a free slot.
LEMMA UnusedTid ==
    ASSUME NEW tb, NEW range \in SUBSET Tids,
           get_unused_tid_from_scheduler(tb, range) # NoThread
    PROVE  /\ get_unused_tid_from_scheduler(tb, range) \in Tids
           /\ tb.status[get_unused_tid_from_scheduler(tb, range)] = "NONE"
<1> DEFINE free == {t \in range : tb.status[t] = "NONE"}
<1>1. free # {} /\ free \subseteq Nat
  BY TidsAssumption DEF get_unused_tid_from_scheduler
<1>2. PICK m \in free : \A u \in free : m <= u
  <2> DEFINE R == OpToRel(<, Nat)
  <2>1. IsWellFoundedOn(R, Nat)
    BY NatLessThanWellFounded
  <2> HIDE DEF free
  <2>2. PICK m \in free : \A u \in free : ~(<<u, m>> \in R)
    <3> HIDE DEF R
    <3> QED
      BY <1>1, <2>1, WFMin
  <2>3. \A u \in free : ~(u < m)
    BY <1>1, <2>2 DEF OpToRel
  <2> QED
    BY <1>1, <2>3
<1>3. get_unused_tid_from_scheduler(tb, range) \in free
  BY <1>1, <1>2 DEF get_unused_tid_from_scheduler
<1> QED
  BY <1>3

\* __thread_create turns preemption off.
LEMMA StepThreadCreate ==
    ASSUME NEW t \in Tids, Know(t), NEW range \in SUBSET Tids, NEW base,
           thread_create(t, range, base)
    PROVE  IInv'
<1> DEFINE slots == IF base \in range THEN {base} ELSE range
           c     == [Call("unused", Idle) EXCEPT !.slots = slots]
<1>1. /\ fault = "none" /\ pc[t] = "run" /\ t # Idle
      /\ pc' = [pc EXCEPT ![t] = "create"]
      /\ call' = [call EXCEPT ![t] = c]
      /\ UNCHANGED <<tab, ref, lock, fault>> /\ preempt_cnt' = preempt_cnt + 1
  BY DEF thread_create, Runs, preempt_disable
<1>2. slots \in SUBSET Tids
  OBVIOUS
<1> HIDE DEF slots
<1>3. c \in Calls /\ c.op = "unused"
  BY <1>2, TidsAssumption DEF Call, Calls, Ops
<1> HIDE DEF c
<1>4. CallOK(t, "create", c)
  BY <1>1, <1>3 DEF CallOK, Selfish, Parking
<1>5. preempt_cnt' = Depth("create", c)
  BY <1>1 DEF Know, Depth, Creating
<1>6. "create" \in Loose \cup Pinned
  BY DEF Pinned, Creating
<1> QED
  BY <1>1, <1>3, <1>4, <1>5, <1>6, StepProceed

\* The tid found under the lock is free, or there is none.
LEMMA StepFoundTid ==
    ASSUME NEW t \in Tids, Know(t), found_tid(t)
    PROVE  IInv'
<1> DEFINE tid == get_unused_tid_from_scheduler(tab, call[t].slots)
<1>1. call[t].op = "unused" /\ t # Idle /\ call[t].slots \in SUBSET Tids
  BY DEF found_tid, unlock, Runs, Know, CallOK, Calls
<1>2. call[t].op \notin OnOther
  BY <1>1 DEF OnOther, Parking
<1>3. CASE tid # NoThread /\ unlock(t, "alloc", Call("register", tid))
  <2> DEFINE c == Call("register", tid)
  <2>1. tid \in Tids /\ tab.status[tid] = "NONE"
    BY <1>1, <1>3, UnusedTid
  <2> HIDE DEF tid
  <2>2. c \in Calls /\ c.op = "register" /\ c.tid = tid
    BY <2>1, CallFacts DEF Ops
  <2>3. unlock(t, "alloc", c)
    BY <1>3
  <2> HIDE DEF c
  <2>4. CallOK(t, "alloc", c)
    BY <1>1, <2>2 DEF CallOK, Selfish, Parking
  <2>5. "alloc" \in Loose \cup Pinned /\ "alloc" \in Creating
    BY DEF Pinned, Creating
  <2> QED
    BY <1>1, <1>2, <2>1, <2>2, <2>3, <2>4, <2>5, StepUnlock
<1>4. CASE tid = NoThread /\ unlock(t, "leave", NoCall)
  <2>1. CallOK(t, "leave", NoCall)
    BY <1>1, NoCallFacts DEF CallOK, Selfish, Parking
  <2>2. "leave" \in Loose \cup Pinned /\ "leave" \in Creating
    BY DEF Pinned, Creating
  <2> QED
    BY <1>1, <1>2, <1>4, <2>1, <2>2, NoCallFacts, StepUnlock
<1> QED
  BY <1>3, <1>4 DEF found_tid

\* The steps of __thread_create between the two locked sections.
LEMMA StepCreate ==
    ASSUME NEW t \in Tids, Know(t), thread_register(t) \/ thread_create_fail(t)
    PROVE  IInv'
<1>1. \/ proceed(t, "alloc", "leave", NoCall)
      \/ proceed(t, "alloc", "checked", call[t])
  BY DEF thread_register, thread_create_fail
<1>2. /\ pc[t] = "alloc" /\ fault = "none"
      /\ UNCHANGED <<tab, ref, lock, fault>> /\ preempt_cnt' = preempt_cnt
  BY <1>1 DEF proceed, Runs
<1>3. /\ t # Idle /\ call[t] \in Calls /\ call[t].op = "register" /\ preempt_cnt = 1
  BY <1>2 DEF Know, CallOK, Depth, Creating
<1>4. CASE proceed(t, "alloc", "leave", NoCall)
  <2>1. pc' = [pc EXCEPT ![t] = "leave"] /\ call' = [call EXCEPT ![t] = NoCall]
    BY <1>4 DEF proceed
  <2>2. CallOK(t, "leave", NoCall)
    BY <1>3, NoCallFacts DEF CallOK, Selfish, Parking
  <2>3. "leave" \in Loose \cup Pinned /\ preempt_cnt' = Depth("leave", NoCall)
    BY <1>2, <1>3 DEF Pinned, Creating, Depth
  <2> QED
    BY <1>2, <2>1, <2>2, <2>3, NoCallFacts, StepProceed
<1>5. CASE proceed(t, "alloc", "checked", call[t])
  <2>1. pc' = [pc EXCEPT ![t] = "checked"] /\ call' = [call EXCEPT ![t] = call[t]]
    BY <1>5 DEF proceed
  <2>2. CallOK(t, "checked", call[t])
    BY <1>3 DEF CallOK, Selfish, Parking
  <2>3. "checked" \in Loose \cup Pinned /\ preempt_cnt' = Depth("checked", call[t])
    BY <1>2, <1>3 DEF Pinned, Creating, Depth
  <2> QED
    BY <1>2, <1>3, <2>1, <2>2, <2>3, StepProceed
<1> QED
  BY <1>1, <1>4, <1>5

\* The end of __thread_create gives preemption back.
LEMMA StepCreateEnd ==
    ASSUME NEW t \in Tids, Know(t), thread_create_end(t)
    PROVE  IInv'
<1>1. /\ fault = "none" /\ pc[t] = "leave"
      /\ preempt_cnt' = preempt_enable(preempt_cnt)
      /\ pc' = [pc EXCEPT ![t] = "run"]
      /\ UNCHANGED <<tab, ref, lock, fault>> /\ call' = call
  BY DEF thread_create_end, Runs
<1>2. call[t] = NoCall /\ preempt_cnt = 1
  BY <1>1 DEF Know, CallOK, Depth, Creating
<1>3. call' = [call EXCEPT ![t] = NoCall]
  BY <1>1, <1>2 DEF Know
<1>4. CallOK(t, "run", NoCall)
  BY NoCallFacts DEF CallOK, Selfish, Parking
<1>5. "run" \in Loose \cup Pinned /\ preempt_cnt' = Depth("run", NoCall)
  BY <1>1, <1>2 DEF Loose, Creating, Depth, preempt_enable
<1> QED
  BY <1>1, <1>3, <1>4, <1>5, NoCallFacts, StepProceed

\* thread_set_priority on a registered thread keeps the invariant.
LEMMA StepSetPriority ==
    ASSUME NEW t \in Tids, Know(t), NEW u \in Tids, NEW q \in Nat,
           thread_set_priority(t, u, q)
    PROVE  IInv'
<1>1. /\ fault = "none" /\ pc[t] = "run"
      /\ tab' = [tab EXCEPT !.prio = [@ EXCEPT ![u] = q]]
      /\ ref' = ref /\ lock' = lock /\ preempt_cnt' = preempt_cnt
      /\ pc' = pc /\ call' = call /\ fault' = fault
  BY DEF thread_set_priority, Runs
<1>2. /\ tab' \in Table
      /\ tab'.status = tab.status
      /\ tab'.to_status = tab.to_status
      /\ tab'.list = tab.list
      /\ tab'.work = tab.work
  <2>1. tab \in Table
    BY DEF Know, TabInv
  <2> QED
    BY <1>1, <2>1 DEF Table
<1>3. TabInv(tab') /\ tab'.work = t
  <2>0. InPlace(tab)
    BY DEF Know, TabInv
  <2>1. InPlace(tab')
    BY <1>2, <2>0 DEF InPlace
  <2>2. Requests(tab')
    BY <1>2 DEF Know, TabInv, Requests
  <2> QED
    BY <1>2, <2>1, <2>2 DEF Know, TabInv
<1>4. call[t] = NoCall /\ call[t].op # "register" /\ call[t] \in Calls
  BY <1>1, NoCallFacts DEF Know, CallOK
<1>5. pc' = [pc EXCEPT ![t] = "run"] /\ call' = [call EXCEPT ![t] = call[t]]
  BY <1>1 DEF Know
<1>6. /\ lock' \in BOOLEAN /\ (lock' <=> "run" = "window")
      /\ preempt_cnt' = Depth("run", call[t])
      /\ CallOK(t, "run", call[t]) /\ ref' = 1 /\ fault' \in {"none", "handler"}
  BY <1>1 DEF Know
<1>7. "run" \in Loose \cup Pinned
  BY DEF Loose
<1> QED
  BY <1>3, <1>4, <1>5, <1>6, <1>7, CallStep
=============================================================================
