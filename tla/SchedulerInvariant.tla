------------------------- MODULE SchedulerInvariant -------------------------
(* The inductive invariant of Scheduler, and what a step has to do to keep  *)
(* it.                                                                      *)
EXTENDS Scheduler, SchedTableProofs

\* What a call c in progress in thread t looks like at place p.
CallOK(t, p, c) ==
    /\ p \in {"run", "resched", "leave"} => c = NoCall
    /\ p = "compared" => c.op \in Selfish \cup Parking
    /\ p = "create" => c.op = "unused"
    /\ p \in {"alloc", "checked"} => c.op = "register"
    /\ p = "window" => c.op # "none"
    /\ c.op \in Selfish => c.tid = t
    /\ c.op \in Parking => c.tid # t
    /\ p # "run" => t # Idle

CallsInProgress == \A t \in Tids : CallOK(t, pc[t], call[t])

\* The invariants strengthen each other: the table needs valid lookups, the
\* lookups need the caller not to be switched out, that needs the preemption
\* count, and the interrupt exit needs the ready list the table keeps.
IInv ==
    /\ TypeOK
    /\ PlaceMatchesStatus
    /\ SomebodyRuns
    /\ NoNullContext
    /\ RequestsOfRunning
    /\ SwitchedOutClean
    /\ PreemptBalanced
    /\ LookupsStayValid
    /\ CallsInProgress
    /\ ref = 0 <=> tab.work = NoThread

-----------------------------------------------------------------------------
(* The part of the invariant that speaks of the table alone. *)

Requests(tb) ==
    \A t \in Tids : tb.to_status[t] # "NONE" =>
        /\ tb.work = t
        /\ t # Idle
        /\ tb.to_status[t] \in {"SUSPEND", "SLEEP"}

TabInv(tb) ==
    /\ tb \in Table
    /\ InPlace(tb)
    /\ tb.status[Idle] \in {"READY", "RUNNING"}
    /\ Requests(tb)

\* The same threads are registered.
SameThreads(r, tb) == \A t \in Tids : r.status[t] = "NONE" <=> tb.status[t] = "NONE"

\* With the idle thread not running, the ready list is not empty.
LEMMA IdleIsReady ==
    ASSUME NEW tb, TabInv(tb), tb.work # Idle
    PROVE  tb.list["READY"] # << >>
<1>1. tb.status[Idle] = "READY"
  BY TidsAssumption DEF TabInv, InPlace
<1>2. Contains(tb.list["READY"], Idle)
  BY <1>1, TidsAssumption DEF TabInv, InPlace, Parked
<1> QED
  BY <1>2 DEF Contains

\* A ready thread keeps the ready list from being empty.
LEMMA ReadyNotEmpty ==
    ASSUME NEW tb \in Table, InPlace(tb)
    PROVE  tb.list["READY"] # << >> <=> \E t \in Tids : tb.status[t] = "READY"
<1>1. "READY" \in Parked /\ tb.list["READY"] \in Seq(Tids)
  BY DEF Table, Parked
<1>2. \A t \in Tids : tb.status[t] = "READY" <=> Contains(tb.list["READY"], t)
  BY <1>1 DEF InPlace
<1>3. ASSUME tb.list["READY"] # << >> PROVE \E t \in Tids : tb.status[t] = "READY"
  <2>1. Head(tb.list["READY"]) \in Tids /\ Contains(tb.list["READY"], Head(tb.list["READY"]))
    BY <1>1, <1>3 DEF Contains
  <2> QED
    BY <1>2, <2>1
<1>4. ASSUME NEW t \in Tids, tb.status[t] = "READY" PROVE tb.list["READY"] # << >>
  BY <1>2, <1>4 DEF Contains
<1> QED
  BY <1>3, <1>4

\* A switch keeps the table part.
LEMMA RescheduleTab ==
    ASSUME NEW tb, TabInv(tb), tb.work \in Tids, NEW rf, tb.list["READY"] # << >>
    PROVE  LET r == __schedule_thread(tb, rf)
           IN  /\ r.ok = TRUE
               /\ TabInv(r.tab)
               /\ SameThreads(r.tab, tb)
               /\ r.tab.work \in Tids
               /\ r.tab.prio = tb.prio
<1> DEFINE r == __schedule_thread(tb, rf)
           n == Head(tb.list["READY"])
           s == IF tb.to_status[tb.work] = "NONE" THEN "READY" ELSE tb.to_status[tb.work]
<1>t. /\ tb \in Table /\ InPlace(tb)
      /\ tb.status \in [Tids -> Status] /\ tb.to_status \in [Tids -> Status]
      /\ tb.status[tb.work] = "RUNNING"
  BY DEF TabInv, Table, InPlace
<1>1. /\ tb.to_status[tb.work] \in {"NONE", "SUSPEND", "SLEEP"}
      /\ tb.work = Idle => tb.to_status[tb.work] = "NONE"
  BY DEF TabInv, Requests
<1>2. /\ r.ok = TRUE
      /\ r.tab \in Table
      /\ InPlace(r.tab)
      /\ n \in Tids
      /\ tb.status[n] = "READY"
      /\ r.tab.status = [tb.status EXCEPT ![n] = "RUNNING", ![tb.work] = s]
      /\ r.tab.to_status = [tb.to_status EXCEPT ![n] = "NONE", ![tb.work] = "NONE"]
      /\ r.tab.prio = tb.prio
      /\ r.tab.work = n
  BY <1>t, <1>1, Reschedule
<1> HIDE DEF r, n
<1>3. r.tab.status[Idle] \in {"READY", "RUNNING"}
  BY <1>t, <1>1, <1>2, TidsAssumption DEF TabInv
<1>4. \A t \in Tids : r.tab.to_status[t] = "NONE"
  BY <1>t, <1>2 DEF TabInv, Requests
<1>5. SameThreads(r.tab, tb)
  <2>1. s # "NONE" /\ s \in Parked
    BY <1>1 DEF Parked
  <2> HIDE DEF s
  <2> QED
    BY <1>t, <1>2, <2>1 DEF SameThreads
<1>6. TabInv(r.tab)
  BY <1>2, <1>3, <1>4 DEF TabInv, Requests
<1> QED
  BY <1>2, <1>5, <1>6 DEF r

\* So does a wake-up, which leaves ready threads ready.
LEMMA WakeTab ==
    ASSUME NEW tb, TabInv(tb), tb.work \in Tids, NEW u \in Tids
    PROVE  LET r == schedule_thread_wakeup(tb, u).tab
           IN  /\ TabInv(r)
               /\ SameThreads(r, tb)
               /\ r.work = tb.work
               /\ r.prio = tb.prio
               /\ \A t \in Tids : tb.status[t] \in Parked <=> r.status[t] \in Parked
               /\ \A t \in Tids : tb.status[t] = "READY" => r.status[t] = "READY"
<1> DEFINE r == schedule_thread_wakeup(tb, u).tab
<1>t. /\ tb \in Table /\ InPlace(tb)
      /\ tb.status \in [Tids -> Status] /\ tb.to_status \in [Tids -> Status]
  BY DEF TabInv, Table
<1>1. /\ r \in Table
      /\ InPlace(r)
      /\ r.status \in {tb.status, [tb.status EXCEPT ![u] = "READY"]}
      /\ tb.status[u] \notin {"SUSPEND", "SLEEP"} => r = tb
      /\ r.to_status \in {tb.to_status, [tb.to_status EXCEPT ![u] = "NONE"]}
      /\ r.prio = tb.prio
      /\ r.work = tb.work
  BY <1>t, Wake
<1> HIDE DEF r
<1>2. CASE tb.status[u] \notin {"SUSPEND", "SLEEP"}
  <2>1. r = tb
    BY <1>1, <1>2
  <2> QED
    BY <2>1 DEF SameThreads, r
<1>3. CASE tb.status[u] \in {"SUSPEND", "SLEEP"}
  <2>0. "READY" \in Parked /\ tb.status[u] \in Parked /\ "NONE" \notin Parked
    BY <1>3 DEF Parked
  <2>1. \A t \in Tids : r.status[t] = tb.status[t] \/ (t = u /\ r.status[t] = "READY")
    BY <1>t, <1>1
  <2>2. \A t \in Tids : r.to_status[t] \in {tb.to_status[t], "NONE"}
    BY <1>t, <1>1
  <2>3. SameThreads(r, tb)
    BY <1>3, <2>1 DEF SameThreads
  <2>4. Requests(r)
    BY <1>1, <2>2 DEF TabInv, Requests
  <2>5. r.status[Idle] \in {"READY", "RUNNING"}
    BY <2>1, TidsAssumption DEF TabInv
  <2> QED
    BY <1>1, <2>0, <2>1, <2>3, <2>4, <2>5 DEF TabInv, r
<1> QED
  BY <1>2, <1>3

\* So does parking another thread.
LEMMA ParkTab ==
    ASSUME NEW tb, TabInv(tb), tb.work \in Tids,
           NEW u \in Tids, tb.status[u] \in Parked, NEW s \in {"SUSPEND", "SLEEP"}
    PROVE  LET r == schedule_thread_park(tb, u, s).tab
           IN  TabInv(r) /\ r.work = tb.work
<1> DEFINE r == schedule_thread_park(tb, u, s).tab
<1>t. /\ tb \in Table /\ InPlace(tb) /\ s \in Parked /\ s # "READY"
      /\ tb.status \in [Tids -> Status] /\ tb.to_status \in [Tids -> Status]
  BY DEF TabInv, Table, Parked
<1>1. /\ r \in Table
      /\ InPlace(r)
      /\ r.status \in {tb.status, [tb.status EXCEPT ![u] = s]}
      /\ u = Idle /\ s # "READY" => r.status = tb.status
      /\ r.to_status = [tb.to_status EXCEPT ![u] = "NONE"]
      /\ r.prio = tb.prio
      /\ r.work = tb.work
  BY <1>t, Park
<1> HIDE DEF r
<1>2. r.status[Idle] \in {"READY", "RUNNING"}
  BY <1>t, <1>1, TidsAssumption DEF TabInv
<1>3. Requests(r)
  BY <1>t, <1>1 DEF TabInv, Requests
<1> QED
  BY <1>1, <1>2, <1>3 DEF TabInv, r

\* So does registering a thread in a free slot.
LEMMA RegisterTab ==
    ASSUME NEW tb \in Table, InPlace(tb), Requests(tb),
           NEW u \in Tids, tb.status[u] = "NONE", NEW p \in Nat
    PROVE  LET r == register_new_thread(tb, u, p)
           IN  /\ r \in Table
               /\ InPlace(r)
               /\ Requests(r)
               /\ r.status = [tb.status EXCEPT ![u] = "READY"]
               /\ r.work = tb.work
<1> DEFINE r == register_new_thread(tb, u, p)
<1>t. tb.to_status \in [Tids -> Status]
  BY DEF Table
<1>1. /\ r \in Table
      /\ InPlace(r)
      /\ r.status = [tb.status EXCEPT ![u] = "READY"]
      /\ r.to_status = [tb.to_status EXCEPT ![u] = "NONE"]
      /\ r.prio = [tb.prio EXCEPT ![u] = p]
      /\ r.work = tb.work
      /\ Contains(r.list["READY"], u)
  BY Register, Zenon
<1> HIDE DEF r
<1>2. Requests(r)
  BY <1>t, <1>1 DEF Requests
<1> QED
  BY <1>1, <1>2 DEF r

\* So does the running thread asking to be suspended or put to sleep.
LEMMA RequestTab ==
    ASSUME NEW tb, TabInv(tb), tb.work \in Tids, tb.work # Idle,
           NEW s \in {"SUSPEND", "SLEEP"}
    PROVE  LET r == __SET_THREAD_STATUS(tb, tb.work, s)
           IN  TabInv(r) /\ r.work = tb.work
<1> DEFINE r == __SET_THREAD_STATUS(tb, tb.work, s)
<1>t. tb \in Table /\ InPlace(tb) /\ s \in Status /\ tb.to_status \in [Tids -> Status]
  BY DEF TabInv, Table, Status, Parked
<1>1. /\ r \in Table
      /\ r.status = tb.status
      /\ r.to_status = [tb.to_status EXCEPT ![tb.work] = s]
      /\ r.work = tb.work
      /\ r.list = tb.list
  BY <1>t, SetFields
<1> HIDE DEF r
<1>2. InPlace(r)
  BY <1>t, <1>1 DEF InPlace
<1>3. Requests(r)
  BY <1>t, <1>1 DEF TabInv, Requests
<1> QED
  BY <1>1, <1>2, <1>3 DEF TabInv, r

-----------------------------------------------------------------------------
(* The initial state. *)

\* Every priority a thread is registered with is a natural number.
LEMMA RevisedPrio ==
    ASSUME NEW t \in Tids
    PROVE  thread_attr_revise(AttrPrio[t]) \in Nat
BY ThreadsAssumption DEF thread_attr_revise

\* start_kernel leaves the base and the idle thread ready and nobody running.
LEMMA BootTab == TabInv(BootTable) /\ BootTable.work = NoThread
<1> DEFINE e  == EmptyTable
           pb == thread_attr_revise(AttrPrio[Base])
           pz == thread_attr_revise(AttrPrio[Idle])
           b  == register_new_thread(e, Base, pb)
           z  == register_new_thread(b, Idle, pz)
<1>c. Base \in Tids /\ Idle \in Tids /\ Base # Idle
  BY TidsAssumption, ThreadsAssumption
<1>1. /\ e \in Table
      /\ e.status = [t \in Tids |-> "NONE"]
      /\ e.to_status = [t \in Tids |-> "NONE"]
      /\ e.list = [s \in Parked |-> << >>]
      /\ e.work = NoThread
  BY DEF EmptyTable, Table, Status
<1>2. InPlace(e) /\ Requests(e)
  <2>1. \A s \in Parked : e.list[s] = << >> /\ s # "NONE"
    BY <1>1 DEF Parked
  <2>2. \A t \in Tids : e.status[t] = "NONE" /\ e.to_status[t] = "NONE" /\ e.work # t
    BY <1>1, TidsAssumption
  <2> HIDE DEF e
  <2> QED
    BY <2>1, <2>2 DEF InPlace, Contains, Requests
<1>3. BootTable = z
  BY DEF BootTable
<1>p. pb \in Nat /\ pz \in Nat
  BY <1>c, RevisedPrio
<1> HIDE DEF e, pb, pz
<1>4. /\ b \in Table
      /\ InPlace(b)
      /\ Requests(b)
      /\ b.status = [e.status EXCEPT ![Base] = "READY"]
      /\ b.work = e.work
  <2>1. e.status[Base] = "NONE"
    BY <1>c, <1>1
  <2>2. e \in Table /\ InPlace(e) /\ Requests(e) /\ Base \in Tids /\ pb \in Nat
    BY <1>c, <1>p, <1>1, <1>2
  <2> QED
    BY <2>1, <2>2, RegisterTab
<1> HIDE DEF b
<1>5. /\ z \in Table
      /\ InPlace(z)
      /\ Requests(z)
      /\ z.status = [b.status EXCEPT ![Idle] = "READY"]
      /\ z.work = b.work
  <2>1. b.status[Idle] = "NONE"
    BY <1>c, <1>1, <1>4
  <2>2. b \in Table /\ InPlace(b) /\ Requests(b) /\ Idle \in Tids /\ pz \in Nat
    BY <1>c, <1>p, <1>4
  <2> QED
    BY <2>1, <2>2, RegisterTab
<1> HIDE DEF z
<1>6. z.status[Idle] = "READY"
  BY <1>c, <1>1, <1>4, <1>5
<1> QED
  BY <1>1, <1>3, <1>4, <1>5, <1>6 DEF TabInv

\* A null call.
LEMMA NoCallFacts == NoCall \in Calls /\ NoCall.op = "none" /\ NoCall.tid = Idle
BY TidsAssumption DEF NoCall, Call, Calls

\* The table start_kernel has built satisfies the invariant.
LEMMA InitIInv == Init => IInv
<1> SUFFICES ASSUME Init PROVE IInv
  OBVIOUS
<1>1. TabInv(tab) /\ tab.work = NoThread
  BY BootTab DEF Init
<1>2. TypeOK
  <2>1. lock \in BOOLEAN
    BY Zenon DEF Init
  <2> QED
    BY <1>1, <2>1, NoCallFacts DEF Init, TypeOK, TabInv, Loose
<1>3. \A t \in Tids : pc[t] = "run" /\ call[t] = NoCall
  BY DEF Init
<1>4. PlaceMatchesStatus /\ SomebodyRuns /\ NoNullContext /\ RequestsOfRunning
  BY <1>1 DEF Init, TabInv, Requests, PlaceMatchesStatus, SomebodyRuns,
              NoNullContext, RequestsOfRunning
<1>5. SwitchedOutClean /\ PreemptBalanced
  BY <1>3 DEF Init, SwitchedOutClean, PreemptBalanced, Pinned, Creating
<1>6. LookupsStayValid /\ CallsInProgress
  BY <1>3, NoCallFacts DEF LookupsStayValid, CallsInProgress, CallOK, Selfish, Parking
<1> QED
  BY <1>1, <1>2, <1>4, <1>5, <1>6 DEF IInv, Init

-----------------------------------------------------------------------------
(* The steps. *)

\* The table part of the invariant.
LEMMA IInvTab == IInv => TabInv(tab)
BY DEF IInv, TypeOK, PlaceMatchesStatus, SomebodyRuns, RequestsOfRunning,
       TabInv, Requests

\* How deep preemption is off in a call.
Depth(p, c) ==
    IF p \in Creating THEN 1
    ELSE IF p = "window" THEN IF c.op \in {"unused", "register"} THEN 2 ELSE 1
    ELSE 0

\* What the running thread knows: the others are loose, and lock and count
\* are as its own place says.
Know(t) ==
    /\ TabInv(tab) /\ tab.work = t /\ ref = 1 /\ fault # "context"
    /\ pc \in [Tids -> Loose \cup Pinned] /\ call \in [Tids -> Calls]
    /\ CallOK(t, pc[t], call[t])
    /\ \A u \in Tids \ {t} : pc[u] \in Loose /\ CallOK(u, pc[u], call[u])
    /\ lock \in BOOLEAN /\ (lock <=> pc[t] = "window")
    /\ preempt_cnt = Depth(pc[t], call[t])
    /\ call[t].op = "register" => tab.status[call[t].tid] = "NONE"

LEMMA Facts ==
    ASSUME IInv, NEW t \in Tids, tab.work = t
    PROVE  Know(t)
<1>1. TabInv(tab) /\ ref = 1 /\ fault # "context"
  BY IInvTab, TidsAssumption DEF IInv, TypeOK, NoNullContext
<1>2. pc \in [Tids -> Loose \cup Pinned] /\ call \in [Tids -> Calls] /\ lock \in BOOLEAN
  BY DEF IInv, TypeOK
<1>3. \A u \in Tids : CallOK(u, pc[u], call[u])
  BY DEF IInv, CallsInProgress
<1>4. \A u \in Tids \ {t} : pc[u] \in Loose
  BY <1>2 DEF IInv, SwitchedOutClean
<1>5. lock <=> pc[t] = "window"
  BY <1>4 DEF IInv, SwitchedOutClean, Loose
<1>6. preempt_cnt = Depth(pc[t], call[t])
  <2>1. CASE pc[t] \in Loose
    BY <1>4, <2>1 DEF IInv, PreemptBalanced, Depth, Loose, Creating
  <2>2. CASE pc[t] \in Pinned
    BY <2>2 DEF IInv, PreemptBalanced, Depth, Pinned
  <2> QED
    BY <1>2, <2>1, <2>2
<1>7. call[t].op = "register" => tab.status[call[t].tid] = "NONE"
  BY DEF IInv, LookupsStayValid
<1> QED
  BY <1>1, <1>2, <1>3, <1>4, <1>5, <1>6, <1>7 DEF Know

\* A step of the running thread to place p and call c.
LEMMA CallStep ==
    ASSUME NEW t \in Tids, Know(t), NEW p \in Loose \cup Pinned, NEW c \in Calls,
           pc' = [pc EXCEPT ![t] = p], call' = [call EXCEPT ![t] = c],
           TabInv(tab'), tab'.work = t, ref' = 1, fault' \in {"none", "handler"},
           lock' \in BOOLEAN, lock' <=> p = "window",
           preempt_cnt' = Depth(p, c), CallOK(t, p, c),
           c.op = "register" => tab'.status[c.tid] = "NONE"
    PROVE  IInv'
<1>1. /\ pc'[t] = p /\ call'[t] = c
      /\ \A u \in Tids \ {t} : pc'[u] = pc[u] /\ call'[u] = call[u]
  BY DEF Know
<1>2. \A u \in Tids \ {t} : pc'[u] \in Loose /\ CallOK(u, pc'[u], call'[u])
  BY <1>1 DEF Know
<1>3. TypeOK'
  <2>1. preempt_cnt' \in Nat
    BY DEF Depth
  <2>2. pc' \in [Tids -> Loose \cup Pinned] /\ call' \in [Tids -> Calls]
    BY DEF Know
  <2> QED
    BY <2>1, <2>2 DEF TypeOK, TabInv
<1>4. PlaceMatchesStatus' /\ RequestsOfRunning'
  BY DEF TabInv, Requests, PlaceMatchesStatus, RequestsOfRunning
<1>5. SomebodyRuns' /\ NoNullContext'
  BY TidsAssumption DEF TabInv, SomebodyRuns, NoNullContext
<1>6. SwitchedOutClean'
  BY <1>1, <1>2 DEF SwitchedOutClean, Loose, Pinned, Creating
<1>7. PreemptBalanced'
  BY <1>1, <1>2 DEF PreemptBalanced, Depth, Loose, Creating
<1>8. LookupsStayValid'
  <2>1. ASSUME NEW u \in Tids \ {t} PROVE call'[u].op # "register" /\ pc'[u] # "window"
    BY <1>2, NoCallFacts DEF CallOK, Loose, Selfish, Parking
  <2>2. p = "window" /\ c.op \in Parking => tab'.status[c.tid] # "RUNNING"
    BY DEF CallOK, TabInv, InPlace, Calls
  <2> QED
    BY <1>1, <2>1, <2>2 DEF LookupsStayValid
<1>9. CallsInProgress'
  BY <1>1, <1>2 DEF CallsInProgress
<1>10. (ref = 0 <=> tab.work = NoThread)'
  BY TidsAssumption
<1> QED
  BY <1>3, <1>4, <1>5, <1>6, <1>7, <1>8, <1>9, <1>10 DEF IInv

\* A state in which nobody has preemption off and the table is good.
LEMMA LooseIInv ==
    ASSUME TypeOK', TabInv(tab'), tab'.work \in Tids, ref' = 1, fault' # "context",
           \A u \in Tids : pc'[u] \in Loose /\ CallOK(u, pc'[u], call'[u]),
           lock' = FALSE, preempt_cnt' = 0
    PROVE  IInv'
<1>1. NoThread \notin Tids
  BY TidsAssumption
<1>2. PlaceMatchesStatus' /\ RequestsOfRunning'
  BY DEF TabInv, Requests, PlaceMatchesStatus, RequestsOfRunning
<1>3. SomebodyRuns' /\ NoNullContext'
  BY <1>1 DEF TabInv, SomebodyRuns, NoNullContext
<1>4. SwitchedOutClean' /\ PreemptBalanced'
  BY DEF SwitchedOutClean, PreemptBalanced, Loose, Pinned, Creating
<1>5. LookupsStayValid'
  <2>1. ASSUME NEW u \in Tids PROVE call'[u].op # "register" /\ pc'[u] # "window"
    BY NoCallFacts DEF CallOK, Loose, Selfish, Parking
  <2> QED
    BY <2>1 DEF LookupsStayValid
<1>6. CallsInProgress'
  BY DEF CallsInProgress
<1> QED
  BY <1>1, <1>2, <1>3, <1>4, <1>5, <1>6 DEF IInv
=============================================================================
