-------------------------- MODULE SchedTableProofs --------------------------
(* What each function of SchedTable does to a table that is in place.       *)
EXTENDS SchedTable, SeqLemmas

-----------------------------------------------------------------------------
(* The fields of an updated table. *)

\* Only list s may differ.
OnlyList(r, tb, s) ==
    /\ r \in Table
    /\ r.status = tb.status
    /\ r.to_status = tb.to_status
    /\ r.prio = tb.prio
    /\ r.work = tb.work
    /\ \A p \in Parked \ {s} : r.list[p] = tb.list[p]

\* Only the two statuses of tid differ.
Synced(r, tb, tid, s) ==
    /\ r \in Table
    /\ r.status = [tb.status EXCEPT ![tid] = s]
    /\ r.to_status = [tb.to_status EXCEPT ![tid] = "NONE"]
    /\ r.prio = tb.prio
    /\ r.work = tb.work
    /\ r.list = tb.list

\* A list of the table is replaced.
LEMMA RelistFields ==
    ASSUME NEW tb \in Table, NEW s \in Parked, NEW l \in Seq(Tids)
    PROVE  /\ OnlyList(Relist(tb, s, l), tb, s)
           /\ Relist(tb, s, l).list[s] = l
BY DEF Relist, OnlyList, Table

\* __SYNC_THREAD_STATUS writes both statuses.
LEMMA SyncFields ==
    ASSUME NEW tb \in Table, NEW tid \in Tids, NEW s \in Status
    PROVE  Synced(__SYNC_THREAD_STATUS(tb, tid, s), tb, tid, s)
BY DEF Synced, __SYNC_THREAD_STATUS, Table, Status

\* __SET_THREAD_STATUS writes to_status.
LEMMA SetFields ==
    ASSUME NEW tb \in Table, NEW tid \in Tids, NEW s \in Status
    PROVE  /\ __SET_THREAD_STATUS(tb, tid, s) \in Table
           /\ __SET_THREAD_STATUS(tb, tid, s).status = tb.status
           /\ __SET_THREAD_STATUS(tb, tid, s).to_status = [tb.to_status EXCEPT ![tid] = s]
           /\ __SET_THREAD_STATUS(tb, tid, s).prio = tb.prio
           /\ __SET_THREAD_STATUS(tb, tid, s).work = tb.work
           /\ __SET_THREAD_STATUS(tb, tid, s).list = tb.list
BY DEF __SET_THREAD_STATUS, Table

\* SCHED_RUNNING_THREAD is assigned.
LEMMA WorkFields ==
    ASSUME NEW tb \in Table, NEW w \in Tids
    PROVE  /\ [tb EXCEPT !.work = w] \in Table
           /\ [tb EXCEPT !.work = w].status = tb.status
           /\ [tb EXCEPT !.work = w].to_status = tb.to_status
           /\ [tb EXCEPT !.work = w].prio = tb.prio
           /\ [tb EXCEPT !.work = w].list = tb.list
           /\ [tb EXCEPT !.work = w].work = w
BY DEF Table

-----------------------------------------------------------------------------
(* The status lists. *)

\* __schedule_add_status_list puts the thread on the list.
LEMMA AddStatusList ==
    ASSUME NEW tb \in Table, NEW tid \in Tids, NEW s \in Parked,
           Distinct(tb.list[s]), ~Contains(tb.list[s], tid)
    PROVE  LET r == __schedule_add_status_list(tb, tid, s)
           IN  /\ OnlyList(r, tb, s)
               /\ Distinct(r.list[s])
               /\ \A x : Contains(r.list[s], x) <=> (x = tid \/ Contains(tb.list[s], x))
<1> DEFINE l0 == tb.list[s]
           I  == {i \in 1..Len(l0) : tb.prio[l0[i]] <= tb.prio[tid]}
           k  == IF I # {} THEN Max(I) ELSE 0
           l  == InsertAt(l0, k + 1, tid)
<1>1. l0 \in Seq(Tids) /\ Len(l0) \in Nat
  BY DEF Table
<1>2. k + 1 \in 1..(Len(l0) + 1)
  <2>1. I # {} => Max(I) \in I
    BY <1>1, MaxPosition
  <2> HIDE DEF l0
  <2> QED
    BY <1>1, <2>1
<1>3. __schedule_add_status_list(tb, tid, s) = Relist(tb, s, l)
  BY DEF __schedule_add_status_list, SelectLastInSeq
<1>4. /\ l \in Seq(Tids)
      /\ Distinct(l)
      /\ \A x : Contains(l, x) <=> (x = tid \/ Contains(l0, x))
  <2> HIDE DEF k
  <2> QED
    BY <1>1, <1>2, InsertDistinct
<1> HIDE DEF l
<1> QED
  BY <1>3, <1>4, RelistFields

\* __schedule_del_status_list takes it off.
LEMMA DelStatusList ==
    ASSUME NEW tb \in Table, NEW tid \in Tids, NEW s \in Parked,
           Distinct(tb.list[s])
    PROVE  LET r == __schedule_del_status_list(tb, tid, s)
           IN  /\ OnlyList(r, tb, s)
               /\ Distinct(r.list[s])
               /\ \A x : Contains(r.list[s], x) <=> (x # tid /\ Contains(tb.list[s], x))
<1> DEFINE l == RemoveFirst(tb.list[s], tid)
<1>1. tb.list[s] \in Seq(Tids)
  BY DEF Table
<1>2. /\ l \in Seq(Tids)
      /\ Distinct(l)
      /\ \A x : Contains(l, x) <=> (x # tid /\ Contains(tb.list[s], x))
  BY <1>1, RemoveDistinct
<1>3. __schedule_del_status_list(tb, tid, s) = Relist(tb, s, l)
  BY DEF __schedule_del_status_list
<1> HIDE DEF l
<1> QED
  BY <1>2, <1>3, RelistFields

-----------------------------------------------------------------------------
(* schedule_thread_switch. *)

\* InPlace in terms of the lists' elements.
LEMMA InPlaceLists ==
    ASSUME NEW tb
    PROVE  InPlace(tb) <=>
              /\ \A s \in Parked : Distinct(tb.list[s])
              /\ \A s \in Parked, t \in Tids : tb.status[t] = s <=> Contains(tb.list[s], t)
              /\ \A t \in Tids : tb.status[t] = "RUNNING" <=> tb.work = t
BY DEF InPlace, Distinct

\* From one list to another: only the thread itself is touched.
LEMMA SwitchParked ==
    ASSUME NEW tb \in Table, InPlace(tb), NEW tid \in Tids,
           tb.status[tid] \in Parked, tb.to_status[tid] \in Parked,
           tb.status[tid] # tb.to_status[tid],
           tid = Idle => tb.to_status[tid] = "READY",
           tb.work # NoThread
    PROVE  LET r == schedule_thread_switch(tb, tid)
           IN  /\ r.ok = TRUE
               /\ r.tab \in Table
               /\ InPlace(r.tab)
               /\ r.tab.status = [tb.status EXCEPT ![tid] = tb.to_status[tid]]
               /\ r.tab.to_status = [tb.to_status EXCEPT ![tid] = "NONE"]
               /\ r.tab.prio = tb.prio
               /\ r.tab.work = tb.work
<1> DEFINE src == tb.status[tid]
           dst == tb.to_status[tid]
           d   == __schedule_del_status_list(tb, tid, src)
           a   == __schedule_add_status_list(d, tid, dst)
           z   == __SYNC_THREAD_STATUS(a, tid, dst)
<1>0. /\ \A s \in Parked : Distinct(tb.list[s])
      /\ \A s \in Parked, t \in Tids : tb.status[t] = s <=> Contains(tb.list[s], t)
      /\ \A t \in Tids : tb.status[t] = "RUNNING" <=> tb.work = t
  BY InPlaceLists
<1>p. src \in Parked /\ dst \in Parked /\ src # dst /\ "RUNNING" \notin Parked
  BY DEF Parked
<1>1. /\ OnlyList(d, tb, src)
      /\ Distinct(d.list[src])
      /\ \A x : Contains(d.list[src], x) <=> (x # tid /\ Contains(tb.list[src], x))
  BY <1>0, <1>p, DelStatusList
<1>2. /\ switch_from(tb, tid, src).ok = TRUE
      /\ switch_from(tb, tid, src).tab = d
  BY <1>p DEF switch_from, schedule_detach_list, Ok
<1> HIDE DEF d
<1>3. /\ d \in Table
      /\ d.list[dst] = tb.list[dst]
      /\ d.status = tb.status
  BY <1>p, <1>1 DEF OnlyList
<1>4. /\ OnlyList(a, d, dst)
      /\ Distinct(a.list[dst])
      /\ \A x : Contains(a.list[dst], x) <=> (x = tid \/ Contains(tb.list[dst], x))
  <2>1. Distinct(d.list[dst]) /\ ~Contains(d.list[dst], tid)
    BY <1>0, <1>p, <1>3
  <2> QED
    BY <1>p, <1>3, <2>1, AddStatusList
<1>5. switch_to(d, tid, dst) = Ok(a)
  BY <1>p, <1>3 DEF switch_to, schedule_add_list
<1> HIDE DEF a
<1>6. a \in Table /\ a.work = tb.work /\ a.prio = tb.prio /\ a.status = tb.status
      /\ a.to_status = tb.to_status
  BY <1>1, <1>4 DEF OnlyList
<1>7. schedule_thread_switch(tb, tid) = Ok(z)
  <2>1. Ok(a).ok = TRUE /\ Ok(a).tab = a
    BY DEF Ok
  <2>2. dst # "RUNNING" /\ (tid = Idle => dst = "READY")
    BY <1>p
  <2> HIDE DEF z
  <2> QED
    BY <1>p, <1>2, <1>5, <1>6, <2>1, <2>2 DEF schedule_thread_switch, z
<1>8. Synced(z, a, tid, dst)
  BY <1>p, <1>6, SyncFields DEF Status
<1> HIDE DEF z
<1>9. /\ z \in Table
      /\ z.status = [tb.status EXCEPT ![tid] = dst]
      /\ z.to_status = [tb.to_status EXCEPT ![tid] = "NONE"]
      /\ z.prio = tb.prio
      /\ z.work = tb.work
      /\ z.list = a.list
  BY <1>6, <1>8 DEF Synced
<1>10. InPlace(z)
  <2>1. \A s \in Parked : Distinct(z.list[s])
    BY <1>0, <1>1, <1>4, <1>9 DEF OnlyList
  <2>2. ASSUME NEW s \in Parked, NEW t \in Tids
        PROVE  z.status[t] = s <=> Contains(z.list[s], t)
    <3>0. tb.status \in [Tids -> Status]
      BY DEF Table
    <3>1. CASE s = dst
      BY <3>0, <3>1, <1>0, <1>4, <1>9
    <3>2. CASE s = src
      <4>1. z.list[src] = d.list[src]
        BY <1>p, <1>4, <1>9 DEF OnlyList
      <4> QED
        BY <3>0, <3>2, <4>1, <1>0, <1>p, <1>1, <1>9
    <3>3. CASE s # src /\ s # dst
      <4>1. z.list[s] = tb.list[s]
        BY <3>3, <1>1, <1>4, <1>9 DEF OnlyList
      <4> QED
        BY <3>0, <3>3, <4>1, <1>0, <1>9
    <3> QED
      BY <3>1, <3>2, <3>3
  <2>3. ASSUME NEW t \in Tids
        PROVE  z.status[t] = "RUNNING" <=> z.work = t
    <3>0. tb.status \in [Tids -> Status]
      BY DEF Table
    <3> QED
      BY <3>0, <1>0, <1>p, <1>9
  <2> QED
    BY <2>1, <2>2, <2>3, InPlaceLists
<1> QED
  BY <1>7, <1>9, <1>10 DEF Ok

\* The running thread goes: the first ready thread takes its place.
LEMMA SwitchOut ==
    ASSUME NEW tb \in Table, InPlace(tb), tb.work \in Tids,
           tb.to_status[tb.work] \in Parked,
           tb.work = Idle => tb.to_status[tb.work] = "READY",
           tb.list["READY"] # << >>
    PROVE  LET r == schedule_thread_switch(tb, tb.work)
               n == Head(tb.list["READY"])
           IN  /\ r.ok = TRUE
               /\ r.tab \in Table
               /\ InPlace(r.tab)
               /\ n \in Tids
               /\ tb.status[n] = "READY"
               /\ r.tab.status = [tb.status EXCEPT ![n] = "RUNNING",
                                                   ![tb.work] = tb.to_status[tb.work]]
               /\ r.tab.to_status = [tb.to_status EXCEPT ![n] = "NONE", ![tb.work] = "NONE"]
               /\ r.tab.prio = tb.prio
               /\ r.tab.work = n
<1> DEFINE tid == tb.work
           n   == Head(tb.list["READY"])
           dst == tb.to_status[tid]
           d   == __schedule_del_status_list(tb, n, "READY")
           w   == [d EXCEPT !.work = n]
           m   == __SYNC_THREAD_STATUS(w, n, "RUNNING")
           a   == __schedule_add_status_list(m, tid, dst)
           z   == __SYNC_THREAD_STATUS(a, tid, dst)
<1>0. /\ \A s \in Parked : Distinct(tb.list[s])
      /\ \A s \in Parked, t \in Tids : tb.status[t] = s <=> Contains(tb.list[s], t)
      /\ \A t \in Tids : tb.status[t] = "RUNNING" <=> tb.work = t
  BY InPlaceLists
<1>t. tb.status \in [Tids -> Status] /\ tb.to_status \in [Tids -> Status]
  BY DEF Table
<1>p. /\ tid \in Tids
      /\ dst \in Parked
      /\ "READY" \in Parked
      /\ "RUNNING" \notin Parked
      /\ tb.status[tid] = "RUNNING"
  BY <1>0 DEF Parked
<1>n. n \in Tids /\ Contains(tb.list["READY"], n) /\ tb.status[n] = "READY" /\ n # tid
  <2>1. tb.list["READY"] \in Seq(Tids)
    BY <1>p DEF Table
  <2>2. n \in Tids /\ Contains(tb.list["READY"], n)
    BY <2>1 DEF Contains
  <2> QED
    BY <2>2, <1>0, <1>p
<1> HIDE DEF n
<1>1. /\ OnlyList(d, tb, "READY")
      /\ Distinct(d.list["READY"])
      /\ \A x : Contains(d.list["READY"], x) <=> (x # n /\ Contains(tb.list["READY"], x))
  BY <1>0, <1>p, <1>n, DelStatusList
<1>2. schedule_detach_list(tb, n, "READY") = d
  BY <1>n DEF schedule_detach_list
<1> HIDE DEF d
<1>3. /\ w \in Table
      /\ w.status = tb.status
      /\ w.to_status = tb.to_status
      /\ w.prio = tb.prio
      /\ w.list = d.list
      /\ w.work = n
  <2>1. d \in Table /\ d.status = tb.status /\ d.to_status = tb.to_status /\ d.prio = tb.prio
    BY <1>1 DEF OnlyList
  <2> QED
    BY <2>1, <1>n, WorkFields
<1>4. schedule_reinstall_work_role(tb, tid) = Ok(m)
  BY <1>2 DEF schedule_reinstall_work_role, n
<1> HIDE DEF w
<1>5. /\ m \in Table
      /\ m.status = [tb.status EXCEPT ![n] = "RUNNING"]
      /\ m.to_status = [tb.to_status EXCEPT ![n] = "NONE"]
      /\ m.prio = tb.prio
      /\ m.work = n
      /\ m.list = d.list
  <2>1. Synced(m, w, n, "RUNNING")
    BY <1>3, <1>n, SyncFields DEF Status
  <2> QED
    BY <2>1, <1>3 DEF Synced
<1>6. switch_from(tb, tid, "RUNNING") = Ok(m)
  BY <1>4, <1>p DEF switch_from
<1> HIDE DEF m
<1>7. /\ OnlyList(a, m, dst)
      /\ Distinct(a.list[dst])
      /\ \A x : Contains(a.list[dst], x) <=> (x = tid \/ Contains(m.list[dst], x))
  <2>1. Distinct(m.list[dst]) /\ ~Contains(m.list[dst], tid)
    <3>1. CASE dst = "READY"
      BY <3>1, <1>0, <1>1, <1>5, <1>p
    <3>2. CASE dst # "READY"
      BY <3>2, <1>0, <1>1, <1>5, <1>p DEF OnlyList
    <3> QED
      BY <3>1, <3>2
  <2>2. m \in Table /\ tid \in Tids /\ dst \in Parked
    BY <1>5, <1>p
  <2> HIDE DEF tid, dst
  <2> QED
    BY <2>1, <2>2, AddStatusList
<1>8. switch_to(m, tid, dst) = Ok(a)
  <2>1. m.status[tid] = "RUNNING"
    BY <1>5, <1>n, <1>p, <1>t
  <2>2. m.status[tid] # dst
    BY <2>1, <1>p
  <2> QED
    BY <1>p, <2>2 DEF switch_to, schedule_add_list
<1> HIDE DEF a
<1>9. a \in Table /\ a.work = n /\ a.prio = tb.prio /\ a.status = m.status
      /\ a.to_status = m.to_status
  BY <1>5, <1>7 DEF OnlyList
<1>10. schedule_thread_switch(tb, tid) = Ok(z)
  <2>1. /\ Ok(a).ok = TRUE /\ Ok(a).tab = a
        /\ Ok(m).ok = TRUE /\ Ok(m).tab = m
    BY DEF Ok
  <2>2. dst # "RUNNING" /\ (tid = Idle => dst = "READY") /\ n # NoThread
    BY <1>p, <1>n, TidsAssumption
  <2> HIDE DEF z
  <2> QED
    BY <1>p, <1>6, <1>8, <1>9, <2>1, <2>2 DEF schedule_thread_switch, z
<1>11. Synced(z, a, tid, dst)
  BY <1>p, <1>9, SyncFields DEF Status
<1> HIDE DEF z
<1>12. /\ z \in Table
       /\ z.status = [tb.status EXCEPT ![n] = "RUNNING", ![tid] = dst]
       /\ z.to_status = [tb.to_status EXCEPT ![n] = "NONE", ![tid] = "NONE"]
       /\ z.prio = tb.prio
       /\ z.work = n
       /\ z.list = a.list
  BY <1>5, <1>9, <1>11 DEF Synced
<1>13. InPlace(z)
  <2>1. \A s \in Parked : Distinct(z.list[s])
    BY <1>0, <1>1, <1>5, <1>7, <1>12 DEF OnlyList
  <2>2. ASSUME NEW s \in Parked, NEW t \in Tids
        PROVE  z.status[t] = s <=> Contains(z.list[s], t)
    <3>1. z.status[t] = IF t = tid THEN dst ELSE IF t = n THEN "RUNNING" ELSE tb.status[t]
      BY <1>t, <1>12, <1>p, <1>n
    <3>2. Contains(z.list[s], t) <=> ((s = dst /\ t = tid) \/ Contains(d.list[s], t))
      BY <1>5, <1>7, <1>12 DEF OnlyList
    <3>3. Contains(d.list[s], t) <=> (Contains(tb.list[s], t) /\ ~(s = "READY" /\ t = n))
      BY <1>1 DEF OnlyList
    <3> QED
      BY <3>1, <3>2, <3>3, <1>0, <1>p, <1>n
  <2>3. ASSUME NEW t \in Tids
        PROVE  z.status[t] = "RUNNING" <=> z.work = t
    BY <1>0, <1>p, <1>n, <1>t, <1>12
  <2> QED
    BY <2>1, <2>2, <2>3, InPlaceLists
<1> QED
  <2>1. Ok(z).ok = TRUE /\ Ok(z).tab = z
    BY DEF Ok
  <2> QED
    BY <1>n, <1>10, <1>12, <1>13, <2>1 DEF n

\* The very first switch: nobody runs yet.
LEMMA SwitchFirst ==
    ASSUME NEW tb \in Table, InPlace(tb), tb.work = NoThread, NEW tid \in Tids,
           tb.status[tid] = "READY", tb.to_status[tid] = "RUNNING"
    PROVE  LET r == schedule_thread_switch(tb, tid)
           IN  /\ r.ok = TRUE
               /\ r.tab \in Table
               /\ InPlace(r.tab)
               /\ r.tab.status = [tb.status EXCEPT ![tid] = "RUNNING"]
               /\ r.tab.to_status = [tb.to_status EXCEPT ![tid] = "NONE"]
               /\ r.tab.prio = tb.prio
               /\ r.tab.work = tid
<1> DEFINE d == __schedule_del_status_list(tb, tid, "READY")
           w == [d EXCEPT !.work = tid]
           z == __SYNC_THREAD_STATUS(w, tid, "RUNNING")
<1>0. /\ \A s \in Parked : Distinct(tb.list[s])
      /\ \A s \in Parked, t \in Tids : tb.status[t] = s <=> Contains(tb.list[s], t)
      /\ \A t \in Tids : tb.status[t] = "RUNNING" <=> tb.work = t
  BY InPlaceLists
<1>t. tb.status \in [Tids -> Status] /\ tb.to_status \in [Tids -> Status]
  BY DEF Table
<1>p. "READY" \in Parked /\ "RUNNING" \notin Parked /\ tid # NoThread
  BY TidsAssumption DEF Parked
<1>1. /\ OnlyList(d, tb, "READY")
      /\ Distinct(d.list["READY"])
      /\ \A x : Contains(d.list["READY"], x) <=> (x # tid /\ Contains(tb.list["READY"], x))
  BY <1>0, <1>p, DelStatusList
<1>2. switch_from(tb, tid, "READY") = Ok(d)
  BY <1>p DEF switch_from, schedule_detach_list
<1> HIDE DEF d
<1>3. d \in Table /\ d.status = tb.status /\ d.work = NoThread
  BY <1>1 DEF OnlyList
<1>4. /\ w \in Table
      /\ w.status = tb.status
      /\ w.to_status = tb.to_status
      /\ w.prio = tb.prio
      /\ w.list = d.list
      /\ w.work = tid
  BY <1>1, WorkFields DEF OnlyList
<1>5. switch_to(d, tid, "RUNNING") = Ok(w)
  <2>1. schedule_despoil_work_role(d, tid) = Ok(w)
    BY <1>3 DEF schedule_despoil_work_role
  <2> QED
    BY <2>1, <1>p DEF switch_to
<1> HIDE DEF w
<1>6. schedule_thread_switch(tb, tid) = Ok(z)
  <2>1. /\ Ok(d).ok = TRUE /\ Ok(d).tab = d
        /\ Ok(w).ok = TRUE /\ Ok(w).tab = w
    BY DEF Ok
  <2> HIDE DEF z
  <2> QED
    BY <1>p, <1>2, <1>4, <1>5, <2>1 DEF schedule_thread_switch, z
<1>7. Synced(z, w, tid, "RUNNING")
  BY <1>4, SyncFields DEF Status
<1> HIDE DEF z
<1>8. /\ z \in Table
      /\ z.status = [tb.status EXCEPT ![tid] = "RUNNING"]
      /\ z.to_status = [tb.to_status EXCEPT ![tid] = "NONE"]
      /\ z.prio = tb.prio
      /\ z.work = tid
      /\ z.list = d.list
  BY <1>4, <1>7 DEF Synced
<1>9. InPlace(z)
  <2>1. \A s \in Parked : Distinct(z.list[s])
    BY <1>0, <1>1, <1>8 DEF OnlyList
  <2>2. ASSUME NEW s \in Parked, NEW t \in Tids
        PROVE  z.status[t] = s <=> Contains(z.list[s], t)
    <3>1. z.status[t] = IF t = tid THEN "RUNNING" ELSE tb.status[t]
      BY <1>t, <1>8
    <3>2. Contains(d.list[s], t) <=> (Contains(tb.list[s], t) /\ ~(s = "READY" /\ t = tid))
      BY <1>1 DEF OnlyList
    <3> QED
      BY <3>1, <3>2, <1>0, <1>p, <1>8
  <2>3. ASSUME NEW t \in Tids
        PROVE  z.status[t] = "RUNNING" <=> z.work = t
    <3>1. tb.status[t] # "RUNNING"
      BY <1>0, TidsAssumption
    <3> QED
      BY <3>1, <1>t, <1>8
  <2> QED
    BY <2>1, <2>2, <2>3, InPlaceLists
<1> QED
  BY <1>6, <1>8, <1>9 DEF Ok

\* A switch that is refused only clears the request.
LEMMA SwitchRefused ==
    ASSUME NEW tb \in Table, InPlace(tb), NEW tid \in Tids,
           \/ tb.status[tid] = tb.to_status[tid]
           \/ tid = Idle /\ tb.to_status[tid] \notin {"RUNNING", "READY"}
    PROVE  LET r == schedule_thread_switch(tb, tid)
           IN  /\ r.ok = FALSE
               /\ r.tab \in Table
               /\ InPlace(r.tab)
               /\ r.tab.status = tb.status
               /\ r.tab.to_status = [tb.to_status EXCEPT ![tid] = "NONE"]
               /\ r.tab.prio = tb.prio
               /\ r.tab.work = tb.work
               /\ r.tab.list = tb.list
<1> DEFINE z == __SYNC_THREAD_STATUS(tb, tid, tb.status[tid])
<1>t. tb.status \in [Tids -> Status] /\ tb.status[tid] \in Status
  BY DEF Table
<1>1. schedule_thread_switch(tb, tid) = Fail(z)
  <2> HIDE DEF z
  <2> QED
    BY DEF schedule_thread_switch, z
<1>2. Synced(z, tb, tid, tb.status[tid])
  BY <1>t, SyncFields
<1> HIDE DEF z
<1>3. /\ z \in Table
      /\ z.status = tb.status
      /\ z.to_status = [tb.to_status EXCEPT ![tid] = "NONE"]
      /\ z.prio = tb.prio /\ z.work = tb.work /\ z.list = tb.list
  BY <1>t, <1>2 DEF Synced
<1>4. InPlace(z)
  BY <1>3 DEF InPlace
<1> QED
  BY <1>1, <1>3, <1>4 DEF Fail

\* register_new_thread: the new thread is ready, the others are untouched.
LEMMA Register ==
    ASSUME NEW tb \in Table, InPlace(tb), NEW tid \in Tids, NEW p \in Nat,
           tb.status[tid] = "NONE"
    PROVE  LET r == register_new_thread(tb, tid, p)
           IN  /\ r \in Table
               /\ InPlace(r)
               /\ r.status = [tb.status EXCEPT ![tid] = "READY"]
               /\ r.to_status = [tb.to_status EXCEPT ![tid] = "NONE"]
               /\ r.prio = [tb.prio EXCEPT ![tid] = p]
               /\ r.work = tb.work
               /\ Contains(r.list["READY"], tid)
<1> DEFINE w == [tb EXCEPT !.prio = [@ EXCEPT ![tid] = p]]
           a == __schedule_add_status_list(w, tid, "READY")
           z == __SYNC_THREAD_STATUS(a, tid, "READY")
<1>0. /\ \A s \in Parked : Distinct(tb.list[s])
      /\ \A s \in Parked, t \in Tids : tb.status[t] = s <=> Contains(tb.list[s], t)
      /\ \A t \in Tids : tb.status[t] = "RUNNING" <=> tb.work = t
  BY InPlaceLists
<1>t. tb.status \in [Tids -> Status]
  BY DEF Table
<1>p. "READY" \in Parked /\ "RUNNING" \notin Parked /\ "NONE" \notin Parked
  BY DEF Parked
<1>1. /\ w \in Table
      /\ w.status = tb.status
      /\ w.to_status = tb.to_status
      /\ w.prio = [tb.prio EXCEPT ![tid] = p]
      /\ w.list = tb.list
      /\ w.work = tb.work
  BY DEF Table
<1>2. register_new_thread(tb, tid, p) = z
  <2>1. schedule_add_list(w, tid, "READY") = Ok(a)
    <3> HIDE DEF w
    <3> QED
      BY <1>1 DEF schedule_add_list
  <2>2. Ok(a).tab = a
    BY DEF Ok
  <2>3. register_new_thread(tb, tid, p) = __SYNC_THREAD_STATUS(schedule_add_list(w, tid, "READY").tab, tid, "READY")
    BY DEF register_new_thread
  <2> HIDE DEF w, a, z
  <2> QED
    BY <2>1, <2>2, <2>3 DEF z
<1> HIDE DEF w
<1>3. /\ OnlyList(a, w, "READY")
      /\ Distinct(a.list["READY"])
      /\ \A x : Contains(a.list["READY"], x) <=> (x = tid \/ Contains(tb.list["READY"], x))
  <2>1. Distinct(w.list["READY"]) /\ ~Contains(w.list["READY"], tid)
    BY <1>0, <1>1, <1>p
  <2> QED
    BY <1>1, <1>p, <2>1, AddStatusList
<1> HIDE DEF a
<1>4. /\ z \in Table
      /\ z.status = [tb.status EXCEPT ![tid] = "READY"]
      /\ z.to_status = [tb.to_status EXCEPT ![tid] = "NONE"]
      /\ z.prio = [tb.prio EXCEPT ![tid] = p]
      /\ z.work = tb.work
      /\ z.list = a.list
  <2>1. Synced(z, a, tid, "READY")
    BY <1>3, SyncFields DEF OnlyList, Status, Parked
  <2> QED
    BY <1>1, <1>3, <2>1 DEF Synced, OnlyList
<1> HIDE DEF z
<1>5. InPlace(z)
  <2>1. \A s \in Parked : Distinct(z.list[s])
    BY <1>0, <1>1, <1>3, <1>4 DEF OnlyList
  <2>2. ASSUME NEW s \in Parked, NEW t \in Tids
        PROVE  z.status[t] = s <=> Contains(z.list[s], t)
    <3>1. z.status[t] = IF t = tid THEN "READY" ELSE tb.status[t]
      BY <1>t, <1>4
    <3>2. Contains(z.list[s], t) <=> (Contains(tb.list[s], t) \/ (s = "READY" /\ t = tid))
      BY <1>1, <1>3, <1>4 DEF OnlyList
    <3> QED
      BY <3>1, <3>2, <1>0, <1>p
  <2>3. ASSUME NEW t \in Tids
        PROVE  z.status[t] = "RUNNING" <=> z.work = t
    BY <1>0, <1>t, <1>4
  <2> QED
    BY <2>1, <2>2, <2>3, InPlaceLists
<1> QED
  BY <1>2, <1>3, <1>4, <1>5

-----------------------------------------------------------------------------
(* The entry points. *)

\* __schedule_thread with somebody running and somebody ready.
LEMMA Reschedule ==
    ASSUME NEW tb \in Table, InPlace(tb), NEW ref, tb.work \in Tids,
           tb.to_status[tb.work] \in {"NONE", "SUSPEND", "SLEEP"},
           tb.work = Idle => tb.to_status[tb.work] = "NONE",
           tb.list["READY"] # << >>
    PROVE  LET r == __schedule_thread(tb, ref)
               n == Head(tb.list["READY"])
               s == IF tb.to_status[tb.work] = "NONE" THEN "READY"
                    ELSE tb.to_status[tb.work]
           IN  /\ r.ok = TRUE
               /\ r.tab \in Table
               /\ InPlace(r.tab)
               /\ n \in Tids
               /\ tb.status[n] = "READY"
               /\ r.tab.status = [tb.status EXCEPT ![n] = "RUNNING", ![tb.work] = s]
               /\ r.tab.to_status = [tb.to_status EXCEPT ![n] = "NONE", ![tb.work] = "NONE"]
               /\ r.tab.prio = tb.prio
               /\ r.tab.work = n
<1> DEFINE s == IF tb.to_status[tb.work] = "NONE" THEN "READY" ELSE tb.to_status[tb.work]
           w == __SET_THREAD_STATUS(tb, tb.work, s)
<1>1. /\ w \in Table
      /\ w.status = tb.status
      /\ w.to_status = [tb.to_status EXCEPT ![tb.work] = s]
      /\ w.prio = tb.prio
      /\ w.work = tb.work
      /\ w.list = tb.list
  <2>1. s \in Status
    BY DEF Status, Parked
  <2> HIDE DEF s
  <2> QED
    BY <2>1, SetFields
<1>2. __schedule_thread(tb, ref) = schedule_thread_switch(w, w.work)
  <2>1. tb.work # NoThread
    BY TidsAssumption
  <2>2. __schedule_thread(tb, ref) = schedule_thread_switch(w, tb.work)
    BY <2>1 DEF __schedule_thread
  <2> HIDE DEF w
  <2> QED
    BY <1>1, <2>2
<1> HIDE DEF w
<1>3. InPlace(w)
  BY <1>1 DEF InPlace
<1>4. /\ tb.to_status \in [Tids -> Status]
      /\ w.to_status[w.work] = s
      /\ s \in Parked
      /\ w.work = Idle => s = "READY"
  <2>1. tb.to_status \in [Tids -> Status]
    BY DEF Table
  <2> QED
    BY <2>1, <1>1 DEF Parked
<1> HIDE DEF s
<1>5. LET r == schedule_thread_switch(w, w.work)
          n == Head(w.list["READY"])
      IN  /\ r.ok = TRUE
          /\ r.tab \in Table
          /\ InPlace(r.tab)
          /\ n \in Tids
          /\ w.status[n] = "READY"
          /\ r.tab.status = [w.status EXCEPT ![n] = "RUNNING", ![w.work] = s]
          /\ r.tab.to_status = [w.to_status EXCEPT ![n] = "NONE", ![w.work] = "NONE"]
          /\ r.tab.prio = w.prio
          /\ r.tab.work = n
  <2>1. /\ w \in Table /\ InPlace(w) /\ w.work \in Tids
        /\ w.to_status[w.work] \in Parked
        /\ w.work = Idle => w.to_status[w.work] = "READY"
        /\ w.list["READY"] # << >>
    BY <1>1, <1>3, <1>4
  <2> QED
    BY <2>1, <1>4, SwitchOut
<1>6. ASSUME NEW n \in Tids
      PROVE  [w.to_status EXCEPT ![n] = "NONE", ![tb.work] = "NONE"]
               = [tb.to_status EXCEPT ![n] = "NONE", ![tb.work] = "NONE"]
  BY <1>1, <1>4
<1> QED
  BY <1>1, <1>2, <1>5, <1>6 DEF s

\* __schedule_thread called by start_kernel.
LEMMA FirstSchedule ==
    ASSUME NEW tb \in Table, InPlace(tb), tb.work = NoThread,
           tb.list["READY"] # << >>
    PROVE  LET r == __schedule_thread(tb, 0)
               n == Head(tb.list["READY"])
           IN  /\ r.ok = TRUE
               /\ r.tab \in Table
               /\ InPlace(r.tab)
               /\ n \in Tids
               /\ tb.status[n] = "READY"
               /\ r.tab.status = [tb.status EXCEPT ![n] = "RUNNING"]
               /\ r.tab.to_status = [tb.to_status EXCEPT ![n] = "NONE"]
               /\ r.tab.prio = tb.prio
               /\ r.tab.work = n
<1> DEFINE n == Head(tb.list["READY"])
           w == __SET_THREAD_STATUS(tb, n, "RUNNING")
<1>n. n \in Tids /\ tb.status[n] = "READY"
  <2>1. "READY" \in Parked /\ tb.list["READY"] \in Seq(Tids)
    BY DEF Table, Parked
  <2>2. n \in Tids /\ Contains(tb.list["READY"], n)
    BY <2>1 DEF Contains
  <2> QED
    BY <2>1, <2>2, InPlaceLists
<1>1. /\ w \in Table
      /\ w.status = tb.status
      /\ w.to_status = [tb.to_status EXCEPT ![n] = "RUNNING"]
      /\ w.prio = tb.prio
      /\ w.work = tb.work
      /\ w.list = tb.list
  <2> HIDE DEF n
  <2> QED
    BY <1>n, SetFields DEF Status
<1>2. __schedule_thread(tb, 0) = schedule_thread_switch(w, n)
  BY DEF __schedule_thread
<1> HIDE DEF w
<1>3. InPlace(w)
  BY <1>1 DEF InPlace
<1>t. tb.to_status \in [Tids -> Status]
  BY DEF Table
<1>4. w.to_status[n] = "RUNNING" /\ w.status[n] = "READY"
  <2> HIDE DEF n
  <2> QED
    BY <1>n, <1>t, <1>1
<1>5. LET r == schedule_thread_switch(w, n)
      IN  /\ r.ok = TRUE
          /\ r.tab \in Table
          /\ InPlace(r.tab)
          /\ r.tab.status = [w.status EXCEPT ![n] = "RUNNING"]
          /\ r.tab.to_status = [w.to_status EXCEPT ![n] = "NONE"]
          /\ r.tab.prio = w.prio
          /\ r.tab.work = n
  <2> HIDE DEF n
  <2> QED
    BY <1>n, <1>1, <1>3, <1>4, SwitchFirst
<1>6. [w.to_status EXCEPT ![n] = "NONE"] = [tb.to_status EXCEPT ![n] = "NONE"]
  <2> HIDE DEF n
  <2> QED
    BY <1>n, <1>t, <1>1
<1> QED
  BY <1>n, <1>1, <1>2, <1>5, <1>6

\* A move to another list by schedule_thread_suspend or _sleep on another
\* thread, or by schedule_thread_wakeup: it happens or nothing does.
LEMMA Park ==
    ASSUME NEW tb \in Table, InPlace(tb), tb.work \in Tids,
           NEW tid \in Tids, tb.status[tid] \in Parked, NEW s \in Parked
    PROVE  LET r == schedule_thread_park(tb, tid, s).tab
           IN  /\ r \in Table
               /\ InPlace(r)
               /\ r.status \in {tb.status, [tb.status EXCEPT ![tid] = s]}
               /\ tid = Idle /\ s # "READY" => r.status = tb.status
               /\ r.to_status = [tb.to_status EXCEPT ![tid] = "NONE"]
               /\ r.prio = tb.prio
               /\ r.work = tb.work
<1> DEFINE w == __SET_THREAD_STATUS(tb, tid, s)
<1>1. /\ w \in Table
      /\ w.status = tb.status
      /\ w.to_status = [tb.to_status EXCEPT ![tid] = s]
      /\ w.prio = tb.prio
      /\ w.work = tb.work
      /\ w.list = tb.list
  <2>1. s \in Status
    BY DEF Status
  <2> QED
    BY <2>1, SetFields, Zenon
<1>2. schedule_thread_park(tb, tid, s) = schedule_thread_switch(w, tid)
  BY DEF schedule_thread_park
<1> HIDE DEF w
<1>3. InPlace(w) /\ w.work # NoThread
  BY <1>1, TidsAssumption DEF InPlace
<1>t. tb.to_status \in [Tids -> Status] /\ "RUNNING" \notin Parked
  BY DEF Table, Parked
<1>4. w.to_status[tid] = s
  BY <1>t, <1>1
<1>5. [w.to_status EXCEPT ![tid] = "NONE"] = [tb.to_status EXCEPT ![tid] = "NONE"]
  BY <1>t, <1>1
<1>6. CASE tb.status[tid] = s \/ (tid = Idle /\ s # "READY")
  <2>1. \/ w.status[tid] = w.to_status[tid]
        \/ tid = Idle /\ w.to_status[tid] \notin {"RUNNING", "READY"}
    BY <1>1, <1>4, <1>6, <1>t
  <2>2. LET r == schedule_thread_switch(w, tid)
        IN  /\ r.tab \in Table
            /\ InPlace(r.tab)
            /\ r.tab.status = w.status
            /\ r.tab.to_status = [w.to_status EXCEPT ![tid] = "NONE"]
            /\ r.tab.prio = w.prio
            /\ r.tab.work = w.work
    BY <1>1, <1>3, <2>1, SwitchRefused
  <2> QED
    BY <1>1, <1>2, <1>5, <2>2
<1>7. CASE tb.status[tid] # s /\ (tid = Idle => s = "READY")
  <2>0. /\ w.status[tid] \in Parked
        /\ w.to_status[tid] \in Parked
        /\ w.status[tid] # w.to_status[tid]
        /\ tid = Idle => w.to_status[tid] = "READY"
    BY <1>1, <1>4, <1>7
  <2>1. LET r == schedule_thread_switch(w, tid)
        IN  /\ r.tab \in Table
            /\ InPlace(r.tab)
            /\ r.tab.status = [w.status EXCEPT ![tid] = w.to_status[tid]]
            /\ r.tab.to_status = [w.to_status EXCEPT ![tid] = "NONE"]
            /\ r.tab.prio = w.prio
            /\ r.tab.work = w.work
    BY <1>1, <1>3, <2>0, SwitchParked
  <2> QED
    BY <1>1, <1>2, <1>4, <1>5, <1>7, <2>1
<1> QED
  BY <1>6, <1>7

\* schedule_thread_wakeup: a suspended or sleeping thread becomes ready.
LEMMA Wake ==
    ASSUME NEW tb \in Table, InPlace(tb), tb.work \in Tids, NEW tid \in Tids
    PROVE  LET r == schedule_thread_wakeup(tb, tid).tab
           IN  /\ r \in Table
               /\ InPlace(r)
               /\ r.status \in {tb.status, [tb.status EXCEPT ![tid] = "READY"]}
               /\ tb.status[tid] \notin {"SUSPEND", "SLEEP"} => r = tb
               /\ r.to_status \in {tb.to_status, [tb.to_status EXCEPT ![tid] = "NONE"]}
               /\ r.prio = tb.prio
               /\ r.work = tb.work
<1>1. CASE tb.status[tid] \notin {"SUSPEND", "SLEEP"}
  BY <1>1 DEF schedule_thread_wakeup, Fail
<1>2. CASE tb.status[tid] \in {"SUSPEND", "SLEEP"}
  <2>1. schedule_thread_wakeup(tb, tid) = schedule_thread_park(tb, tid, "READY")
    BY <1>2 DEF schedule_thread_wakeup, schedule_thread_park
  <2>2. "READY" \in Parked /\ tb.status[tid] \in Parked
    BY <1>2 DEF Parked
  <2>3. LET r == schedule_thread_park(tb, tid, "READY").tab
        IN  /\ r \in Table
            /\ InPlace(r)
            /\ r.status \in {tb.status, [tb.status EXCEPT ![tid] = "READY"]}
            /\ r.to_status = [tb.to_status EXCEPT ![tid] = "NONE"]
            /\ r.prio = tb.prio
            /\ r.work = tb.work
    BY <2>2, Park
  <2> QED
    BY <1>2, <2>1, <2>3
<1> QED
  BY <1>1, <1>2
=============================================================================
