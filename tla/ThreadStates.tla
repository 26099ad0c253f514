---------------------------- MODULE ThreadStates ----------------------------
(***************************************************************************)
(* What the scheduler promises of the threads' states, without lists,      *)
(* locks, priorities or interrupts: the transitions that the comment in    *)
(* schedule_thread_switch (kernel/sched.c) allows, and exactly one thread  *)
(* running from the first switch on.                                       *)
(***************************************************************************)
CONSTANTS Tids, Idle

VARIABLE st    \* the state of each thread, "NONE" before it is created

Waiting == {"SUSPEND", "SLEEP"}

\* The idle thread is only ever ready or running.
MayBe(t, s) == t = Idle => s \notin Waiting

Init ==
    /\ st \in [Tids -> {"NONE", "READY"}]
    /\ st[Idle] = "READY"

Create(t) == st[t] = "NONE" /\ st' = [st EXCEPT ![t] = "READY"]

First(t) ==
    /\ \A u \in Tids : st[u] # "RUNNING"
    /\ st[t] = "READY"
    /\ st' = [st EXCEPT ![t] = "RUNNING"]

\* ready ---> suspend/sleep, suspend ---> ready/sleep, sleep ---> ready/suspend
Moved(from, t, s) == [from EXCEPT ![t] = s]

Move(t, s) ==
    /\ st[t] \in {"READY"} \cup Waiting
    /\ s \in {"READY"} \cup Waiting
    /\ MayBe(t, s)
    /\ st' = Moved(st, t, s)

\* running ---> ready/suspend/sleep together with ready ---> running.
SwitchFrom(from, t, s, n) ==
    /\ from[t] = "RUNNING"
    /\ from[n] = "READY"
    /\ s \in {"READY"} \cup Waiting
    /\ MayBe(t, s)
    /\ st' = [from EXCEPT ![t] = s, ![n] = "RUNNING"]

Switch(t, s, n) == SwitchFrom(st, t, s, n)

\* An interrupt wakes a suspended thread and switches in one go.
WakeAndSwitch(w, t, s, n) ==
    /\ st[w] = "SUSPEND"
    /\ SwitchFrom(Moved(st, w, "READY"), t, s, n)

Next ==
    \/ \E t \in Tids : Create(t) \/ First(t)
    \/ \E t \in Tids, s \in {"READY"} \cup Waiting : Move(t, s)
    \/ \E t, n \in Tids, s \in {"READY"} \cup Waiting : Switch(t, s, n)
    \/ \E w, t, n \in Tids, s \in {"READY"} \cup Waiting : WakeAndSwitch(w, t, s, n)

Spec == Init /\ [][Next]_st
=============================================================================
