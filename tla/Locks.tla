------------------------------- MODULE Locks --------------------------------
(***************************************************************************)
(* Spin locks, a mutex and a semaphore (kernel/spinlock.c, mutex.c,        *)
(* semaphore.c) used by threads that an interrupt may preempt and by an    *)
(* interrupt handler.  There are three spin locks: a wait queue's, a       *)
(* thread's, which wake_up_common takes inside the queue's with interrupts *)
(* already masked (kernel/wait.c), and one that stands for all others,     *)
(* which no handler takes.                                                 *)
(*                                                                         *)
(* One action is one access to shared state.  There is one processor: a    *)
(* thread runs only while cur names it, and not while the handler runs.    *)
(***************************************************************************)
EXTENDS Integers, FiniteSets

CONSTANTS
    Threads,
    Isr,        \* the interrupt handler, as a context that takes locks
    Permits,    \* the value sema_init is called with
    SemDebt     \* bound: sema_down is called while the counter is above -SemDebt

ASSUME LocksAssumption ==
    /\ Threads # {}
    /\ Isr \notin Threads
    /\ Permits \in Nat
    /\ SemDebt \in Nat

VARIABLES
    cur,         \* the thread that has the processor
    isr,         \* an interrupt of it is being handled
    irq,         \* interrupts are on (CPSR_BIT_I is clear)
    preempt_cnt, \* g_sched_preempt_cnt
    spin,        \* each spin lock's counter
    flag,        \* and its saved CPSR_BIT_I
    mutex,       \* the mutex's counter
    sem,         \* the semaphore's counter
    pc,          \* where each context is in a call
    op           \* which spin lock it is at, by which function, and whether
                 \* inside a section of the queue's lock

vars == <<cur, isr, irq, preempt_cnt, spin, flag, mutex, sem, pc, op>>
procVars == <<cur, isr>>
spinVars == <<irq, preempt_cnt, spin, flag, op>>
waitVars == <<mutex, sem>>

Contexts == Threads \cup {Isr}
SpinLocks == {"queue", "thread", "other"}
Kinds    == {"plain", "irq", "irqsave"}
Holding  == {"taken", "saved", "inside", "giving"}
NoSwitch == {"counted", "drop"} \cup Holding
Places   == {"run", "spin", "passed", "unmask", "restore", "flagged"} \cup NoSwitch
            \cup {"mutex_passed", "mutex_in", "mutex_out"}
            \cup {"sem_passed", "sem_in", "sem_out"}

Operations == [lock : SpinLocks, kind : Kinds, nested : BOOLEAN]
Section(l, k, n) == [lock |-> l, kind |-> k, nested |-> n]
NoOp    == Section("other", "plain", FALSE)
OnQueue == Section("queue", "irqsave", FALSE)

Init ==
    /\ cur \in Threads
    /\ isr = FALSE
    /\ irq = TRUE
    /\ preempt_cnt = 0
    /\ spin = [l \in SpinLocks |-> 0]
    /\ flag = [l \in SpinLocks |-> FALSE]
    /\ mutex = 0
    /\ sem = Permits
    /\ pc = [c \in Contexts |-> "run"]
    /\ op = [c \in Contexts |-> NoOp]

Processor   == IF isr THEN Isr ELSE cur
Runs(c, at) == Processor = c /\ pc[c] = at
Goto(c, at) == pc' = [pc EXCEPT ![c] = at]

\* From an unlock back to the section around it, or out of all.
Return(c) ==
    /\ Goto(c, IF op[c].nested THEN "inside" ELSE "run")
    /\ op' = [op EXCEPT ![c] = IF @.nested THEN OnQueue ELSE NoOp]

-----------------------------------------------------------------------------
(* The spin lock. *)

spin_is_locked(l) == spin[l] # 0

\* A call of spin_lock or spin_lock_irq, _irqsave.
spin_lock(c, at, o) ==
    /\ Runs(c, at)
    /\ op' = [op EXCEPT ![c] = o]
    /\ Goto(c, "spin")
    /\ UNCHANGED <<procVars, irq, preempt_cnt, spin, flag, waitVars>>

\* The locks no handler takes (kobjects, sockets): any of the functions.
lock_other(t, kind) == spin_lock(t, "run", Section("other", kind, FALSE))

\* add_wait_queue, remove_wait_queue; wake_up_common in a thread or handler.
wake_up_common(c) == spin_lock(c, "run", OnQueue)

\* thread_state_pending, and thread_state_signal as __wait_event calls it.
thread_state_pending(t) == spin_lock(t, "run", Section("thread", "irqsave", FALSE))

\* thread_state_signal for a waiter on the queue wake_up_common has locked.
thread_state_signal(c) ==
    /\ op[c] = OnQueue
    /\ spin_lock(c, "inside", Section("thread", "irqsave", TRUE))

\* The loop of spin_lock ends when the lock is free.
spin_pass(c) ==
    /\ Runs(c, "spin")
    /\ ~spin_is_locked(op[c].lock)
    /\ Goto(c, "passed")
    /\ UNCHANGED <<procVars, spinVars, waitVars>>

\* spin_try_lock and its variants return when the lock is held.
spin_try_lock(t, kind) ==
    /\ Runs(t, "run")
    /\ IF spin_is_locked("other")
       THEN UNCHANGED <<pc, op>>
       ELSE Goto(t, "passed") /\ op' = [op EXCEPT ![t] = Section("other", kind, FALSE)]
    /\ UNCHANGED <<procVars, irq, preempt_cnt, spin, flag, waitVars>>

\* Slip: preemption stays on.
preempt_left_on(c) ==
    /\ Runs(c, "passed")
    /\ Goto(c, "counted")
    /\ UNCHANGED <<procVars, spinVars, waitVars>>

mrt_preempt_disable(c) ==
    /\ Runs(c, "passed")
    /\ preempt_cnt' = preempt_cnt + 1
    /\ Goto(c, "counted")
    /\ UNCHANGED <<procVars, irq, spin, flag, op, waitVars>>

\* atomic_inc, after which a plain spin_lock returns.
spin_take(c) ==
    /\ Runs(c, "counted")
    /\ spin' = [spin EXCEPT ![op[c].lock] = @ + 1]
    /\ Goto(c, CASE op[c].kind = "plain"   -> "inside"
                 [] op[c].kind = "irq"     -> "saved"
                 [] op[c].kind = "irqsave" -> "taken")
    /\ UNCHANGED <<procVars, irq, preempt_cnt, flag, op, waitVars>>

\* Slip: the state is not saved.
save_nothing(c) ==
    /\ Runs(c, "taken")
    /\ Goto(c, "saved")
    /\ UNCHANGED <<procVars, spinVars, waitVars>>

\* spin_lock_irqsave notes whether interrupts were masked ...
save_flag(c) ==
    /\ Runs(c, "taken")
    /\ flag' = [flag EXCEPT ![op[c].lock] = ~irq]
    /\ Goto(c, "saved")
    /\ UNCHANGED <<procVars, irq, preempt_cnt, spin, op, waitVars>>

\* ... and masks them, as spin_lock_irq does.
mrt_disable_cpu_irq(c) ==
    /\ Runs(c, "saved")
    /\ irq' = FALSE
    /\ Goto(c, "inside")
    /\ UNCHANGED <<procVars, preempt_cnt, spin, flag, op, waitVars>>

\* spin_unlock, _irq and _irqrestore return when the lock is not held.
spin_unlock(c) ==
    /\ Runs(c, "inside")
    /\ IF spin_is_locked(op[c].lock)
       THEN Goto(c, "giving") /\ UNCHANGED op
       ELSE Return(c)
    /\ UNCHANGED <<procVars, irq, preempt_cnt, spin, flag, waitVars>>

\* Slip: the caller has counted down already.
give_twice(c) ==
    /\ Runs(c, "giving")
    /\ spin' = [spin EXCEPT ![op[c].lock] = @ - 2]
    /\ Goto(c, "drop")
    /\ UNCHANGED <<procVars, irq, preempt_cnt, flag, op, waitVars>>

\* spin_unlock gives the lock back ...
spin_give(c) ==
    /\ Runs(c, "giving")
    /\ spin' = [spin EXCEPT ![op[c].lock] = @ - 1]
    /\ Goto(c, "drop")
    /\ UNCHANGED <<procVars, irq, preempt_cnt, flag, op, waitVars>>

\* ... and then preemption.
mrt_preempt_enable(c) ==
    /\ Runs(c, "drop")
    /\ preempt_cnt' = IF preempt_cnt = 0 THEN 0 ELSE preempt_cnt - 1
    /\ \/ op[c].kind = "plain"   /\ Return(c)
       \/ op[c].kind = "irq"     /\ Goto(c, "unmask")  /\ UNCHANGED op
       \/ op[c].kind = "irqsave" /\ Goto(c, "restore") /\ UNCHANGED op
    /\ UNCHANGED <<procVars, irq, spin, flag, waitVars>>

spin_unlock_irq(c) ==
    /\ Runs(c, "unmask")
    /\ irq' = TRUE
    /\ Return(c)
    /\ UNCHANGED <<procVars, preempt_cnt, spin, flag, waitVars>>

\* Unmasks only if interrupts were not masked when the lock was taken.
spin_unlock_irqrestore(c) ==
    /\ Runs(c, "restore")
    /\ irq' = (irq \/ ~flag[op[c].lock])
    /\ Goto(c, "flagged")
    /\ UNCHANGED <<procVars, preempt_cnt, spin, flag, op, waitVars>>

\* Clears the flag when the lock is no longer its own.
clear_flag(c) ==
    /\ Runs(c, "flagged")
    /\ flag' = [flag EXCEPT ![op[c].lock] = FALSE]
    /\ Return(c)
    /\ UNCHANGED <<procVars, irq, preempt_cnt, spin, waitVars>>

-----------------------------------------------------------------------------
(* The mutex and the semaphore.  A caller that finds one locked gives the   *)
(* processor to another thread and tests again.                             *)

schedule_thread(t) ==
    /\ \E u \in Threads : cur' = u
    /\ UNCHANGED <<isr, spinVars, waitVars, pc>>

mutex_lock(t) ==
    /\ Runs(t, "run")
    /\ \/ mutex # 0 /\ schedule_thread(t)
       \/ /\ mutex = 0
          /\ Goto(t, "mutex_passed")
          /\ UNCHANGED <<procVars, spinVars, waitVars>>

\* Returns -ER_BUSY instead of waiting.
mutex_try_lock(t) ==
    /\ Runs(t, "run")
    /\ Goto(t, IF mutex = 0 THEN "mutex_passed" ELSE "run")
    /\ UNCHANGED <<procVars, spinVars, waitVars>>

mutex_take(t) ==
    /\ Runs(t, "mutex_passed")
    /\ mutex' = mutex + 1
    /\ Goto(t, "mutex_in")
    /\ UNCHANGED <<procVars, spinVars, sem>>

\* mutex_unlock tests ...
mutex_unlock(t) ==
    /\ Runs(t, "mutex_in")
    /\ Goto(t, IF mutex = 0 THEN "run" ELSE "mutex_out")
    /\ UNCHANGED <<procVars, spinVars, waitVars>>

\* Slip: the counter is cleared.
mutex_clear(t) ==
    /\ Runs(t, "mutex_out")
    /\ mutex' = 0
    /\ Goto(t, "run")
    /\ UNCHANGED <<procVars, spinVars, sem>>

\* ... and counts down.
mutex_give(t) ==
    /\ Runs(t, "mutex_out")
    /\ mutex' = mutex - 1
    /\ Goto(t, "run")
    /\ UNCHANGED <<procVars, spinVars, sem>>

sema_is_locked == sem = 0

sema_down(t) ==
    /\ Runs(t, "run")
    /\ \/ sema_is_locked /\ schedule_thread(t)
       \/ /\ ~sema_is_locked
          /\ sem > -SemDebt
          /\ Goto(t, "sem_passed")
          /\ UNCHANGED <<procVars, spinVars, waitVars>>

sema_down_try_lock(t) ==
    /\ Runs(t, "run")
    /\ sem > -SemDebt
    /\ Goto(t, IF sema_is_locked THEN "run" ELSE "sem_passed")
    /\ UNCHANGED <<procVars, spinVars, waitVars>>

sema_take(t) ==
    /\ Runs(t, "sem_passed")
    /\ sem' = sem - 1
    /\ Goto(t, "sem_in")
    /\ UNCHANGED <<procVars, spinVars, mutex>>

\* sema_up counts only when it has seen the counter at 0.
sema_up(t) ==
    /\ Runs(t, "sem_in")
    /\ Goto(t, IF sema_is_locked THEN "sem_out" ELSE "run")
    /\ UNCHANGED <<procVars, spinVars, waitVars>>

\* Slip: the permit is given back twice.
sema_give_twice(t) ==
    /\ Runs(t, "sem_out")
    /\ sem' = sem + 2
    /\ Goto(t, "run")
    /\ UNCHANGED <<procVars, spinVars, mutex>>

sema_give(t) ==
    /\ Runs(t, "sem_out")
    /\ sem' = sem + 1
    /\ Goto(t, "run")
    /\ UNCHANGED <<procVars, spinVars, mutex>>

-----------------------------------------------------------------------------
(* Interrupts. *)

\* The processor masks interrupts and enters the handler, which takes no lock
\* (systick_isr) or calls wake_up_common (the key and touch drivers).
irq_entry ==
    /\ irq
    /\ ~isr
    /\ isr' = TRUE
    /\ irq' = FALSE
    /\ UNCHANGED <<cur, preempt_cnt, spin, flag, waitVars, pc, op>>

\* Slip: the preemption count is not looked at.
irq_exit_always(u) ==
    /\ Runs(Isr, "run")
    /\ cur' = u
    /\ isr' = FALSE
    /\ irq' = TRUE
    /\ UNCHANGED <<preempt_cnt, spin, flag, waitVars, pc, op>>

\* The exit restores the interrupted thread's state; with preemption on it
\* may give the processor to u.
irq_exit(u) ==
    /\ Runs(Isr, "run")
    /\ cur' = IF preempt_cnt = 0 THEN u ELSE cur
    /\ isr' = FALSE
    /\ irq' = TRUE
    /\ UNCHANGED <<preempt_cnt, spin, flag, waitVars, pc, op>>

-----------------------------------------------------------------------------
\* The spin lock calls a handler makes, and how they go on.
SpinCall(c) ==
    \/ wake_up_common(c)
    \/ thread_state_signal(c)
    \/ spin_pass(c)
    \/ mrt_preempt_disable(c)
    \/ spin_take(c)
    \/ save_flag(c)
    \/ mrt_disable_cpu_irq(c)
    \/ spin_unlock(c)
    \/ spin_give(c)
    \/ mrt_preempt_enable(c)
    \/ spin_unlock_irq(c)
    \/ spin_unlock_irqrestore(c)
    \/ clear_flag(c)

ThreadCall(t) ==
    \/ \E kind \in Kinds : lock_other(t, kind) \/ spin_try_lock(t, kind)
    \/ thread_state_pending(t)

WaitCall(t) ==
    \/ mutex_lock(t) \/ mutex_try_lock(t) \/ mutex_take(t)
    \/ mutex_unlock(t) \/ mutex_give(t)
    \/ sema_down(t) \/ sema_down_try_lock(t) \/ sema_take(t)
    \/ sema_up(t) \/ sema_give(t)

Interrupt == irq_entry \/ \E u \in Threads : irq_exit(u)

Next ==
    \/ Interrupt
    \/ \E c \in Contexts : SpinCall(c)
    \/ \E t \in Threads : ThreadCall(t) \/ WaitCall(t)

Spec == Init /\ [][Next]_vars

-----------------------------------------------------------------------------
(* Properties. *)

\* The variables have the types of the C objects they stand for.
TypeOK ==
    /\ cur \in Threads
    /\ isr \in BOOLEAN
    /\ irq \in BOOLEAN
    /\ preempt_cnt \in Nat
    /\ spin \in [SpinLocks -> Nat]
    /\ flag \in [SpinLocks -> BOOLEAN]
    /\ mutex \in Int
    /\ sem \in Int
    /\ pc \in [Contexts -> Places]
    /\ op \in [Contexts -> Operations]

Holds(c, l) ==
    \/ pc[c] \in Holding /\ op[c].lock = l
    \/ op[c].nested /\ l = "queue"

\* Although spin_lock tests the counter with preemption on and counts it up
\* later, on one processor no two hold a lock: whoever has counted keeps the
\* processor until it has unlocked, so a stale test is still true.
SpinExclusive ==
    \A l \in SpinLocks :
        /\ \A c, d \in Contexts : Holds(c, l) /\ Holds(d, l) => c = d
        /\ spin_is_locked(l) <=> \E c \in Contexts : Holds(c, l)

\* A running thread that is about to take a lock never finds it held, be it
\* inside another lock's section or not: the loop in spin_lock, which nobody
\* could end, never turns in a thread.
ThreadsNeverSpin ==
    \A t \in Threads :
        Processor = t /\ pc[t] \in {"spin", "passed", "counted"}
            => ~spin_is_locked(op[t].lock)

\* In a section that masks interrupts: a nested one, or from the masking to
\* the instruction that unmasks.
Masked(c) ==
    \/ op[c].nested
    \/ op[c].kind # "plain" /\ pc[c] \in {"inside", "giving", "drop", "unmask", "restore"}

\* Interrupts are off exactly in handlers and in sections that mask them.
\* An unlock inside another section, or in a handler, does not turn them on
\* early, and the last one does turn them on, although the flag that tells
\* the two apart belongs to the lock: all its users share it, nested and
\* outermost ones, and it is cleared after the unlock.
IrqRestored == irq <=> ~isr /\ \A t \in Threads : ~Masked(t)

MutexHolders == {t \in Threads : pc[t] \in {"mutex_in", "mutex_out"}}
SemHolders   == {t \in Threads : pc[t] \in {"sem_in", "sem_out"}}

\* The mutex counts its holders: nobody's unlock returns early or takes
\* another holder's count, so the mutex is free when all have left.
MutexCounts == mutex = Cardinality(MutexHolders)

\* Down and up never make permits.
SemNoGain == sem + Cardinality(SemHolders) <= Permits

\* kernel/mutex.c: "if it has been locked, schedule another thread": nobody
\* gets in while somebody is.
MutexExclusive == Cardinality(MutexHolders) <= 1

\* kernel/semaphore.c: "semaphore unlock": once all are out again, the
\* permits are back.
PermitsReturn == (\A t \in Threads : pc[t] = "run") => sem = Permits

\* kernel/spinlock.c: "if it has been locked, schedule another thread": who
\* finds the lock held does not keep the processor from its holder.
SpinnerYields ==
    \A c \in Contexts : Runs(c, "spin") => ~spin_is_locked(op[c].lock)
=============================================================================
