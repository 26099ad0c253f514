---------------------------- MODULE LocksProofs -----------------------------
(* The spin locks, for every set of threads: the remaining steps keep       *)
(* SpinInv, and what follows from it.                                       *)
EXTENDS LocksSteps

\* A step that changes nothing.
LEMMA StutterStep ==
  ASSUME SpinInv, UNCHANGED vars
  PROVE  SpinInv'
  <1>1. TypeOK'
    BY DEF vars, SpinInv, TypeOK
  <1>2. OpInv' /\ ProcInv' /\ CountInv'
    BY DEF vars, SpinInv, OpInv, ProcInv, CountInv
  <1>3. HoldInv' /\ MaskInv' /\ FlagInv'
    BY DEF vars, SpinInv, HoldInv, MaskInv, FlagInv
  <1> QED  BY <1>1, <1>2, <1>3 DEF SpinInv

\* spin_try_lock: as far as passing the test, or nothing.
LEMMA TryStep ==
  ASSUME SpinInv, NEW c \in Threads, NEW kind \in Kinds, spin_try_lock(c, kind)
  PROVE  SpinInv'
  <1> DEFINE o == Section("other", kind, FALSE)
  <1>l. CASE spin_is_locked("other")
    <2>1. UNCHANGED vars
      BY <1>l DEF spin_try_lock, vars, procVars, waitVars
    <2> QED  BY <2>1, StutterStep
  <1>u. CASE ~spin_is_locked("other")
    <2>a. /\ Processor = c /\ pc[c] = "run" /\ spin["other"] = 0
          /\ pc' = [pc EXCEPT ![c] = "passed"] /\ op' = [op EXCEPT ![c] = o]
          /\ UNCHANGED <<cur, isr, irq, preempt_cnt, spin, flag, waitVars>>
      BY <1>u DEF spin_try_lock, Runs, Goto, procVars, spin_is_locked
    <2>c. c \in Contexts /\ c # Isr
      BY LocksAssumption DEF Contexts
    <2>f. Know(c)
      BY <2>a, <2>c, Facts
    <2>n. ~op[c].nested
      BY <2>a, <2>f DEF Know, OpOK, NoSwitch, Holding
    <2>o. o \in Operations /\ o.lock = "other" /\ ~o.nested
      BY Zenon DEF Section, Operations, SpinLocks, Kinds
    <2> HIDE DEF o
    <2>1. Shift(c, "passed", o)
      BY <2>a DEF Shift
    <2>2. OpOK(c, "passed", o)
      BY <2>c, <2>o DEF OpOK
    <2>3. CountStep(c, "passed", o)
      BY <2>a, <2>f, <2>n, <2>o DEF Know, CountStep, Depth, NoSwitch, Holding
    <2>4. HoldStep(c, "passed", o)
      <3>1. \A l \in SpinLocks : ~Has("passed", o, l) /\ ~Has("run", op[c], l)
        BY <2>n, <2>o DEF Has, Holding
      <3> QED  BY <2>a, <2>f, <2>o, <3>1 DEF Know, HoldStep, One
    <2>5. MaskStep("passed", o)
      <3>1. ~Masking("passed", o) /\ ~Masking("run", op[c])
        BY <2>n, <2>o DEF Masking
      <3> QED  BY <2>a, <2>f, <3>1 DEF Know, MaskStep
    <2>6. FlagStep(c, "passed", o)
      BY <2>a, <2>f, <2>o DEF Know, FlagStep, FlagOK
    <2>7. "passed" \in Places
      BY DEF Places
    <2> QED  BY <2>a, <2>c, <2>o, <2>1, <2>2, <2>3, <2>4, <2>5, <2>6, <2>7, StepRule
  <1> QED  BY <1>l, <1>u

\* The processor goes to a thread at rest, with nobody in a section, after a
\* step that changed no lock: of an interrupt's exit, or of a thread that
\* moves between places outside all sections.
LEMMA SwitchStep ==
  ASSUME SpinInv, TypeOK', OpInv', op' = op, UNCHANGED <<preempt_cnt, spin, flag>>,
         pc[Isr] = "run", pc'[Isr] = "run", ~isr', irq',
         AtRest(pc[cur], op[cur]),
         \A t \in Threads : pc'[t] # pc[t] => AtRest(pc'[t], op[t])
  PROVE  SpinInv'
  <1>1. cur \in Threads /\ cur' \in Threads /\ Isr \in Contexts
    BY DEF SpinInv, TypeOK, Contexts
  <1>2. \A t \in Threads : AtRest(pc'[t], op'[t]) /\ AtRest(pc[t], op[t])
    BY DEF SpinInv, ProcInv
  <1>3. ~op[Isr].nested
    BY <1>1 DEF SpinInv, OpInv, OpOK, NoSwitch, Holding
  <1>4. /\ \A t \in Threads : /\ Depth(pc'[t], op'[t]) = 0 /\ Depth(pc[t], op[t]) = 0
                               /\ ~Masking(pc'[t], op'[t])
                               /\ \A l \in SpinLocks : ~Has(pc'[t], op'[t], l) /\ ~Has(pc[t], op[t], l)
        /\ Depth("run", op[Isr]) = 0
        /\ \A l \in SpinLocks : ~Has("run", op[Isr], l)
    BY <1>2, <1>3 DEF AtRest, Depth, Masking, Has, NoSwitch, Holding
  <1>5. ProcInv'
    BY <1>2 DEF ProcInv
  <1>6. CountInv'
    BY <1>1, <1>4 DEF SpinInv, CountInv
  <1>7. HoldInv'
    BY <1>1, <1>4 DEF SpinInv, HoldInv, One
  <1>8. MaskInv'
    BY <1>1, <1>4 DEF MaskInv
  <1>9. FlagInv'
    BY <1>1, <1>2, <1>3 DEF FlagInv, FlagOK, AtRest, NoSwitch, Holding
  <1> QED  BY <1>5, <1>6, <1>7, <1>8, <1>9 DEF SpinInv

\* The places of a thread that is in no spin lock section.
Quiet == {"run", "mutex_passed", "mutex_in", "mutex_out", "sem_passed", "sem_in", "sem_out"}

\* A thread that goes from one such place to another may also give the
\* processor to any thread: this is all the mutex and the semaphore do.
QuietMove(t, p) ==
    /\ Processor = t /\ pc[t] \in Quiet
    /\ pc' = [pc EXCEPT ![t] = p] /\ p \in Quiet
    /\ cur' \in Threads /\ mutex' \in Int /\ sem' \in Int
    /\ UNCHANGED <<isr, spinVars>>

LEMMA QuietStep ==
  ASSUME SpinInv, NEW t \in Threads, NEW p, QuietMove(t, p)
  PROVE  SpinInv'
  <1>c. t \in Contexts /\ t # Isr /\ Isr \in Contexts
    BY LocksAssumption DEF Contexts
  <1>f. Know(t) /\ Turn(t)
    BY <1>c, Facts, Running DEF QuietMove
  <1>r. ~isr /\ t = cur /\ pc[Isr] = "run"
    BY <1>c, <1>f DEF Turn
  <1>p. p \in Places /\ p \in Quiet /\ pc[t] \in Quiet
    BY DEF QuietMove, Quiet, Places
  <1>n. AtRest(pc[t], op[t]) /\ AtRest(p, op[t])
    BY <1>f, <1>p DEF Know, OpOK, AtRest, Quiet, NoSwitch, Holding
  <1>q. /\ pc'[t] = p /\ op' = op
        /\ \A d \in Contexts : d # t => pc'[d] = pc[d]
        /\ UNCHANGED <<isr, irq, preempt_cnt, spin, flag>>
    BY <1>c, <1>f DEF QuietMove, Know, spinVars
  <1>1. TypeOK'
    <2>1. pc' \in [Contexts -> Places]
      BY <1>f, <1>p DEF QuietMove, Know
    <2> QED  BY <1>q, <2>1 DEF SpinInv, TypeOK, QuietMove
  <1>2. OpInv'
    <2>1. OpOK(t, p, op[t])
      BY <1>c, <1>f, <1>n, <1>p DEF Know, OpOK, AtRest, Quiet
    <2> QED  BY <1>q, <2>1 DEF SpinInv, OpInv
  <1>3. irq
    BY <1>f, <1>r, <1>n, <1>p DEF Know, Masking, AtRest, Quiet
  <1>4. pc'[Isr] = "run"
    BY <1>c, <1>q, <1>r
  <1>5. \A d \in Threads : pc'[d] # pc[d] => AtRest(pc'[d], op[d])
    BY <1>n, <1>q DEF Contexts
  <1> QED  BY <1>n, <1>q, <1>r, <1>1, <1>2, <1>3, <1>4, <1>5, SwitchStep

\* The mutex and the semaphore.
LEMMA WaitStep ==
  ASSUME SpinInv, NEW t \in Threads, WaitCall(t)
  PROVE  SpinInv'
  <1>t. cur \in Threads /\ mutex \in Int /\ sem \in Int /\ pc \in [Contexts -> Places]
    BY DEF SpinInv, TypeOK
  <1>s. pc = [pc EXCEPT ![t] = pc[t]]
    BY <1>t
  <1> SUFFICES \E p : QuietMove(t, p)
    BY QuietStep
  <1> USE DEF Runs, Goto, QuietMove, Quiet, schedule_thread, procVars, waitVars
  <1>1. CASE mutex_lock(t)
    BY <1>t, <1>s, <1>1 DEF mutex_lock
  <1>2. CASE sema_down(t)
    BY <1>t, <1>s, <1>2 DEF sema_down
  <1>3. CASE mutex_try_lock(t)
    BY <1>t, <1>3 DEF mutex_try_lock
  <1>4. CASE sema_down_try_lock(t)
    BY <1>t, <1>4 DEF sema_down_try_lock
  <1>5. CASE mutex_take(t) \/ mutex_give(t)
    BY <1>t, <1>5 DEF mutex_take, mutex_give
  <1>6. CASE sema_take(t) \/ sema_give(t)
    BY <1>t, <1>6 DEF sema_take, sema_give
  <1>7. CASE mutex_unlock(t) \/ sema_up(t)
    BY <1>t, <1>7 DEF mutex_unlock, sema_up
  <1> QED  BY <1>1, <1>2, <1>3, <1>4, <1>5, <1>6, <1>7 DEF WaitCall

\* An interrupt comes when interrupts are on.
LEMMA EntryStep ==
  ASSUME SpinInv, irq_entry
  PROVE  SpinInv'
  <1>a. /\ irq /\ ~isr /\ isr' /\ ~irq' /\ isr' \in BOOLEAN /\ irq' \in BOOLEAN
        /\ UNCHANGED <<cur, preempt_cnt, spin, flag, mutex, sem, pc, op>>
    BY Zenon DEF irq_entry, waitVars
  <1>1. TypeOK'
    BY <1>a DEF SpinInv, TypeOK
  <1>2. OpInv' /\ ProcInv' /\ CountInv'
    BY <1>a DEF SpinInv, OpInv, ProcInv, CountInv
  <1>3. HoldInv' /\ MaskInv' /\ FlagInv'
    BY <1>a DEF SpinInv, HoldInv, MaskInv, FlagInv
  <1> QED  BY <1>1, <1>2, <1>3 DEF SpinInv

\* Its exit switches only threads that have not raised the count.
LEMMA ExitStep ==
  ASSUME SpinInv, NEW u \in Threads, irq_exit(u)
  PROVE  SpinInv'
  <1>c. cur \in Threads /\ cur \in Contexts /\ Isr \in Contexts
    BY DEF SpinInv, TypeOK, Contexts
  <1>b. /\ Processor = Isr /\ pc[Isr] = "run"
        /\ cur' = IF preempt_cnt = 0 THEN u ELSE cur
        /\ ~isr' /\ irq' /\ isr' \in BOOLEAN /\ irq' \in BOOLEAN
        /\ UNCHANGED <<preempt_cnt, spin, flag, mutex, sem, pc, op>>
    BY Zenon DEF irq_exit, Runs, waitVars
  <1>r. isr /\ ~op[Isr].nested
    <2>1. Turn(Isr)
      BY <1>b, <1>c, Running
    <2>2. OpOK(Isr, pc[Isr], op[Isr])
      BY <1>c DEF SpinInv, OpInv
    <2> QED  BY <1>b, <2>1, <2>2 DEF Turn, OpOK, NoSwitch, Holding
  <1>m. ~Masking(pc[cur], op[cur])
    BY <1>r DEF SpinInv, MaskInv
  <1>1. TypeOK'
    BY <1>b, <1>c DEF SpinInv, TypeOK
  <1>2. OpInv'
    BY <1>b DEF SpinInv, OpInv
  <1>3. CASE preempt_cnt = 0
    <2>1. Depth(pc[cur], op[cur]) = 0
      BY <1>3 DEF SpinInv, CountInv, Depth
    <2>2. OpOK(cur, pc[cur], op[cur])
      BY <1>c DEF SpinInv, OpInv
    <2>3. AtRest(pc[cur], op[cur])
      BY <1>m, <2>1, <2>2 DEF AtRest, Depth, Masking, OpOK
    <2> QED  BY <1>b, <1>1, <1>2, <2>3, SwitchStep
  <1>4. CASE preempt_cnt # 0
    <2>1. cur' = cur
      BY <1>b, <1>4
    <2>2. ProcInv' /\ CountInv'
      BY <1>b, <2>1 DEF SpinInv, ProcInv, CountInv
    <2>3. HoldInv' /\ FlagInv'
      BY <1>b, <2>1 DEF SpinInv, HoldInv, FlagInv
    <2>4. MaskInv'
      BY <1>b, <1>m, <2>1 DEF MaskInv
    <2> QED  BY <1>1, <1>2, <2>2, <2>3, <2>4 DEF SpinInv
  <1> QED  BY <1>3, <1>4

\* The spin lock calls, by a thread or by the handler.
LEMMA SpinStep ==
  ASSUME SpinInv, NEW c \in Contexts, SpinCall(c)
  PROVE  SpinInv'
  <1>1. CASE wake_up_common(c)
    BY <1>1, Sections, EnterStep DEF wake_up_common
  <1> QED  BY <1>1, SignalStep, PassStep, DisableStep, TakeStep, SaveStep, MaskingStep,
              UnlockStep, GiveStep, EnableStep, UnmaskStep, RestoreStep, ClearStep
           DEF SpinCall

\* The calls only threads make.
LEMMA ThreadStep ==
  ASSUME SpinInv, NEW t \in Threads, ThreadCall(t)
  PROVE  SpinInv'
  <1>a. t \in Contexts /\ t # Isr
    BY LocksAssumption DEF Contexts
  <1>1. ASSUME NEW kind \in Kinds, lock_other(t, kind) PROVE SpinInv'
    <2>1. LET o == Section("other", kind, FALSE)
          IN  o \in Operations /\ ~o.nested /\ o.lock = "other"
      BY Zenon DEF Section, Operations, SpinLocks, Kinds
    <2> QED  BY <1>a, <1>1, <2>1, EnterStep DEF lock_other
  <1>2. ASSUME thread_state_pending(t) PROVE SpinInv'
    <2>1. LET o == Section("thread", "irqsave", FALSE)
          IN  o \in Operations /\ ~o.nested /\ o.kind = "irqsave"
      BY Zenon DEF Section, Operations, SpinLocks, Kinds
    <2> QED  BY <1>a, <1>2, <2>1, EnterStep DEF thread_state_pending
  <1> QED  BY <1>1, <1>2, TryStep DEF ThreadCall

\* Every step keeps the invariant.
THEOREM SpinInvariance == Spec => []SpinInv
  <1>1. SpinInv /\ [Next]_vars => SpinInv'
    BY StutterStep, EntryStep, ExitStep, SpinStep, ThreadStep, WaitStep DEF Next, Interrupt
  <1> QED  BY SpinInit, <1>1, PTL DEF Spec

\* The spin locks exclude on one processor, threads and the handler alike,
\* though test and count are apart and preemption is on in between.
THEOREM SpinExclusion == Spec => []SpinExclusive
  <1>1. SpinInv => SpinExclusive
    <2> SUFFICES ASSUME SpinInv, NEW l \in SpinLocks
                 PROVE  /\ \A c, d \in Contexts : Holds(c, l) /\ Holds(d, l) => c = d
                        /\ spin_is_locked(l) <=> \E c \in Contexts : Holds(c, l)
      BY DEF SpinExclusive
    <2>1. \A c \in Contexts : Holds(c, l) <=> Has(pc[c], op[c], l)
      BY DEF Holds, Has
    <2>2. \A c \in Contexts : Has(pc[c], op[c], l) => c = cur \/ c = Isr
      BY DEF SpinInv, ProcInv, AtRest, Has, NoSwitch, Contexts
    <2>3. cur \in Contexts /\ Isr \in Contexts
      BY DEF SpinInv, TypeOK, Contexts
    <2>4. /\ spin[l] = One(Has(pc[cur], op[cur], l)) + One(Has(pc[Isr], op[Isr], l))
          /\ spin[l] <= 1
      BY DEF SpinInv, HoldInv
    <2>5. /\ ~(Has(pc[cur], op[cur], l) /\ Has(pc[Isr], op[Isr], l))
          /\ spin[l] # 0 <=> Has(pc[cur], op[cur], l) \/ Has(pc[Isr], op[Isr], l)
      BY <2>4 DEF One
    <2> QED  BY <2>1, <2>2, <2>3, <2>5 DEF spin_is_locked
  <1> QED  BY SpinInvariance, <1>1, PTL

\* No thread ever turns in spin_lock's loop, nested or not.
THEOREM NeverSpinning == Spec => []ThreadsNeverSpin
  <1>1. SpinInv => ThreadsNeverSpin
    <2> SUFFICES ASSUME SpinInv, NEW t \in Threads, Processor = t,
                        pc[t] \in {"spin", "passed", "counted"}
                 PROVE  spin[op[t].lock] = 0
      BY DEF ThreadsNeverSpin, spin_is_locked
    <2>1. t \in Contexts /\ t # Isr
      BY LocksAssumption DEF Contexts
    <2>2. OpOK(t, pc[t], op[t])
      BY <2>1 DEF SpinInv, OpInv
    <2>3. ~Has(pc[t], op[t], op[t].lock)
      BY <2>2 DEF OpOK, Has, Holding
    <2> QED  BY <2>1, <2>3, FreeLock
  <1> QED  BY SpinInvariance, <1>1, PTL

\* Interrupts are off exactly in handlers and in the sections that mask them:
\* the flag each lock has only one of serves outermost, nested and handler
\* sections alike.
THEOREM MaskRestored == Spec => []IrqRestored
  <1>1. SpinInv => IrqRestored
    <2> SUFFICES ASSUME SpinInv PROVE IrqRestored
      OBVIOUS
    <2>1. \A t \in Threads : Masked(t) <=> Masking(pc[t], op[t])
      BY DEF Masked, Masking
    <2>2. \A t \in Threads : t # cur => ~Masking(pc[t], op[t])
      BY DEF SpinInv, ProcInv, AtRest, Masking, NoSwitch, Holding
    <2>3. cur \in Threads
      BY DEF SpinInv, TypeOK
    <2> QED  BY <2>1, <2>2, <2>3 DEF SpinInv, MaskInv, IrqRestored
  <1> QED  BY SpinInvariance, <1>1, PTL
=============================================================================
