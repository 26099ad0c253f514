----------------------------- MODULE LocksSteps -----------------------------
(* Each step of a spin lock section keeps SpinInv (by StepRule).             *)
EXTENDS LocksInvariant

\* The test: the lock is free, and whoever runs finds it free until it takes it.
LEMMA PassStep ==
  ASSUME SpinInv, NEW c \in Contexts, spin_pass(c)
  PROVE  SpinInv'
  <1>a. /\ Processor = c /\ pc[c] = "spin" /\ spin[op[c].lock] = 0
        /\ pc' = [pc EXCEPT ![c] = "passed"]
        /\ UNCHANGED <<cur, isr, irq, preempt_cnt, spin, flag, op, waitVars>>
    BY DEF spin_pass, Runs, Goto, procVars, spinVars, spin_is_locked
  <1>f. Know(c)
    BY <1>a, Facts
  <1>1. Shift(c, "passed", op[c])
    BY <1>a, <1>f DEF Know, Shift
  <1>2. OpOK(c, "passed", op[c])
    BY <1>a, <1>f DEF Know, OpOK, NoSwitch, Holding
  <1>3. CountStep(c, "passed", op[c])
    BY <1>a, <1>f DEF Know, CountStep, Depth, NoSwitch, Holding
  <1>4. HoldStep(c, "passed", op[c])
    <2>1. \A l \in SpinLocks : Has("passed", op[c], l) <=> Has("spin", op[c], l)
      BY DEF Has, Holding
    <2> QED  BY <1>a, <1>f, <2>1 DEF Know, HoldStep, One
  <1>5. MaskStep("passed", op[c])
    <2>1. Masking("passed", op[c]) <=> Masking("spin", op[c])
      BY DEF Masking
    <2> QED  BY <1>a, <1>f, <2>1 DEF Know, MaskStep
  <1>6. FlagStep(c, "passed", op[c])
    BY <1>a, <1>f DEF Know, FlagStep, FlagOK
  <1>7. "passed" \in Places
    BY DEF Places, NoSwitch, Holding
  <1> QED  BY <1>a, <1>f, <1>1, <1>2, <1>3, <1>4, <1>5, <1>6, <1>7, StepRule DEF Know

\* The count goes up: from here on a thread keeps the processor.
LEMMA DisableStep ==
  ASSUME SpinInv, NEW c \in Contexts, mrt_preempt_disable(c)
  PROVE  SpinInv'
  <1>a. /\ Processor = c /\ pc[c] = "passed"
        /\ pc' = [pc EXCEPT ![c] = "counted"]
        /\ preempt_cnt' = preempt_cnt + 1
        /\ UNCHANGED <<cur, isr, irq, spin, flag, op, waitVars>>
    BY DEF mrt_preempt_disable, Runs, Goto, procVars, spinVars
  <1>f. Know(c)
    BY <1>a, Facts
  <1>1. Shift(c, "counted", op[c])
    BY <1>a, <1>f DEF Know, Shift
  <1>2. OpOK(c, "counted", op[c])
    BY <1>a, <1>f DEF Know, OpOK, NoSwitch, Holding
  <1>3. CountStep(c, "counted", op[c])
    BY <1>a, <1>f DEF Know, CountStep, Depth, NoSwitch, Holding
  <1>4. HoldStep(c, "counted", op[c])
    <2>1. \A l \in SpinLocks : Has("counted", op[c], l) <=> Has("passed", op[c], l)
      BY DEF Has, Holding
    <2> QED  BY <1>a, <1>f, <2>1 DEF Know, HoldStep, One
  <1>5. MaskStep("counted", op[c])
    <2>1. Masking("counted", op[c]) <=> Masking("passed", op[c])
      BY DEF Masking
    <2> QED  BY <1>a, <1>f, <2>1 DEF Know, MaskStep
  <1>6. FlagStep(c, "counted", op[c])
    BY <1>a, <1>f DEF Know, FlagStep, FlagOK
  <1>7. "counted" \in Places
    BY DEF Places, NoSwitch, Holding
  <1> QED  BY <1>a, <1>f, <1>1, <1>2, <1>3, <1>4, <1>5, <1>6, <1>7, StepRule DEF Know

\* The flag says whether interrupts were masked on entry.
LEMMA SaveStep ==
  ASSUME SpinInv, NEW c \in Contexts, save_flag(c)
  PROVE  SpinInv'
  <1>a. /\ Processor = c /\ pc[c] = "taken"
        /\ pc' = [pc EXCEPT ![c] = "saved"]
        /\ flag' = [flag EXCEPT ![op[c].lock] = ~irq]
        /\ UNCHANGED <<cur, isr, irq, preempt_cnt, spin, op, waitVars>>
    BY DEF save_flag, Runs, Goto, procVars, spinVars
  <1>f. Know(c)
    BY <1>a, Facts
  <1>1. Shift(c, "saved", op[c])
    BY <1>a, <1>f DEF Know, Shift
  <1>2. OpOK(c, "saved", op[c])
    BY <1>a, <1>f DEF Know, OpOK, NoSwitch, Holding
  <1>3. CountStep(c, "saved", op[c])
    BY <1>a, <1>f DEF Know, CountStep, Depth, NoSwitch, Holding
  <1>4. HoldStep(c, "saved", op[c])
    <2>1. \A l \in SpinLocks : Has("saved", op[c], l) <=> Has("taken", op[c], l)
      BY DEF Has, Holding
    <2> QED  BY <1>a, <1>f, <2>1 DEF Know, HoldStep, One
  <1>5. MaskStep("saved", op[c])
    <2>1. Masking("saved", op[c]) <=> Masking("taken", op[c])
      BY DEF Masking
    <2> QED  BY <1>a, <1>f, <2>1 DEF Know, MaskStep
  <1>6. FlagStep(c, "saved", op[c])
    <2>1. irq <=> ~(isr \/ op[c].nested)
      BY <1>a, <1>f DEF Know, Masking
    <2>2. op[c].lock # "queue" \/ ~op[c].nested
      BY <1>f DEF Know, OpOK
    <2>3. /\ flag' \in [SpinLocks -> BOOLEAN]
          /\ flag'[op[c].lock] <=> isr \/ op[c].nested
          /\ \A l \in SpinLocks : l # op[c].lock => flag'[l] = flag[l]
      BY <1>a, <1>f, <2>1, Zenon DEF Know
    <2>4. FlagOK(flag, "taken", op[c], isr) /\ "queue" \in SpinLocks
      BY <1>a, <1>f DEF Know, SpinLocks
    <2>5. FlagOK(flag', "saved", op[c], isr)
      BY <2>2, <2>3, <2>4 DEF FlagOK
    <2> QED  BY <1>a, <2>3, <2>5 DEF FlagStep
  <1>7. "saved" \in Places
    BY DEF Places, NoSwitch, Holding
  <1> QED  BY <1>a, <1>f, <1>1, <1>2, <1>3, <1>4, <1>5, <1>6, <1>7, StepRule DEF Know

\* A section that masks begins.
LEMMA MaskingStep ==
  ASSUME SpinInv, NEW c \in Contexts, mrt_disable_cpu_irq(c)
  PROVE  SpinInv'
  <1>a. /\ Processor = c /\ pc[c] = "saved"
        /\ pc' = [pc EXCEPT ![c] = "inside"]
        /\ irq' = FALSE
        /\ UNCHANGED <<cur, isr, preempt_cnt, spin, flag, op, waitVars>>
    BY DEF mrt_disable_cpu_irq, Runs, Goto, procVars, spinVars
  <1>f. Know(c)
    BY <1>a, Facts
  <1>1. Shift(c, "inside", op[c])
    BY <1>a, <1>f DEF Know, Shift
  <1>2. OpOK(c, "inside", op[c])
    BY <1>a, <1>f DEF Know, OpOK, NoSwitch, Holding
  <1>3. CountStep(c, "inside", op[c])
    BY <1>a, <1>f DEF Know, CountStep, Depth, NoSwitch, Holding
  <1>4. HoldStep(c, "inside", op[c])
    <2>1. \A l \in SpinLocks : Has("inside", op[c], l) <=> Has("saved", op[c], l)
      BY DEF Has, Holding
    <2> QED  BY <1>a, <1>f, <2>1 DEF Know, HoldStep, One
  <1>5. MaskStep("inside", op[c])
    <2>1. Masking("inside", op[c])
      BY <1>a, <1>f DEF Know, OpOK, Masking
    <2> QED  BY <1>a, <2>1 DEF MaskStep
  <1>6. FlagStep(c, "inside", op[c])
    BY <1>a, <1>f DEF Know, FlagStep, FlagOK, OpOK
  <1>7. "inside" \in Places
    BY DEF Places, NoSwitch, Holding
  <1> QED  BY <1>a, <1>f, <1>1, <1>2, <1>3, <1>4, <1>5, <1>6, <1>7, StepRule DEF Know

\* The lock is free again.
LEMMA GiveStep ==
  ASSUME SpinInv, NEW c \in Contexts, spin_give(c)
  PROVE  SpinInv'
  <1>a. /\ Processor = c /\ pc[c] = "giving"
        /\ pc' = [pc EXCEPT ![c] = "drop"]
        /\ spin' = [spin EXCEPT ![op[c].lock] = @ - 1]
        /\ UNCHANGED <<cur, isr, irq, preempt_cnt, flag, op, waitVars>>
    BY DEF spin_give, Runs, Goto, procVars, spinVars
  <1>f. Know(c)
    BY <1>a, Facts
  <1>1. Shift(c, "drop", op[c])
    BY <1>a, <1>f DEF Know, Shift
  <1>2. OpOK(c, "drop", op[c])
    BY <1>a, <1>f DEF Know, OpOK, NoSwitch, Holding
  <1>3. CountStep(c, "drop", op[c])
    BY <1>a, <1>f DEF Know, CountStep, Depth, NoSwitch, Holding
  <1>4. HoldStep(c, "drop", op[c])
    <2>1. spin[op[c].lock] = 1
      BY <1>a, <1>f DEF Know, Has, Holding
    <2>2. spin' \in [SpinLocks -> Nat]
      BY <1>a, <1>f, <2>1 DEF Know
    <2>3. \A l \in SpinLocks : Has("drop", op[c], l) => Has("giving", op[c], l)
      BY DEF Has, Holding
    <2>4. /\ ~Has("drop", op[c], op[c].lock) /\ Has("giving", op[c], op[c].lock)
          /\ \A l \in SpinLocks : l # op[c].lock => (Has("drop", op[c], l) <=> Has("giving", op[c], l))
      BY <1>f DEF Know, OpOK, Has, Holding
    <2>5. \A l \in SpinLocks :
            spin'[l] = spin[l] + One(Has("drop", op[c], l)) - One(Has("giving", op[c], l))
      BY <1>a, <1>f, <2>4 DEF Know, One
    <2> QED  BY <1>a, <2>2, <2>3, <2>5 DEF HoldStep
  <1>5. MaskStep("drop", op[c])
    <2>1. Masking("drop", op[c]) <=> Masking("giving", op[c])
      BY DEF Masking
    <2> QED  BY <1>a, <1>f, <2>1 DEF Know, MaskStep
  <1>6. FlagStep(c, "drop", op[c])
    BY <1>a, <1>f DEF Know, FlagStep, FlagOK
  <1>7. "drop" \in Places
    BY DEF Places, NoSwitch, Holding
  <1> QED  BY <1>a, <1>f, <1>1, <1>2, <1>3, <1>4, <1>5, <1>6, <1>7, StepRule DEF Know

\* An outermost section of a thread unmasks, a nested one or a handler's does not.
LEMMA RestoreStep ==
  ASSUME SpinInv, NEW c \in Contexts, spin_unlock_irqrestore(c)
  PROVE  SpinInv'
  <1>a. /\ Processor = c /\ pc[c] = "restore"
        /\ pc' = [pc EXCEPT ![c] = "flagged"]
        /\ irq' = (irq \/ ~flag[op[c].lock])
        /\ UNCHANGED <<cur, isr, preempt_cnt, spin, flag, op, waitVars>>
    BY DEF spin_unlock_irqrestore, Runs, Goto, procVars, spinVars
  <1>f. Know(c)
    BY <1>a, Facts
  <1>1. Shift(c, "flagged", op[c])
    BY <1>a, <1>f DEF Know, Shift
  <1>2. OpOK(c, "flagged", op[c])
    BY <1>a, <1>f DEF Know, OpOK, NoSwitch, Holding
  <1>3. CountStep(c, "flagged", op[c])
    BY <1>a, <1>f DEF Know, CountStep, Depth, NoSwitch, Holding
  <1>4. HoldStep(c, "flagged", op[c])
    <2>1. \A l \in SpinLocks : Has("flagged", op[c], l) <=> Has("restore", op[c], l)
      BY DEF Has, Holding
    <2> QED  BY <1>a, <1>f, <2>1 DEF Know, HoldStep, One
  <1>5. MaskStep("flagged", op[c])
    <2>1. flag[op[c].lock] <=> isr \/ op[c].nested
      BY <1>a, <1>f DEF Know, OpOK, FlagOK
    <2>2. irq' \in BOOLEAN /\ (irq' <=> irq \/ ~(isr \/ op[c].nested))
      BY <1>a, <2>1, Zenon
    <2>3. op[c].nested => Masking("restore", op[c])
      BY DEF Masking
    <2>4. Masking("flagged", op[c]) <=> op[c].nested
      BY DEF Masking
    <2> QED  BY <1>a, <1>f, <2>2, <2>3, <2>4 DEF Know, MaskStep
  <1>6. FlagStep(c, "flagged", op[c])
    BY <1>a, <1>f DEF Know, FlagStep, FlagOK, OpOK
  <1>7. "flagged" \in Places
    BY DEF Places, NoSwitch, Holding
  <1> QED  BY <1>a, <1>f, <1>1, <1>2, <1>3, <1>4, <1>5, <1>6, <1>7, StepRule DEF Know

\* The running context counts a lock nobody holds; a plain spin_lock returns.
LEMMA TakeStep ==
  ASSUME SpinInv, NEW c \in Contexts, spin_take(c)
  PROVE  SpinInv'
  <1> DEFINE p == CASE op[c].kind = "plain"   -> "inside"
                    [] op[c].kind = "irq"     -> "saved"
                    [] op[c].kind = "irqsave" -> "taken"
  <1>a. /\ Processor = c /\ pc[c] = "counted"
        /\ pc' = [pc EXCEPT ![c] = p]
        /\ spin' = [spin EXCEPT ![op[c].lock] = @ + 1]
        /\ UNCHANGED <<cur, isr, irq, preempt_cnt, flag, op, waitVars>>
    BY DEF spin_take, Runs, Goto, procVars, spinVars
  <1>f. Know(c)
    BY <1>a, Facts
  <1>k. /\ p \in Holding \ {"giving"}
        /\ p = "inside" => op[c].kind = "plain"
        /\ p = "saved" => op[c].kind = "irq"
        /\ p = "taken" => op[c].kind = "irqsave"
    BY <1>f DEF Know, Operations, Kinds, Holding
  <1> HIDE DEF p
  <1>1. Shift(c, p, op[c])
    BY <1>a, <1>f DEF Know, Shift
  <1>2. OpOK(c, p, op[c])
    BY <1>a, <1>f, <1>k DEF Know, OpOK, NoSwitch, Holding
  <1>3. CountStep(c, p, op[c])
    BY <1>a, <1>f, <1>k DEF Know, CountStep, Depth, NoSwitch, Holding
  <1>4. HoldStep(c, p, op[c])
    <2>1. spin[op[c].lock] = 0
      <3>1. ~Has(pc[c], op[c], op[c].lock)
        BY <1>a, <1>f DEF Know, OpOK, Has, Holding
      <3> QED  BY <1>a, <3>1, FreeLock
    <2>2. /\ Has(p, op[c], op[c].lock) /\ ~Has("counted", op[c], op[c].lock)
          /\ \A l \in SpinLocks : l # op[c].lock => (Has(p, op[c], l) <=> Has("counted", op[c], l))
      BY <1>f, <1>k DEF Know, OpOK, Has, Holding
    <2>3. spin' \in [SpinLocks -> Nat]
      BY <1>a, <1>f DEF Know
    <2>4. \A l \in SpinLocks :
            /\ spin'[l] = spin[l] + One(Has(p, op[c], l)) - One(Has("counted", op[c], l))
            /\ Has(p, op[c], l) => Has("counted", op[c], l) \/ spin[l] = 0
      BY <1>a, <1>f, <2>1, <2>2 DEF Know, One
    <2> QED  BY <1>a, <2>1, <2>3, <2>4 DEF HoldStep
  <1>5. MaskStep(p, op[c])
    <2>1. Masking(p, op[c]) <=> Masking("counted", op[c])
      BY <1>k DEF Masking, Holding
    <2> QED  BY <1>a, <1>f, <2>1 DEF Know, MaskStep
  <1>6. FlagStep(c, p, op[c])
    BY <1>a, <1>f, <1>k DEF Know, FlagStep, FlagOK, Holding
  <1>7. p \in Places
    BY <1>k DEF Places, NoSwitch, Holding
  <1> QED  BY <1>a, <1>f, <1>1, <1>2, <1>3, <1>4, <1>5, <1>6, <1>7, StepRule DEF Know

\* Who unlocks holds the lock, so the early return is not taken.
LEMMA UnlockStep ==
  ASSUME SpinInv, NEW c \in Contexts, spin_unlock(c)
  PROVE  SpinInv'
  <1>b. Processor = c /\ pc[c] = "inside"
    BY DEF spin_unlock, Runs
  <1>f. Know(c)
    BY <1>b, Facts
  <1>l. spin_is_locked(op[c].lock)
    BY <1>b, <1>f DEF Know, Has, Holding, spin_is_locked
  <1>a. /\ Processor = c /\ pc[c] = "inside"
        /\ pc' = [pc EXCEPT ![c] = "giving"]
        /\ UNCHANGED <<cur, isr, irq, preempt_cnt, spin, flag, op, waitVars>>
    BY <1>b, <1>l DEF spin_unlock, Goto, procVars, spinVars
  <1>1. Shift(c, "giving", op[c])
    BY <1>a, <1>f DEF Know, Shift
  <1>2. OpOK(c, "giving", op[c])
    BY <1>a, <1>f DEF Know, OpOK, NoSwitch, Holding
  <1>3. CountStep(c, "giving", op[c])
    BY <1>a, <1>f DEF Know, CountStep, Depth, NoSwitch, Holding
  <1>4. HoldStep(c, "giving", op[c])
    <2>1. \A l \in SpinLocks : Has("giving", op[c], l) <=> Has("inside", op[c], l)
      BY DEF Has, Holding
    <2> QED  BY <1>a, <1>f, <2>1 DEF Know, HoldStep, One
  <1>5. MaskStep("giving", op[c])
    <2>1. Masking("giving", op[c]) <=> Masking("inside", op[c])
      BY DEF Masking
    <2> QED  BY <1>a, <1>f, <2>1 DEF Know, MaskStep
  <1>6. FlagStep(c, "giving", op[c])
    BY <1>a, <1>f DEF Know, FlagStep, FlagOK
  <1>7. "giving" \in Places
    BY DEF Places, NoSwitch, Holding
  <1> QED  BY <1>a, <1>f, <1>1, <1>2, <1>3, <1>4, <1>5, <1>6, <1>7, StepRule DEF Know

\* The count goes back to what it was on entry; a plain spin_unlock returns.
LEMMA EnableStep ==
  ASSUME SpinInv, NEW c \in Contexts, mrt_preempt_enable(c)
  PROVE  SpinInv'
  <1>b. /\ Processor = c /\ pc[c] = "drop"
        /\ preempt_cnt' = IF preempt_cnt = 0 THEN 0 ELSE preempt_cnt - 1
        /\ UNCHANGED <<cur, isr, irq, spin, flag, waitVars>>
    BY DEF mrt_preempt_enable, Runs, procVars
  <1>f. Know(c)
    BY <1>b, Facts
  <1>p. preempt_cnt >= 1 /\ preempt_cnt' = preempt_cnt - 1 /\ preempt_cnt' \in Nat
    BY <1>b, <1>f DEF Know, Depth, NoSwitch, Holding
  <1>k. CASE op[c].kind = "plain"
    <2>n. ~op[c].nested
      BY <1>f, <1>k DEF Know, OpOK
    <2>o. NoOp \in Operations /\ NoOp.lock = "other" /\ NoOp.kind = "plain" /\ ~NoOp.nested
      BY Sections
    <2>1. Shift(c, "run", NoOp)
      BY <1>b, <1>f, <1>k, <2>n DEF mrt_preempt_enable, Return, Goto, Know, Shift
    <2>2. OpOK(c, "run", NoOp)
      BY <2>o DEF OpOK
    <2>3. CountStep(c, "run", NoOp)
      BY <1>b, <1>p, <2>n, <2>o, <1>f DEF Know, CountStep, Depth, NoSwitch, Holding
    <2>4. HoldStep(c, "run", NoOp)
      <3>1. \A l \in SpinLocks : ~Has("run", NoOp, l) /\ ~Has("drop", op[c], l)
        BY <2>n, <2>o DEF Has, Holding
      <3> QED  BY <1>b, <1>f, <3>1 DEF Know, HoldStep, One
    <2>5. MaskStep("run", NoOp)
      <3>1. ~Masking("run", NoOp) /\ ~Masking("drop", op[c])
        BY <1>k, <2>n, <2>o DEF Masking
      <3> QED  BY <1>b, <1>f, <3>1 DEF Know, MaskStep
    <2>6. FlagStep(c, "run", NoOp)
      BY <1>b, <1>f, <2>o DEF Know, FlagStep, FlagOK
    <2>7. "run" \in Places
      BY DEF Places
    <2> QED  BY <1>b, <2>o, <2>1, <2>2, <2>3, <2>4, <2>5, <2>6, <2>7, StepRule
  <1>m. ASSUME NEW p \in {"unmask", "restore"}, pc' = [pc EXCEPT ![c] = p], op' = op,
               op[c].kind = IF p = "unmask" THEN "irq" ELSE "irqsave"
        PROVE  SpinInv'
    <2>1. Shift(c, p, op[c])
      BY <1>b, <1>f, <1>m DEF Know, Shift
    <2>2. OpOK(c, p, op[c])
      BY <1>b, <1>f, <1>m DEF Know, OpOK, NoSwitch, Holding
    <2>3. CountStep(c, p, op[c])
      BY <1>b, <1>p, <1>m, <1>f DEF Know, CountStep, Depth, NoSwitch, Holding
    <2>4. HoldStep(c, p, op[c])
      <3>1. \A l \in SpinLocks : Has(p, op[c], l) <=> Has("drop", op[c], l)
        BY <1>m DEF Has, Holding
      <3> QED  BY <1>b, <1>f, <3>1 DEF Know, HoldStep, One
    <2>5. MaskStep(p, op[c])
      <3>1. Masking(p, op[c]) <=> Masking("drop", op[c])
        BY <1>m DEF Masking
      <3> QED  BY <1>b, <1>f, <3>1 DEF Know, MaskStep
    <2>6. FlagStep(c, p, op[c])
      BY <1>b, <1>f, <1>m DEF Know, FlagStep, FlagOK
    <2>7. p \in Places
      BY <1>m DEF Places
    <2> QED  BY <1>b, <1>f, <2>1, <2>2, <2>3, <2>4, <2>5, <2>6, <2>7, StepRule DEF Know
  <1> QED  BY <1>k, <1>m DEF mrt_preempt_enable, Goto

\* Only a thread outside any other section is here.
LEMMA UnmaskStep ==
  ASSUME SpinInv, NEW c \in Contexts, spin_unlock_irq(c)
  PROVE  SpinInv'
  <1>b. /\ Processor = c /\ pc[c] = "unmask" /\ irq' = TRUE
        /\ UNCHANGED <<cur, isr, preempt_cnt, spin, flag, waitVars>>
    BY DEF spin_unlock_irq, Runs, procVars
  <1>f. Know(c)
    BY <1>b, Facts
  <1>n. ~op[c].nested /\ ~isr
    <2>1. op[c].kind = "irq" /\ ~op[c].nested /\ op[c].lock = "other"
      BY <1>b, <1>f DEF Know, OpOK
    <2>2. c # Isr
      BY <1>b, <1>f, <2>1 DEF Know, OpOK
    <2> QED  BY <1>b, <2>1, <2>2 DEF Processor
  <1>o. NoOp \in Operations /\ NoOp.lock = "other" /\ NoOp.kind = "plain" /\ ~NoOp.nested
    BY Sections
  <1>1. Shift(c, "run", NoOp)
    BY <1>b, <1>f, <1>n DEF spin_unlock_irq, Return, Goto, Know, Shift
  <1>2. OpOK(c, "run", NoOp)
    BY <1>o DEF OpOK
  <1>3. CountStep(c, "run", NoOp)
    BY <1>b, <1>n, <1>o, <1>f DEF Know, CountStep, Depth, NoSwitch, Holding
  <1>4. HoldStep(c, "run", NoOp)
    <2>1. \A l \in SpinLocks : ~Has("run", NoOp, l) /\ ~Has("unmask", op[c], l)
      BY <1>n, <1>o DEF Has, Holding
    <2> QED  BY <1>b, <1>f, <2>1 DEF Know, HoldStep, One
  <1>5. MaskStep("run", NoOp)
    BY <1>b, <1>n, <1>o DEF MaskStep, Masking
  <1>6. FlagStep(c, "run", NoOp)
    BY <1>b, <1>f, <1>o DEF Know, FlagStep, FlagOK
  <1>7. "run" \in Places
    BY DEF Places
  <1> QED  BY <1>b, <1>o, <1>1, <1>2, <1>3, <1>4, <1>5, <1>6, <1>7, StepRule

\* The flag cleared is nobody's: whoever needs one is at another lock.  A
\* nested unlock returns to the queue's section, whose flag is untouched.
LEMMA ClearStep ==
  ASSUME SpinInv, NEW c \in Contexts, clear_flag(c)
  PROVE  SpinInv'
  <1>b. /\ Processor = c /\ pc[c] = "flagged"
        /\ flag' = [flag EXCEPT ![op[c].lock] = FALSE]
        /\ UNCHANGED <<cur, isr, irq, preempt_cnt, spin, waitVars>>
    BY DEF clear_flag, Runs, procVars
  <1>f. Know(c)
    BY <1>b, Facts
  <1>g. /\ flag' \in [SpinLocks -> BOOLEAN]
        /\ \A l \in SpinLocks : l # op[c].lock => flag'[l] = flag[l]
    BY <1>b, <1>f, Zenon DEF Know
  <1>n. CASE ~op[c].nested
    <2>o. NoOp \in Operations /\ NoOp.lock = "other" /\ NoOp.kind = "plain" /\ ~NoOp.nested
      BY Sections
    <2>1. Shift(c, "run", NoOp)
      BY <1>b, <1>f, <1>n DEF clear_flag, Return, Goto, Know, Shift
    <2>2. OpOK(c, "run", NoOp)
      BY <2>o DEF OpOK
    <2>3. CountStep(c, "run", NoOp)
      BY <1>b, <1>n, <2>o, <1>f DEF Know, CountStep, Depth, NoSwitch, Holding
    <2>4. HoldStep(c, "run", NoOp)
      <3>1. \A l \in SpinLocks : ~Has("run", NoOp, l) /\ ~Has("flagged", op[c], l)
        BY <1>n, <2>o DEF Has, Holding
      <3> QED  BY <1>b, <1>f, <3>1 DEF Know, HoldStep, One
    <2>5. MaskStep("run", NoOp)
      <3>1. ~Masking("run", NoOp) /\ ~Masking("flagged", op[c])
        BY <1>n, <2>o DEF Masking
      <3> QED  BY <1>b, <1>f, <3>1 DEF Know, MaskStep
    <2>6. FlagStep(c, "run", NoOp)
      <3>1. FlagOK(flag', "run", NoOp, isr)
        BY <2>o DEF FlagOK
      <3> QED  BY <1>b, <1>g, <3>1 DEF FlagStep
    <2>7. "run" \in Places
      BY DEF Places
    <2> QED  BY <1>b, <2>o, <2>1, <2>2, <2>3, <2>4, <2>5, <2>6, <2>7, StepRule
  <1>m. CASE op[c].nested
    <2>o. /\ OnQueue \in Operations /\ OnQueue.lock = "queue" /\ OnQueue.kind = "irqsave"
          /\ ~OnQueue.nested /\ "queue" \in SpinLocks
      BY Sections
    <2>q. op[c].lock = "thread"
      BY <1>f, <1>m DEF Know, OpOK
    <2>1. Shift(c, "inside", OnQueue)
      BY <1>b, <1>f, <1>m DEF clear_flag, Return, Goto, Know, Shift
    <2>2. OpOK(c, "inside", OnQueue)
      BY <2>o DEF OpOK
    <2>3. CountStep(c, "inside", OnQueue)
      BY <1>b, <1>m, <2>o, <1>f DEF Know, CountStep, Depth, NoSwitch, Holding
    <2>4. HoldStep(c, "inside", OnQueue)
      <3>1. \A l \in SpinLocks : /\ Has("inside", OnQueue, l) <=> l = "queue"
                                 /\ Has("flagged", op[c], l) <=> l = "queue"
        BY <1>m, <2>o DEF Has, Holding
      <3> QED  BY <1>b, <1>f, <2>o, <3>1 DEF Know, HoldStep, One
    <2>5. MaskStep("inside", OnQueue)
      <3>1. Masking("inside", OnQueue) /\ Masking("flagged", op[c])
        BY <1>m, <2>o DEF Masking
      <3> QED  BY <1>b, <1>f, <3>1 DEF Know, MaskStep
    <2>6. FlagStep(c, "inside", OnQueue)
      <3>1. flag'["queue"] = flag["queue"] /\ (flag["queue"] <=> isr)
        BY <1>f, <1>g, <1>m, <2>o, <2>q DEF Know, FlagOK
      <3>2. FlagOK(flag', "inside", OnQueue, isr)
        BY <2>o, <3>1 DEF FlagOK
      <3> QED  BY <1>b, <1>g, <3>2 DEF FlagStep
    <2>7. "inside" \in Places
      BY DEF Places, NoSwitch, Holding
    <2> QED  BY <1>b, <2>o, <2>1, <2>2, <2>3, <2>4, <2>5, <2>6, <2>7, StepRule
  <1> QED  BY <1>n, <1>m

\* A call of a spin_lock function, outside any section.
LEMMA EnterStep ==
  ASSUME SpinInv, NEW c \in Contexts, NEW o \in Operations, spin_lock(c, "run", o),
         ~o.nested, o.lock # "other" => o.kind = "irqsave", c = Isr => o.lock # "other"
  PROVE  SpinInv'
  <1>a. /\ Processor = c /\ pc[c] = "run"
        /\ pc' = [pc EXCEPT ![c] = "spin"] /\ op' = [op EXCEPT ![c] = o]
        /\ UNCHANGED <<cur, isr, irq, preempt_cnt, spin, flag, waitVars>>
    BY DEF spin_lock, Runs, Goto, procVars
  <1>f. Know(c)
    BY <1>a, Facts
  <1>n. ~op[c].nested
    BY <1>a, <1>f DEF Know, OpOK, NoSwitch, Holding
  <1>1. Shift(c, "spin", o)
    BY <1>a DEF Shift
  <1>2. OpOK(c, "spin", o)
    BY DEF OpOK
  <1>3. CountStep(c, "spin", o)
    BY <1>a, <1>f, <1>n DEF Know, CountStep, Depth, NoSwitch, Holding
  <1>4. HoldStep(c, "spin", o)
    <2>1. \A l \in SpinLocks : ~Has("spin", o, l) /\ ~Has("run", op[c], l)
      BY <1>n DEF Has, Holding
    <2> QED  BY <1>a, <1>f, <2>1 DEF Know, HoldStep, One
  <1>5. MaskStep("spin", o)
    <2>1. ~Masking("spin", o) /\ ~Masking("run", op[c])
      BY <1>n DEF Masking
    <2> QED  BY <1>a, <1>f, <2>1 DEF Know, MaskStep
  <1>6. FlagStep(c, "spin", o)
    BY <1>a, <1>f DEF Know, FlagStep, FlagOK
  <1>7. "spin" \in Places
    BY DEF Places
  <1> QED  BY <1>a, <1>1, <1>2, <1>3, <1>4, <1>5, <1>6, <1>7, StepRule

\* thread_state_signal: the thread's lock inside the queue's, with interrupts
\* masked.
LEMMA SignalStep ==
  ASSUME SpinInv, NEW c \in Contexts, thread_state_signal(c)
  PROVE  SpinInv'
  <1> DEFINE o == Section("thread", "irqsave", TRUE)
  <1>a. /\ Processor = c /\ pc[c] = "inside" /\ op[c] = OnQueue
        /\ pc' = [pc EXCEPT ![c] = "spin"] /\ op' = [op EXCEPT ![c] = o]
        /\ UNCHANGED <<cur, isr, irq, preempt_cnt, spin, flag, waitVars>>
    BY DEF thread_state_signal, spin_lock, Runs, Goto, procVars
  <1>f. Know(c)
    BY <1>a, Facts
  <1>o. o \in Operations /\ o.lock = "thread" /\ o.kind = "irqsave" /\ o.nested
    BY Zenon DEF Section, Operations, SpinLocks, Kinds
  <1>q. op[c].lock = "queue" /\ op[c].kind = "irqsave" /\ ~op[c].nested
    BY <1>a, Sections
  <1> HIDE DEF o
  <1>1. Shift(c, "spin", o)
    BY <1>a DEF Shift
  <1>2. OpOK(c, "spin", o)
    BY <1>o DEF OpOK
  <1>3. CountStep(c, "spin", o)
    BY <1>a, <1>f, <1>o, <1>q DEF Know, CountStep, Depth, NoSwitch, Holding
  <1>4. HoldStep(c, "spin", o)
    <2>1. \A l \in SpinLocks : /\ Has("spin", o, l) <=> l = "queue"
                               /\ Has("inside", op[c], l) <=> l = "queue"
      BY <1>o, <1>q DEF Has, Holding
    <2> QED  BY <1>a, <1>f, <2>1 DEF Know, HoldStep, One
  <1>5. MaskStep("spin", o)
    <2>1. Masking("spin", o) /\ Masking("inside", op[c])
      BY <1>o, <1>q DEF Masking
    <2> QED  BY <1>a, <1>f, <2>1 DEF Know, MaskStep
  <1>6. FlagStep(c, "spin", o)
    <2>1. flag["queue"] <=> isr
      BY <1>a, <1>f, <1>q DEF Know, FlagOK
    <2>2. FlagOK(flag, "spin", o, isr)
      BY <1>o, <2>1 DEF FlagOK
    <2> QED  BY <1>a, <1>f, <2>2 DEF Know, FlagStep
  <1>7. "spin" \in Places
    BY DEF Places
  <1> QED  BY <1>a, <1>o, <1>1, <1>2, <1>3, <1>4, <1>5, <1>6, <1>7, StepRule
=============================================================================
