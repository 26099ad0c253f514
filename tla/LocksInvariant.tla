--------------------------- MODULE LocksInvariant ---------------------------
(***************************************************************************)
(* Spec => []SpinExclusive, []ThreadsNeverSpin and []IrqRestored for every *)
(* set of threads.  The test in spin_lock is made with preemption on, so   *)
(* none of them is inductive: the argument is that a thread which has      *)
(* raised the preemption count keeps the processor (SpinInv), hence what   *)
(* the running context sees of a lock is what it did to it itself, or what *)
(* the thread that the handler interrupted did.                            *)
(*                                                                         *)
(* The invariant speaks of a context only through its place p and its      *)
(* operation o.  StepRule reduces a step of the running context to an      *)
(* account of what the step does to p, o and the counters.                 *)
(***************************************************************************)
EXTENDS Locks, TLAPS

\* Which sections there are: the thread's lock inside the queue's, by
\* irqsave; the queue's and the thread's only by irqsave; and the handler
\* takes no other.
OpOK(c, p, o) ==
    /\ o.nested => /\ o.lock = "thread"
                   /\ o.kind = "irqsave"
                   /\ p \in {"spin", "passed", "restore", "flagged"} \cup NoSwitch
    /\ o.lock # "other" => o.kind = "irqsave"
    /\ p \in {"taken", "restore", "flagged"} => o.kind = "irqsave"
    /\ p = "saved" => o.kind # "plain"
    /\ p = "unmask" => o.kind = "irq"
    /\ c = Isr /\ p # "run" => o.lock # "other"

OpInv == \A c \in Contexts : OpOK(c, pc[c], op[c])

\* Who has raised the preemption count or masked interrupts has the
\* processor, and the handler is at rest unless it runs.
AtRest(p, o) == p \notin NoSwitch \cup {"unmask", "restore"} /\ ~o.nested

ProcInv ==
    /\ \A t \in Threads : t # cur => AtRest(pc[t], op[t])
    /\ ~isr => pc[Isr] = "run"

\* The count is what the interrupted or running thread and the handler have
\* put on it, ...
Depth(p, o) == (IF o.nested THEN 1 ELSE 0) + (IF p \in NoSwitch THEN 1 ELSE 0)

CountInv == preempt_cnt = Depth(pc[cur], op[cur]) + Depth(pc[Isr], op[Isr])

\* ... the locks are held by these two, and not one lock by both; the
\* handler gets past the test only of a lock the thread does not hold.
Has(p, o, l) == \/ p \in Holding /\ o.lock = l
                \/ o.nested /\ l = "queue"
One(b) == IF b THEN 1 ELSE 0

HoldInv ==
    /\ \A l \in SpinLocks :
        /\ spin[l] = One(Has(pc[cur], op[cur], l)) + One(Has(pc[Isr], op[Isr], l))
        /\ spin[l] <= 1
    /\ pc[Isr] \notin {"run", "spin"} => ~Has(pc[cur], op[cur], op[Isr].lock)

\* Interrupts are on when no handler runs and the thread has not masked
\* them; a handler has not interrupted a thread that has.
Masking(p, o) ==
    \/ o.nested
    \/ o.kind # "plain" /\ p \in {"inside", "giving", "drop", "unmask", "restore"}

MaskInv ==
    /\ irq <=> ~isr /\ ~Masking(pc[cur], op[cur])
    /\ isr => ~Masking(pc[cur], op[cur])

\* From saving to restoring, the flag of a lock says whether its holder came
\* with interrupts masked, though all holders of the lock share it.
FlagOK(f, p, o, handler) ==
    /\ o.kind = "irqsave" /\ p \in {"saved", "inside", "giving", "drop", "restore"}
          => (f[o.lock] <=> handler \/ o.nested)
    /\ o.nested => (f["queue"] <=> handler)

FlagInv ==
    /\ FlagOK(flag, pc[cur], op[cur], FALSE)
    /\ FlagOK(flag, pc[Isr], op[Isr], TRUE)

\* The inductive invariant.
SpinInv ==
    /\ TypeOK
    /\ OpInv
    /\ ProcInv
    /\ CountInv
    /\ HoldInv
    /\ MaskInv
    /\ FlagInv

\* No call is in progress when the threads start.
LEMMA SpinInit == Init => SpinInv
  <1> SUFFICES ASSUME Init PROVE SpinInv
    OBVIOUS
  <1>1. cur \in Threads /\ cur \in Contexts /\ Isr \in Contexts
    BY DEF Init, Contexts
  <1>2. \A c \in Contexts : pc[c] = "run" /\ op[c] = NoOp
    BY DEF Init
  <1>3. NoOp.kind = "plain" /\ NoOp.lock = "other" /\ ~NoOp.nested /\ NoOp \in Operations
    BY Zenon DEF NoOp, Section, Operations, SpinLocks, Kinds
  <1>4. TypeOK
    <2>1. irq \in BOOLEAN /\ isr \in BOOLEAN /\ flag \in [SpinLocks -> BOOLEAN]
      BY Zenon DEF Init
    <2>2. pc \in [Contexts -> Places] /\ op \in [Contexts -> Operations]
      BY <1>3 DEF Init, Places
    <2> QED  BY <1>1, <2>1, <2>2, LocksAssumption DEF Init, TypeOK
  <1>5. OpInv /\ ProcInv
    BY <1>1, <1>2, <1>3 DEF OpInv, OpOK, ProcInv, AtRest, NoSwitch, Holding, Contexts
  <1>6. CountInv
    BY <1>1, <1>2, <1>3 DEF Init, CountInv, Depth, NoSwitch, Holding
  <1>7. HoldInv
    BY <1>1, <1>2, <1>3 DEF Init, HoldInv, Has, One, Holding
  <1>8. MaskInv
    BY <1>1, <1>2, <1>3 DEF Init, MaskInv, Masking
  <1>9. FlagInv
    BY <1>1, <1>2, <1>3 DEF FlagInv, FlagOK
  <1> QED  BY <1>4, <1>5, <1>6, <1>7, <1>8, <1>9 DEF SpinInv

\* Whose turn it is: the handler's, or the thread's that has the processor,
\* and then the handler is at rest.
Turn(c) ==
    /\ cur \in Threads /\ cur # Isr
    /\ \/ isr /\ c = Isr
       \/ ~isr /\ c = cur /\ pc[Isr] = "run" /\ ~op[Isr].nested

LEMMA Running ==
  ASSUME SpinInv, NEW c \in Contexts, Processor = c
  PROVE  Turn(c)
  <1>1. cur \in Threads /\ cur # Isr /\ Isr \in Contexts
    BY LocksAssumption DEF SpinInv, TypeOK, Contexts
  <1>2. ~isr => pc[Isr] = "run"
    BY DEF SpinInv, ProcInv
  <1>3. pc[Isr] = "run" => ~op[Isr].nested
    BY <1>1 DEF SpinInv, OpInv, OpOK, NoSwitch, Holding
  <1> QED  BY <1>1, <1>2, <1>3 DEF Processor, Turn

\* What the running context's step does to its place and operation.
Shift(c, p, o) ==
    /\ pc' = [pc EXCEPT ![c] = p]
    /\ op' = [op EXCEPT ![c] = o]
    /\ UNCHANGED <<cur, isr>>

\* What a step owes for the context's new place p and operation o: the
\* preemption count and the lock counters move with what the context has, it
\* takes only a free lock, ...
CountStep(c, p, o) ==
    /\ preempt_cnt' \in Nat
    /\ preempt_cnt' = preempt_cnt + Depth(p, o) - Depth(pc[c], op[c])

HoldStep(c, p, o) ==
    /\ spin' \in [SpinLocks -> Nat]
    /\ \A l \in SpinLocks :
        /\ spin'[l] = spin[l] + One(Has(p, o, l)) - One(Has(pc[c], op[c], l))
        /\ Has(p, o, l) => Has(pc[c], op[c], l) \/ spin[l] = 0
    /\ \/ p \in {"run", "spin"}
       \/ spin[o.lock] = 0
       \/ Has(pc[c], op[c], o.lock)
       \/ pc[c] \notin {"run", "spin"} /\ o.lock = op[c].lock

\* ... it masks and unmasks with its section, writes the flag only of the
\* lock it is at, and leaves its own flags right.
MaskStep(p, o) ==
    /\ irq' \in BOOLEAN
    /\ isr => ~irq'
    /\ ~isr => (irq' <=> ~Masking(p, o))

FlagStep(c, p, o) ==
    /\ flag' \in [SpinLocks -> BOOLEAN]
    /\ \/ flag' = flag
       \/ /\ pc[c] \notin {"run", "spin"}
          /\ \A l \in SpinLocks : l # op[c].lock => flag'[l] = flag[l]
    /\ FlagOK(flag', p, o, isr)

\* A step that pays all of this keeps the invariant.
LEMMA StepRule ==
  ASSUME SpinInv, NEW c \in Contexts, Processor = c,
         NEW p \in Places, NEW o \in Operations, Shift(c, p, o),
         UNCHANGED waitVars, OpOK(c, p, o), CountStep(c, p, o), HoldStep(c, p, o),
         MaskStep(p, o), FlagStep(c, p, o)
  PROVE  SpinInv'
  <1>r. Turn(c)
    BY Running
  <1>t. /\ pc \in [Contexts -> Places] /\ op \in [Contexts -> Operations]
        /\ cur \in Contexts /\ Isr \in Contexts
    BY DEF SpinInv, TypeOK, Contexts
  <1>f. /\ pc'[c] = p /\ op'[c] = o /\ cur' = cur /\ isr' = isr
        /\ \A d \in Contexts : d # c => pc'[d] = pc[d] /\ op'[d] = op[d]
    BY <1>t DEF Shift
  <1>1. TypeOK'
    <2>1. pc' \in [Contexts -> Places] /\ op' \in [Contexts -> Operations]
      BY <1>t DEF Shift
    <2> QED  BY <1>f, <2>1 DEF SpinInv, TypeOK, waitVars, CountStep, HoldStep, MaskStep, FlagStep
  <1>2. OpInv'
    BY <1>f DEF SpinInv, OpInv
  <1>3. ProcInv'
    <2>1. \A t \in Threads : t # cur => t # c
      BY <1>r, LocksAssumption DEF Turn
    <2>2. ~isr => c # Isr
      BY <1>r DEF Turn
    <2> QED  BY <1>f, <1>t, <2>1, <2>2 DEF SpinInv, ProcInv, Contexts
  <1>4. CountInv'
    <2>1. CASE c = cur
      <3>1. pc'[Isr] = pc[Isr] /\ op'[Isr] = op[Isr]
        BY <1>f, <1>r, <1>t, <2>1 DEF Turn
      <3> QED  BY <1>f, <2>1, <3>1 DEF SpinInv, TypeOK, CountInv, CountStep, Depth
    <2>2. CASE c = Isr
      <3>1. pc'[cur] = pc[cur] /\ op'[cur] = op[cur]
        BY <1>f, <1>r, <1>t, <2>2 DEF Turn
      <3> QED  BY <1>f, <2>2, <3>1 DEF SpinInv, TypeOK, CountInv, CountStep, Depth
    <2> QED  BY <1>r, <2>1, <2>2 DEF Turn
  <1>5. HoldInv'
    <2>1. CASE c = cur /\ pc[Isr] = "run"
      <3>1. pc'[Isr] = pc[Isr] /\ op'[Isr] = op[Isr] /\ pc'[cur] = p /\ op'[cur] = o
        BY <1>f, <1>r, <1>t, <2>1 DEF Turn
      <3>2. SUFFICES ASSUME NEW l \in SpinLocks
                     PROVE  /\ spin'[l] = One(Has(p, o, l)) + One(Has(pc[Isr], op[Isr], l))
                            /\ spin'[l] <= 1
        BY <1>f, <2>1, <3>1 DEF HoldInv
      <3>3. /\ spin[l] = One(Has(pc[c], op[c], l)) + One(Has(pc[Isr], op[Isr], l))
            /\ spin[l] <= 1
        BY <2>1 DEF SpinInv, HoldInv
      <3>4. /\ spin'[l] = spin[l] + One(Has(p, o, l)) - One(Has(pc[c], op[c], l))
            /\ Has(p, o, l) => Has(pc[c], op[c], l) \/ spin[l] = 0
        BY DEF HoldStep
      <3> QED  BY <3>3, <3>4 DEF One
    <2>2. CASE c = Isr
      <3>1. pc'[cur] = pc[cur] /\ op'[cur] = op[cur] /\ pc'[Isr] = p /\ op'[Isr] = o
        BY <1>f, <1>r, <1>t, <2>2 DEF Turn
      <3>2. ASSUME NEW l \in SpinLocks
            PROVE  /\ spin'[l] = One(Has(pc[cur], op[cur], l)) + One(Has(p, o, l))
                   /\ spin'[l] <= 1
        <4>1. /\ spin[l] = One(Has(pc[cur], op[cur], l)) + One(Has(pc[c], op[c], l))
              /\ spin[l] <= 1
          BY <2>2 DEF SpinInv, HoldInv
        <4>2. /\ spin'[l] = spin[l] + One(Has(p, o, l)) - One(Has(pc[c], op[c], l))
              /\ Has(p, o, l) => Has(pc[c], op[c], l) \/ spin[l] = 0
          BY DEF HoldStep
        <4> QED  BY <4>1, <4>2 DEF One
      <3>3. o.lock \in SpinLocks
        BY DEF Operations
      <3>4. p \notin {"run", "spin"} => ~Has(pc[cur], op[cur], o.lock)
        <4>1. /\ spin[o.lock] = One(Has(pc[cur], op[cur], o.lock)) + One(Has(pc[c], op[c], o.lock))
              /\ spin[o.lock] <= 1
          BY <2>2, <3>3 DEF SpinInv, HoldInv
        <4>2. pc[c] \notin {"run", "spin"} => ~Has(pc[cur], op[cur], op[c].lock)
          BY <2>2 DEF SpinInv, HoldInv
        <4> QED  BY <4>1, <4>2 DEF One, HoldStep
      <3> QED  BY <1>f, <3>1, <3>2, <3>4 DEF HoldInv
    <2> QED  BY <1>r, <2>1, <2>2 DEF Turn
  <1>6. MaskInv'
    <2>1. CASE ~isr
      BY <1>f, <1>r, <2>1 DEF MaskInv, MaskStep, Turn
    <2>2. CASE isr
      <3>1. pc'[cur] = pc[cur] /\ op'[cur] = op[cur] /\ cur' = cur /\ isr'
        BY <1>f, <1>r, <1>t, <2>2 DEF Turn
      <3>2. ~Masking(pc[cur], op[cur])
        BY <2>2 DEF SpinInv, MaskInv
      <3> QED  BY <2>2, <3>1, <3>2 DEF MaskInv, MaskStep
    <2> QED  BY <2>1, <2>2
  <1>7. FlagInv'
    <2>1. CASE ~isr
      <3>1. /\ c = cur /\ cur' = cur /\ pc'[cur] = p /\ op'[cur] = o
            /\ pc'[Isr] = "run" /\ ~op'[Isr].nested
        BY <1>f, <1>r, <1>t, <2>1 DEF Turn
      <3>2. FlagOK(flag', p, o, FALSE)
        BY <2>1 DEF FlagOK, FlagStep
      <3>3. FlagOK(flag', pc'[Isr], op'[Isr], TRUE)
        BY <3>1 DEF FlagOK
      <3> QED  BY <3>1, <3>2, <3>3 DEF FlagInv
    <2>2. CASE isr
      <3>1. /\ c = Isr /\ cur' = cur /\ pc'[Isr] = p /\ op'[Isr] = o
            /\ pc'[cur] = pc[cur] /\ op'[cur] = op[cur]
        BY <1>f, <1>r, <1>t, <2>2 DEF Turn
      <3>2. FlagOK(flag', p, o, TRUE)
        BY <2>2 DEF FlagOK, FlagStep
      <3>3. FlagOK(flag, pc[cur], op[cur], FALSE) /\ ~Masking(pc[cur], op[cur])
        BY <2>2 DEF SpinInv, FlagInv, MaskInv
      <3>4. flag' = flag \/ \A l \in SpinLocks : Has(pc[cur], op[cur], l) => flag'[l] = flag[l]
        BY <3>1 DEF SpinInv, HoldInv, FlagStep
      <3>5. op[cur].lock \in SpinLocks
        BY <1>t DEF Operations
      <3>6. FlagOK(flag', pc[cur], op[cur], FALSE)
        <4>1. ~op[cur].nested
          BY <3>3 DEF Masking
        <4>2. op[cur].kind = "irqsave" /\ pc[cur] \in {"saved", "inside", "giving", "drop", "restore"}
                => pc[cur] = "saved"
          BY <3>3 DEF Masking
        <4>3. pc[cur] = "saved" => Has(pc[cur], op[cur], op[cur].lock)
          BY DEF Has, Holding
        <4>4. pc[cur] = "saved" => flag'[op[cur].lock] = flag[op[cur].lock]
          BY <3>4, <3>5, <4>3
        <4> QED  BY <3>3, <4>1, <4>2, <4>4 DEF FlagOK
      <3> QED  BY <3>1, <3>2, <3>6 DEF FlagInv
    <2> QED  BY <2>1, <2>2
  <1> QED  BY <1>1, <1>2, <1>3, <1>4, <1>5, <1>6, <1>7 DEF SpinInv

\* What the running context knows of itself.
Know(c) ==
    /\ pc[c] \in Places /\ op[c] \in Operations /\ op[c].lock \in SpinLocks
    /\ pc \in [Contexts -> Places] /\ op \in [Contexts -> Operations]
    /\ irq \in BOOLEAN /\ preempt_cnt \in Nat
    /\ spin \in [SpinLocks -> Nat] /\ flag \in [SpinLocks -> BOOLEAN]
    /\ OpOK(c, pc[c], op[c])
    /\ FlagOK(flag, pc[c], op[c], isr)
    /\ isr => ~irq
    /\ ~isr => (irq <=> ~Masking(pc[c], op[c]))
    /\ \A l \in SpinLocks : Has(pc[c], op[c], l) => spin[l] = 1
    /\ preempt_cnt >= Depth(pc[c], op[c])

LEMMA Facts ==
  ASSUME SpinInv, NEW c \in Contexts, Processor = c
  PROVE  Know(c)
  <1>r. Turn(c)
    BY Running
  <1>1. /\ pc \in [Contexts -> Places] /\ op \in [Contexts -> Operations]
        /\ irq \in BOOLEAN /\ preempt_cnt \in Nat
        /\ spin \in [SpinLocks -> Nat] /\ flag \in [SpinLocks -> BOOLEAN]
    BY DEF SpinInv, TypeOK
  <1>2. OpOK(c, pc[c], op[c])
    BY DEF SpinInv, OpInv
  <1>3. FlagOK(flag, pc[c], op[c], isr)
    BY <1>r DEF SpinInv, FlagInv, Turn, FlagOK
  <1>4. (isr => ~irq) /\ (~isr => (irq <=> ~Masking(pc[c], op[c])))
    BY <1>r DEF SpinInv, MaskInv, Turn
  <1>5. \A l \in SpinLocks : Has(pc[c], op[c], l) => spin[l] = 1
    BY <1>r, <1>1 DEF SpinInv, HoldInv, Turn, One
  <1>6. preempt_cnt >= Depth(pc[c], op[c])
    BY <1>r DEF SpinInv, CountInv, Turn, Depth
  <1>7. op[c].lock \in SpinLocks /\ op[c] \in Operations /\ pc[c] \in Places
    BY <1>1 DEF Operations
  <1> QED  BY <1>1, <1>2, <1>3, <1>4, <1>5, <1>6, <1>7 DEF Know

\* Past the test, the lock is still free: what a thread saw before it was
\* switched out holds when it comes back.
LEMMA FreeLock ==
  ASSUME SpinInv, NEW c \in Contexts, Processor = c,
         pc[c] # "run", pc[c] = "spin" => c # Isr, ~Has(pc[c], op[c], op[c].lock)
  PROVE  spin[op[c].lock] = 0
  <1>r. Turn(c)
    BY Running
  <1>1. op[c].lock \in SpinLocks
    BY Facts DEF Know
  <1>3. c = cur => ~Has(pc[Isr], op[Isr], op[c].lock)
    BY <1>r DEF Turn, Has, Holding
  <1>4. c = Isr => ~Has(pc[cur], op[cur], op[c].lock)
    BY <1>r DEF SpinInv, HoldInv
  <1>5. spin[op[c].lock] = One(Has(pc[cur], op[cur], op[c].lock))
                            + One(Has(pc[Isr], op[Isr], op[c].lock))
    BY <1>1 DEF SpinInv, HoldInv
  <1> QED  BY <1>r, <1>3, <1>4, <1>5 DEF Turn, One

\* The operations a context can be given are operations.
LEMMA Sections ==
  /\ \A l \in SpinLocks, k \in Kinds, n \in BOOLEAN :
        /\ Section(l, k, n) \in Operations
        /\ Section(l, k, n).lock = l
        /\ Section(l, k, n).kind = k
        /\ Section(l, k, n).nested = n
  /\ NoOp \in Operations /\ NoOp.lock = "other" /\ NoOp.kind = "plain" /\ ~NoOp.nested
  /\ OnQueue \in Operations /\ OnQueue.lock = "queue" /\ OnQueue.kind = "irqsave"
  /\ ~OnQueue.nested
  /\ {"queue", "thread", "other"} \subseteq SpinLocks
  /\ {"plain", "irq", "irqsave"} \subseteq Kinds
  <1>1. \A l \in SpinLocks, k \in Kinds, n \in BOOLEAN :
        /\ Section(l, k, n) \in Operations
        /\ Section(l, k, n).lock = l
        /\ Section(l, k, n).kind = k
        /\ Section(l, k, n).nested = n
    BY Zenon DEF Section, Operations
  <1>2. /\ NoOp \in Operations /\ NoOp.lock = "other" /\ NoOp.kind = "plain" /\ ~NoOp.nested
        /\ OnQueue \in Operations /\ OnQueue.lock = "queue" /\ OnQueue.kind = "irqsave"
        /\ ~OnQueue.nested
    BY Zenon DEF Section, Operations, NoOp, OnQueue, SpinLocks, Kinds
  <1>3. /\ {"queue", "thread", "other"} \subseteq SpinLocks
        /\ {"plain", "irq", "irqsave"} \subseteq Kinds
    BY Zenon DEF SpinLocks, Kinds
  <1> QED  BY <1>1, <1>2, <1>3, Zenon
=============================================================================
