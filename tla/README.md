# HeavenFox OS in TLA+

HeavenFox OS is a small kernel for single-core ARM boards: preemptive threads
with priorities and time slices, locks, wait queues, mailboxes, a memory pool,
a device model and drivers.  This directory models the parts of it whose
correctness depends on the order in which things happen, checks the models with
TLC and proves the invariants of the scheduler and of the spin lock with TLAPS.

The configuration modelled is the one in `configs/`: `CONFIG_SCHDULE = 1`,
`CONFIG_PREEMPT = 1`, `CONFIG_ROLL_POLL = 0`, one core.

## 1. The system

| Part | State | Operations | Talks to |
|---|---|---|---|
| scheduler `kernel/sched.c` | table of threads, three status lists, running thread, lock | switch, suspend, sleep, wake-up, register | everything |
| thread creation `kernel/thread.c` | attributes, tids | create, revise attributes | scheduler, allocator |
| interrupt exit `vectors.S`, `context.S` | reschedule flag, preemption count | switch on the way out of an interrupt | scheduler |
| ticks, timers, delays `time.c`, `sleep.c` | `jiffies`, timer list | tick, add, modify, delete, delay | scheduler |
| base, idle, init threads `kernel/kthread/` | preemption timer | start timer, spawn threads | timers, scheduler |
| locks `spinlock.c`, `mutex.c`, `semaphore.c` | counters | lock, try, unlock | preemption count, interrupts |
| wait queues `wait.c`, `wait.h` | list of waiters, signal flags | wait, wake | locks, timers |
| work queue `kworker.c` | list of works | queue, run, detach | timers |
| mailboxes `mailbox.c` | list of boxes, lists of mails | create, send, receive, destroy | mutex, delays |
| memory `mem_block.c`, `fwk_mempool.c` | block lists | allocate, free | locks |
| files, devices, interrupts, clocks, gpio `platform/` | registries, descriptor table | register, open, request, ... | locks, allocator |
| network `platform/net/` | interface, socket and buffer lists | receive, transmit, open, close | threads |
| drivers, boards, boot, shell, `lib/` | registers, third-party code | | |

What makes it hard: one processor but three kinds of interleaving.  Threads
interleave at every instruction at which interrupts are on and the preemption
count is 0; the tick handler runs between any two instructions at which
interrupts are on, and works on the same tables; and a lock is taken *before*
interrupts are masked, so a handler can meet a lock that is held.  Timers are
level-triggered on a word that wraps.

## 2. Modules

| Module | Models | Kind |
|---|---|---|
| `SchedTable` | `struct scheduler_table` and the functions of `sched.c` that transform it | operators on a table record, named after the C functions |
| `Scheduler` | who calls them and when: the running thread, the tick, the interrupt exit, thread creation | state machine |
| `ThreadStates` | what the scheduler promises of the threads' states | abstract specification |
| `SleepTimers` | `jiffies`, the timer list, delays, time slices, the preemption timer | state machine on `SchedTable` |
| `Locks` | spin lock with its interrupt variants, mutex, semaphore, under preemption and a handler | state machine |
| `SeqLemmas`, `SchedTableProofs` | | lemmas on sequences and on the table |
| `SchedulerInvariant`, `SchedulerSteps`, `SchedulerProofs` | | invariant, steps inside calls, remaining steps and theorems |
| `LocksInvariant`, `LocksSteps`, `LocksProofs` | | the same for the spin locks |
| `MCScheduler`, `MCSleepTimers`, `MCLocks` | | instances for TLC |

### SchedTable and Scheduler

A table is a record: `status`, `to_status` and `prio` of every slot, the three
lists as sequences of tids, and `work`, the running thread.  A slot with status
`NONE` is free.  Each operator named after a C function yields the table the
function leaves behind (with the outcome where a caller looks at it); early
returns and the `fail` label of `schedule_thread_switch` are branches of it.
The three pairs of functions `schedule_add_*_list` and `schedule_detach_*_list`
are one pair with the list as parameter.

`Scheduler` adds the lock, the preemption count, `thread_schedule_ref` and, per
thread, the operation it is in (`call`) and the place it has reached in it:

* `run`: outside the scheduler;
* `compared`: `schedule_thread_suspend` or `_sleep` has compared its target with
  the running thread and not yet taken the lock; preemption is on;
* `window`: the lock is taken, interrupts are not yet masked.  The step out of
  it is the whole locked section with interrupts off, up to
  `spin_unlock_irqrestore`;
* `resched`: `schedule_self_suspend` or `_sleep` has asked for its new status
  and not yet reached `schedule_thread`;
* `create`, `alloc`, `checked`, `leave`: `__thread_create` has turned preemption
  off; has a tid; has seen, in `register_new_thread`, that the slot is free; is
  on its way out, registered or failed.  The search for a tid and the
  registration are locked sections of their own, entered through `window`.

Every step of a thread requires that it is the running thread.  The tick
(`systick_isr`) can come in every state; its parameters say whose delay has
expired and whether the preemption timer fires before or after that time-out.
Several sleepers expiring on one tick are several ticks here.  The interrupt
exit switches only when the preemption count is 0; a null context sets `fault`.

`schedule_thread_suspend`, `_sleep` and `_wakeup` take any tid, as the terminal's
`kill` passes whatever number it is given (`term/cmd/kill.c`), and do not ask
whether there is a thread of that tid.  When there is none the locked section
uses a null handler (`null_handler`): `fault` is set with the lock held and
interrupts off.  What comes of it is undefined; where the access aborts,
`_data_abort_handler` returns to the instruction that caused it, so the model
stays there (`exec_data_abort_handler`).  `Killers` bounds who suspends or kills
by tid; anybody wakes by tid.

What is left out: names, statistics, stacks and registers; two switches of
`preempt_cnt` around the creation of the first threads in `kthread_entry`, when
the preemption timer is not running yet.

### SleepTimers

The same table, with time.  `jiffies` counts modulo `JIFFIES_MAX + 1`, and so do
the sums the code makes with it.  A thread goes through `schedule_delay` and
`schedule_timeout` in the steps that an interrupt can separate: compute the end
of the delay (`count`), compare it with `jiffies`, take the lock, link the timer,
take the lock, ask for `SUSPEND`, switch, take the lock, unlink the timer.
`kthread_entry` likewise computes the time of the preemption timer in one step
and sets it in another; `mod_timer` itself is one step there, though interrupts
are on.  A thread of `Wakers` may wake any other at any moment, before its timer
has expired (`wakeup`): the sleeper then comes back with its timer on the list.
A tick runs `do_timer_event` over the list in list order, including
`thread_sleep_timeout`, which gives up when the lock is held, and
`kthread_schedule_timeout` with the time slice.  `due` is a history variable: the
ticks of the delay that have not come yet, 0 once another thread has cut it short.

### Locks

Three spin locks, a mutex and a semaphore, and threads that call their functions
in any order.  The spin locks are a wait queue's, a thread's and one that stands
for all others.  `wake_up_common` takes the thread's lock (`thread_state_signal`)
inside the section of the queue's, where interrupts are masked already, in a
thread or in a handler; `op` says which lock a context is at, by which function,
and whether it is nested in this way.  One action is one access to shared state:
passing the test of `spin_lock`, raising the preemption count, counting the lock,
saving the interrupt state, masking, and the same backwards.

The handler is a context like the threads: `irq_entry` masks interrupts and gives
it the processor, `irq_exit` takes it back.  It takes no lock (`systick_isr`) or
calls `wake_up_common`, step by step, as the key and touch drivers' interrupts
do.  The scheduler is reduced to what it means for locks: the interrupt exit
gives the processor to any thread when the preemption count is 0, and a thread
that finds a mutex or semaphore locked gives it to any thread.  A handler that
finds its lock held never leaves the loop and the system stops, which is why
these runs do not check deadlock.  `SemDebt` bounds how far below 0 the semaphore
is followed: once negative, it goes down without end.

Not in the model: a thread that takes a lock it holds already.
`sys_arch_protect` (`lib/lwip/port/sys_arch.c:116`) is documented as a section
that may be entered again; with this spin lock a second entry would turn for ever.

### ThreadStates

The states of the threads and nothing else: creation, the first switch, moves
between the parked states, switches, and a wake-up together with a switch (one
interrupt does both).  `Scheduler` implements it with `st <- tab.status`.  The
moves are those of the comment in `schedule_thread_switch` (`sched.c:517-526`);
the comment in `kernel.h:27-33` lists fewer and is checked by `status_moves`.

## 3. Runs

| Run | Config | Bounds | Shows |
|---|---|---|---|
| `scheduler` | `MCScheduler.cfg` | idle, base, kernel and user thread, the last two kill by tid; one late priority change | the invariants and action properties below, and `ImplementsThreadStates` |
| `scheduler_order` | `MCSchedulerOrder.cfg` | five threads, three of one priority, no late change, no killing by tid | `ListsSorted`, `TopNotStarved` |
| `late_priority` | `MCSchedulerLatePrio.cfg` | | violation: a late priority change leaves a list unsorted |
| `kernel_priority` | `MCSchedulerKernelPrio.cfg` | | violation: the base thread asks for priority 0 and gets 80 |
| `status_moves` | `MCSchedulerMoves.cfg` | | violation: a thread moves from ready to suspend or sleep, which `kernel.h` does not list |
| `timers` | `MCSleepTimers.cfg` | idle, base, worker; a counter of five values; the worker wakes others | timers and delays, safety and liveness |
| `delay_wrap` | `MCSleepTimersWrap.cfg` | | violation: a delay across the wrap returns at once |
| `delay_last_tick` | `MCSleepTimersLast.cfg` | | violation: a delay ending on `JIFFIES_MAX` never ends |
| `locks` | `MCLocks.cfg` | three interchangeable threads, a handler, three spin locks, two permits, counter down to -1 | spin lock, mutex and semaphore, safety |
| `mutex_exclusion` | `MCLocksMutex.cfg` | two threads | violation: two threads inside a mutex |
| `semaphore_permits` | `MCLocksPermits.cfg` | two threads | violation: a permit is lost |
| `handler_spins` | `MCLocksHandler.cfg` | two threads | violation: a handler spins on the lock of the thread it interrupted |

Why the bounds are enough: the scheduler treats threads only by status, place
and priority, and a call involves at most the caller, its target and the head
of the ready list besides the idle thread; four threads let all four differ and
five let three equals compete.  In `SleepTimers` the delay, the period and the
slice are all shorter than a turn of the counter, as in the code, and every one
of them ends before, on and behind the wrap in some behaviour; the counter turns
for ever, so that delays start at every one of its values.  In `Locks` a
stale test involves the thread that made it and one that got in between; the
third lets two of them be stale at once.

Properties of `Scheduler`: `PlaceMatchesStatus` (a thread is on the list its
status names, once, and on no other), `SomebodyRuns`, `NoNullContext`,
`RequestsOfRunning`, `SwitchedOutClean` (nobody is switched out holding the lock
or a reserved tid), `PreemptBalanced`, `LookupsStayValid` (the tid chosen for a
new thread stays free, and a target found not to be running is not running under
the lock, although preemption was on between the two), `PreemptionNeverDemotes`,
`FifoAmongEquals`, `TickNeverRevivesKilled`, `ListsSorted`, `TopNotStarved`.
Properties of `SleepTimers`: `TimersOnLiveFrames`, `SleepersHaveTimer`,
`SleepNotShort`, `SleepersWake`, `PreemptTimerFires`.
Properties of `Locks`: `SpinExclusive` (a stale test does no harm),
`ThreadsNeverSpin`, `IrqRestored` (interrupts are off exactly in handlers and
masking sections, nested ones included; the shared flag does no harm), `MutexCounts`,
`SemNoGain`.

### Fairness

`Scheduler`: the kernel starts; a running thread goes on with the call it is in
(the processor executes instructions, weak fairness); and the preemption timer,
which every expiry arms again, keeps expiring at moments at which preemption is
on (strong fairness: preemption is off for a few instructions at a time).  That
it keeps expiring is an assumption of `TopNotStarved`, true away from the wrap of
`jiffies` only (see 5.4), and it makes up for a reschedule flag that an interrupt
exit cleared while preemption was off; the property says nothing of how late.
`SleepTimers`: the clock ticks for ever, a running thread goes on with its call,
and of the ticks that find a sleeper's timer expired (`Expiring`) not all, if
there are infinitely many, fall into the window in which somebody holds the lock
with interrupts on: the window is a few instructions long.
Threads that compute are never forced to call anything.  The fairness formulas
are written out with the conditions that enable the actions.

## 4. Proofs

`SchedulerProofs` proves for every set of threads, all priorities, and calls on
any tid

* `Invariance`: `Spec => []IInv`,
* `TypeCorrectness`, `PlaceCorrectness`, `AlwaysRunning`, `CallsAreSafe`: the
  invariants of the run `scheduler` that follow from it.

The assumptions are `TidsAssumption` and `ThreadsAssumption`: tids are natural
numbers, the idle and the base thread have slots of their own, priorities are
natural numbers, the default priority is not 0.

The argument.  No invariant of the run is inductive alone.  A switch keeps every
thread in its place only if the table was in order and the target of the call is
not the running thread; that is so because the caller itself is running, and it
is not switched out under the lock because the preemption count is positive
exactly inside calls; and the interrupt exit needs a ready thread, which exists
because the idle thread is ready whenever it does not run and the timer only
asks for a switch when the ready list is not empty.  `IInv`
(`SchedulerInvariant`) is the conjunction of the invariants with
`CallsInProgress`, what each thread's call looks like by the place it has reached
(`CallOK`), and "nobody runs exactly until the first switch".

`SeqLemmas` proves what inserting and removing do to a sequence without
repetitions, `SchedTableProofs` what each transformation does to a table that is
in order (`SwitchParked`, `SwitchOut`, `SwitchFirst`, `Register`, ...).  Most
actions only move one thread from one place to another: the lemma `CallStep` of
`SchedulerInvariant` says once that such a step keeps `IInv` if the thread's new
call is in order and the table and the counts fit it.  `SchedulerSteps` and
`SchedulerProofs` then have one lemma per action.

`LocksProofs` proves `SpinInvariance` and from it `SpinExclusion`, `NeverSpinning` and `MaskRestored` for
every non-empty set of threads.  `spin_lock` tests with preemption on and counts
later, so exclusion is not inductive: `SpinInv` (`LocksInvariant`) adds that
whoever has raised the preemption count has the processor, and that count, locks,
mask and flags are what the places of the running thread and of the handler say.
A thread is switched out only with count 0, hence with all locks free, so the
answer it took with it is still right when it comes back.  A lock's flag is right
from `save_flag` to the unmasking because nobody else can run in between who
uses the lock, and the late `clear_flag` does no harm because a thread that has
saved its flag cannot be switched out for another to clear it.

Only model-checked: liveness (`TopNotStarved`, `SleepersWake`,
`PreemptTimerFires`), the refinement of `ThreadStates`, the action properties,
`ListsSorted`, the counts of mutex and semaphore, and everything about
`SleepTimers`.

## 5. What the checks found

1. `thread_attr_revise` takes priority 0 for "not set", so the base kernel
   thread, created with `THREAD_PROTY_KERNEL` = 0, runs at the default priority
   80 (`kernel_priority`).
2. `thread_set_priority` on a thread that is already queued does not move it
   (`late_priority`).
3. `schedule_thread_suspend` and `_sleep` park a ready thread, and `_sleep` a
   suspended one.  `sched.c:517-526` lists these moves, `kernel.h:27-33` does not
   (`status_moves`).
4. A delay whose end lies behind the wrap of `jiffies` returns at once
   (`delay_wrap`); one that ends exactly on `JIFFIES_MAX` never ends
   (`delay_last_tick`).  `jiffies` is 32 bits wide and counts 100 ticks a second.
5. `mutex_lock` and `sema_down` test and count in two steps with preemption on:
   two threads get in (`mutex_exclusion`).  A semaphore gets below 0 that way,
   where it never locks again.
6. `sema_up` gives a permit back only to an empty semaphore
   (`semaphore_permits`).
7. The comment on `spin_lock` says it schedules another thread; it spins.  For
   threads the loop never turns, but a handler can find the lock held between
   `spin_lock` and the masking of interrupts, for instance `wake_up_common`
   during `remove_wait_queue`, and never returns (`handler_spins`).

Not a disagreement with any comment, but met on the way: a suspend, sleep or
wake-up of a tid nobody has ends on a null handler (see `Scheduler` above).

And what they did not find: the same two-step test in `spin_lock` is harmless on
one processor, and so is clearing the shared flag after the unlock.  A time-out
that meets a held lock, or a thread that has not suspended itself yet, is not
lost, because timers stay on the list and fire on every tick until their thread
takes them off.

## 6. Plan

In this order:

1. `Locks` composed with the scheduler: a mutex waiter of high priority and a
   holder of low priority.
2. `WaitQueue`, `KWorker`: lost and stale wake-ups, requests during execution.
3. `ListHead`: list operations pointer by pointer with an interrupt in between.
4. `Mailbox`, `MemBlock` (with a proof that blocks tile the pool).
5. `FdTable`, device and interrupt registries, `NetifRx` and buffer counts, the
   interrupt-driven drivers.
6. Proofs: `ListsSorted` without late changes, the refinement of `ThreadStates`,
   the action properties, the invariants of `SleepTimers` and `MemBlock`.

Not to be modelled: `lib/` (third-party code), register-level drivers, board
tables, linker scripts and start-up assembly, the shell and the examples, which
have no state whose order of changes a model could tell apart.
