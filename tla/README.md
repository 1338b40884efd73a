# xv6 labs: a verification project

The repository holds one person's solutions of five xv6-riscv labs. Each lab is
a kernel of its own: a directory has the files of that lab that differ from the
unmodified kernel, so `lab4-traps/kernel/proc.c` and `lab3-pgtbl/kernel/proc.c`
are two versions of one file, and files such as `spinlock.c`, `pipe.c` or
`swtch.S` are not here at all. This directory models the parts of those kernels
that are hard to test, model-checks them with TLC, and proves theorems about
them with TLAPS.

## 1. Inventory

| component | state | operations | with whom it interacts |
|---|---|---|---|
| lab5 page allocator, `lab5-cow/kernel/kalloc.c` | `kmem.freelist`, `kmem.mem_rc`, the pages | `kinit`, `kalloc`, `kfree`, `cowalloc`, `kmemrc` | called by every user of memory, on every hart; `kmem.lock` |
| lab5 copy-on-write memory, `vm.c`, `trap.c` | page tables, `p->sz` | `uvmcopy`, `cow`, `copyout`, `uvmunmap`, `uvmalloc`, `uvmdealloc`, `uvmfree`, `freewalk`; the store fault in `usertrap` | fork, exit, wait, sbrk above; the allocator below; the other processes through shared pages |
| lab4 alarm, `trap.c`, `sysproc.c`, `proc.c` | `alarm_guard`, `ticks`, `elapsed_ticks`, `alarm_handler`, `alarm_trapframe`, the trapframe | `sigalarm`, `sigreturn`, the timer branch of `usertrap` | `syscall()` stores results in `a0`; allocproc, fork and freeproc recycle the slot |
| processes and scheduler, `lab4-traps/kernel/proc.c` (near-copies in lab2, lab3) | `proc[]` (state, chan, killed, xstate, pid, parent), `nextpid`, `cpus[]` | allocproc, freeproc, fork, exit, wait, scheduler, yield, sleep, wakeup, kill, growproc | locks `wait_lock`, `p->lock`, `pid_lock`; timer interrupts |
| ticks and `sys_sleep`, `lab4-traps/kernel/{trap,sysproc}.c` | `ticks` | `clockintr`, `sys_sleep`, `sys_uptime` | sleep and wakeup, `kill` |
| Sv39 page tables, `lab3-pgtbl/kernel/vm.c`, `lab5-cow/kernel/vm.c` | pages of page tables | `walk`, `mappages`, `uvmunmap`, `freewalk`, `kvmmake` | the allocator; exec, fork |
| lab3 usyscall page, `lab3-pgtbl/kernel/proc.c` | `p->usyscall` and its mapping | `proc_pagetable`, `proc_freepagetable`, allocproc, freeproc | exec calls `proc_pagetable` too |
| lab3 exec, `exec.c` | the new and the old page table | `exec`, `loadseg` | page tables, file system |
| lab3 pgaccess, `sysproc.c` | `PTE_A` of user pages | `sys_pgaccess` | `copyout` |
| lab2 trace and dispatch, `syscall.c`, `sysproc.c` | `p->trace_mask` | `syscall`, `sys_trace`, fork | the console |
| lab2 sysinfo, `kalloc.c`, `proc.c`, `sysproc.c` | none | `kavail`, `proc_count`, `sys_sysinfo` | free list and process table, the latter without locks |
| lab4 printf and backtrace | `pr.locking`, the stack | `printf`, `panic`, `backtrace` | the console |
| lab3 vmprint | none | output of a page table | exec of pid 1 calls it |
| lab1 sleep, pingpong | two pipes | user programs | pipe, fork, read, write |

What makes these parts correct, and what is hard about them:

* **Allocator.** A count is the number of pointers, a free page is on the list
  once, a page is never filled under somebody's feet. Hard: `kfree` has two
  critical sections with a memset between them, the argument checks are made
  without the lock, and `kmemrc` returns a number that may be old when it is
  used. (A count is a `signed char`; with 64 processes it does not come near
  its limit, and `RoomForOne` in `CowProofs` says so.)
* **Copy-on-write.** Processes cannot see each other's stores, nothing leaks,
  nothing panics. Hard: harts share pages, every operation may fail half way,
  and `cow()` takes a page away before it has the new one.
* **Alarm.** A handler is called once per interval, never inside itself, and
  the program does not notice. Hard: the fields live in a slot that other
  processes have used before, and every order of calls and interrupts is legal.
* **Processes.** No lost wakeup, no lost zombie, no deadlock of the locks, a
  killed process dies. Hard: all of it is interleaving.
* **Page tables, exec, usyscall, pgaccess.** Every page has one owner, every
  page table maps what its process has and nothing else, a call that fails
  leaves no trace. Hard: each of fork, exec and sbrk can run out of memory at a
  dozen places, with pages allocated, mapped or half mapped, and three error
  paths free by a size that is not the one of `p->sz`.
* **trace, sysinfo.** A trace follows a process and its children and nobody
  else; the numbers are what the system had. Hard: slots are used again, and
  `proc_count` takes no lock.
* **printf, panic, backtrace.** Lines are whole, a panic is seen whatever state
  the lock is in, and a walk of the stack stops. Hard: `pr.locking` is read
  once and may change before the printf is over.

The full list of hazards, each with its line and the properties that cover it,
is in `PROJECT.json`.

## 2. Modules

    Kmem            kalloc.c's struct kmem and one operator per critical section
     |-- Kalloc     threads calling kalloc, kfree, cowalloc, kmemrc -- implements FrameRefs
     |    |-- MCKalloc        a small instance
     |    `-- KallocProofs    theorems
     `-- Cow        processes sharing pages on several harts  -- implements AddressSpaces
          |-- MCCow           small instances
          `-- CowProofs       theorems: counts, sharing, no panic; no page missing, AddressSpaces
    PageTable       lab3's vm.c as operators on page tables
     `-- UserVm     fork, exec, exit, wait, sbrk, pgaccess on them -- implements AddressSpaces
          |-- Vmprint         what vmprint shows of a page table
          |    `-- MCUserVm        a small instance, with the files that exec finds
          `-- PageTableProofs lemmas: what each function does to page tables and to who owns a page
               `-- UserVmProofs    theorems: one owner per page, no panic, shape of the tables (and of Vmprint)
    Syscall         trace and sysinfo, with fork, exit and wait
     `-- SyscallProofs        theorems
    Console         printf, panic and backtrace
     |-- MCConsole            a small instance
     `-- ConsoleProofs        theorems
    Alarm           sigalarm and sigreturn
     `-- AlarmProofs          theorems
    Proc            the process table: fork, exit, wait, sleep, wakeup, kill, the scheduler
     `-- ProcProofs           theorems
    FrameRefs       abstract: who refers to a page
    AddressSpaces   abstract: every process has an image of its own

Operators keep the names of the functions they model. An operator whose comment
begins with "Wrong:" is not part of the model: it is the definition after it
with a bug, and shows that the property named in `PROJECT.json` would notice.

### Kmem, Kalloc, FrameRefs

`freelist`, `mem_rc` and `mem` are the fields of `kmem` and the pages. A step
is what the code does under one acquire/release of `kmem.lock`, or one piece of
work outside of it: the check before the lock (`KfreeCall`, `CowallocCall`),
the first critical section of `kfree` (`KfreeShared` or `KfreeLast`), the
memset (`KfreeFill`), the second critical section (`KfreePush`). `SignedChar`
and `UnsignedChar` are the conversions C makes when a count is stored and read.

The callers are kernel threads. `refs` is a history variable that says who has
a counted pointer to a page, as page-table entries do in the kernel: a thread
calls `kfree`, `cowalloc` and `kmemrc` only for a page it has a pointer to, and
shares a page with a child that does not run yet, so it has no pointer to that
page. `FrameRefs` is the promise without counts and lists: a page is handed out
only when nobody refers to it.

The linked list is a sequence; that `r->next` lives in the free page itself is
abstracted, and `FillIsExclusive` is what makes it sound. Addresses out of
range are not modelled (the callers take addresses from PTEs).

### Cow, AddressSpaces

A process has a page table of `MaxSz` leaf PTEs (`pa`, `PTE_W`, `PTE_U`,
`PTE_RSW1`), a size, a slot state and a parent; `th[p]` is its kernel thread:
a program counter and the locals of the function it is in. `Init` is the
machine after exec has built the first process.

Steps end where another thread can notice: at the critical sections of
`kalloc.c`, at reads and writes of the page that is shared. A page table is
touched only by its own thread (or by the parent that fills or frees it), so
work on page tables goes with the step before or after it. `KfreeLast` does the
check, the first critical section and the memset of `kfree` in one step:
`Kalloc` shows (and `KallocProofs` proves, `FillsAreExclusive`, `NeverPanics`)
that nobody else can see the difference, because the caller is the only one to
refer to the page. In the same way `UvmcopyPage` and `UvmcopyFail` do cowalloc's
look at the count (`kalloc.c:103`), its panic and its critical section in one
step: what the look needs is the reference of the parent's PTE, which nobody
takes away in between, and `Kalloc` has the two apart.

Harts: a thread may be preempted wherever interrupts are on. They are off in
the store-fault branch of `usertrap` (it never calls `intr_on`), in fork while
it holds the child's lock, and in wait while it holds the zombie's; a thread
there keeps its hart (`KeepsHart`), so with `NCPU` harts at most `NCPU` of them
are half way through at the same time, and with one hart nobody else runs.
`copyout` and `sbrk` run with interrupts on and may be interrupted anywhere.
`wait_lock` keeps exit and fork's last step out while wait frees a zombie.

`uvmcopy` and `uvmalloc` may fail at any page, because `mappages` may find no
page for a page table: page-table pages are not counted among `Frames`, so the
failure is a nondeterministic choice (`UvmcopyFail`, `UvmallocFail`). `cow`'s
own `mappages` cannot fail, the page it needs is there. A copyout writes to one
page; one that spans two is two of them. `p->sz` is in pages. fork, exit, wait,
freeproc and growproc are not in lab5: they are taken from lab4's `proc.c`, the
version of that file nearest to lab5's.

`AddressSpaces` has no frames: fork copies an image, a store changes one page
of one image. exec (`Exec`) is left to UserVm: lab5's model of memory begins
after it, with `Images <- {}`. The refinement mapping `Image` reads a process's pages through
its page table; while `cow()` has let a page go and not yet copied it, the image
is what the old page holds, because that is what the process is going to get.

### Alarm

While p is in user mode `frame[p]` is its registers, in the kernel its
trapframe: a program counter, `a0` and the rest. A system call is one step, from
the trap (`Ecall` steps the saved program counter over the instruction) through
its effect to the result that `syscall()` stores in `a0` (`Returns`): ticks in
the kernel mean nothing to it, and nobody else looks at these fields.
`SysSigreturn` puts the saved registers back and then has 0 stored in the
restored `a0`, as the code does. `Compute` is the program at work; what it may
leave in its registers is `Values`, in `a0` also `Scratch`.
`TickInUser` is a timer interrupt in user mode with its three outcomes, `Fire`,
`Count` and `Ignore`. A handler ends with `sigreturn`; `HandlerMay` says
whether it may also fork or exit. `interrupted` and `spent` are history: what
the handler interrupted, and how many ticks of user time have passed. A slot
that is left keeps its alarm fields, because freeproc does not reset them.
`NewProgram` is a process made by somebody outside of `Procs`. Timer
interrupts that find the process in the kernel change nothing (`kerneltrap`
only yields) and are not steps.

### Proc

`state`, `chan`, `killed`, `parent` and `pid` are the fields of `proc[]`;
`th[p]` is the kernel thread of p: a program counter, two cursors in the table
(`i` for the loops of allocproc, wait and kill, `j` for those of `wakeup`) and
an argument. A step is one critical section of a slot's lock, or the work
between two. `wait_lock` and `tickslock` are variables, because the code holds
them over many steps; the lock of a slot is held for one step, except by fork,
which keeps the child's from allocproc until the child is built (`Locked`).
So `wakeup` is one step per slot, `reparent` one per child with a whole
`wakeup(initproc)` after each, and the scan of `wait` one per child.

sleep is a step of its own after the test that decides on it (`WaitDecides`,
`SleepTest`), so a wakeup or a kill may come in between. In that step the code
takes `p->lock`, releases `lk`, marks p SLEEPING and gives up the hart; a
wakeup that has got `lk` in the middle waits for `p->lock` until p sleeps, so
nobody can see the parts.

Harts have no names: `IdleHart` says that one of them runs its scheduler. A
thread that holds a lock, or spins for one (`Spin`; acquire() of spinlock.c is not in
the repository), has interrupts off and is not preempted (`Interruptible`). `clk` is the clock interrupt, which runs on top of a process
or of the scheduler, holds `tickslock`, and yields at the end. The interrupts of
the other harts are `Yield`.

`pid` is drawn from a finite set: allocpid counts for ever, so a new pid is one
that is neither in the table nor the argument of a kill on its way; `Pids` are
congruent to the slot, so that no two slots share one. `Killers` are the slots
whose programs call `kill`, of the pid of any process but init or of pid 0 where
`KillPids` has it: `proc_live` has the kills, `proc` the third slot.

init calls `wait` again and again and never `exit` or `sleep` (user/init.c is not
in the repository), and nobody kills it; a dead init would panic the kernel. A killed
process in user mode exits at its next trap (`TrapKilled`). The files, the
current directory and the log transaction that `exit` closes are not modelled,
nor is the memory (it is in Cow).

### PageTable, UserVm

`PageTable` has an operator for each function of lab3's `vm.c` that works on
user page tables. It takes the machine `m` (what pages hold as page tables,
what they hold as memory, the free pages, the process table) and returns the
machine after the call, with the value in `m.ret` and the first panic in
`m.panic`. A `for` loop is `Loop`, which applies an iteration for 0, 1, ... in
turn. A page table has three levels, so the loop of `walk` is `Down` twice, and
the recursion of `freewalk` is `FreeTable` of each level in terms of the one
below; `Vmprint` does the same with `PrintTable`. What a function does after a call that may fail
(`MapIn` after `walk`, `AddPage` after `mappages`, `ExecStack` after the second
`uvmalloc` of exec, ...) is an operator of the machine that the call returned.
`walk` returns the page-table page of level 0: with `PX(0, va)` that
is the pointer to the PTE. The three levels, the page-table pages that are
allocated on the way and stay when `mappages` fails, and the flags are all
there; addresses are page numbers, sizes are in units of which a page has
`PGSIZE`.

`UserVm` has the callers: `allocproc`, `proc_pagetable`, `freeproc` and
`userinit`, and a step for each system call. One step is a whole call, because
what it works on is private: a page table is touched by its own process only
(or by the parent that builds or frees it), and the slot of a new process
cannot be found until it is runnable. What is shared is the free list.
Other harts may empty it, and refill it, at any moment, so each call gets
`left` pages of it, from none to as many as it can use (`Shortages`): every
allocation of every call fails in some behaviour. Which page `kalloc` returns
makes no difference, since it is filled with junk, so any of them is taken.

exec finds a file that is a list of segments; the ways to give a file up are
properties of the file (no ELF magic, a segment that cannot be read, that is
not aligned or has `memsz < filesz`, arguments that do not fit on the stack).
That `vaddr + memsz` may wrap, the registers and the name are left out.
`copyout` stays within one page, as its callers' buffers do here. The hardware
sets `PTE_A` in `Load` and `Store`. `hist` is history: the guard page, the
pages used since `pgaccess` last reported them, those marked in the parent at the
time of the fork (`inherited`), those that a failing `pgaccess` took with it, and
whether the process had the kernel write to `USYSCALL`. `Marked` puts them
together. `Scan` refuses a length below 0 or above `MaskBits` (64 in the code) and
is `ScanPages`, the loop, for the others.

The refinement of `AddressSpaces` reads memory through the page table. `Images`
are the images that exec may produce, computed from the files by themselves
(`LoadedImage`); a call that fails must be a stutter.

### Syscall

`state`, `parent` and `trace_mask` are fields of `proc[]`, `nfree` the length
of the free list, `th[p]` the thread of p. A call enters through `syscall()`
(`Enter`), does its steps, and leaves through `Return`, which prints a line if
the mask has the call; exit does not come back, and the child of a fork
comes to user space without passing `Return`. `kavail` holds `kmem.lock` over
its walk, and nobody allocates or frees in between; `proc_count` looks at one
slot per step. `asked`, `always` and `ever` are history: the mask that a
process or its ancestor has asked for, and the slots that were in use all the
time, or ever, during a count. Memory is a number of pages per process. What
`Proc` models in detail is short here: a fork takes any unused slot, every
thread may run at any time, and `wait` is a guard instead of a sleep. A wait
that is given up because of a kill, the `copyout` of `sysinfo` that may fail
and the system calls that do nothing to these fields are left out.

### Console

`th[t]` is a thread in printf: where it is, the local copy of `locking`, and
the characters that are still to come; `in` says who has called. `Consputc` puts
one character on the console, or never happens once `panicked` is set, because
the uart then hangs. `Output` is the loop over the format, with `Printint` and
`Printptr`; it depends on the arguments only, so it is computed when the loop
begins. `panic` is three printfs one after the other, in a thread that may
hold the lock. `BacktraceFrame` is one turn of the loop of `backtrace`; the
stack is a function from frame pointers to the two words below them, with
the outermost frame at the top of the page and the user's registers in it.
Output of user programs goes through the uart without `pr.lock` and may come
between the characters of a line; it is not modelled.

## 3. Runs

| run | instance | what it shows |
|---|---|---|
| `kalloc` | 3 threads, 2 pages, counts wrap above 3 | all properties of the allocator; implements `FrameRefs` |
| `cow_smp` | 2 processes, 3 frames, 2 pages each, 2 harts, guard page 0, copyout | counts and free list exact, writable pages private, no leak, no panic of `kfree`, `cowalloc` or `cow` about a count |
| `cow_one_hart` | 2 processes, 3 frames, 2 pages, 1 hart, no copyout, two values | implements `AddressSpaces`, no page missing |
| `cow_smp_isolation` | 2 processes, 1 page, 2 harts | violation: a store of one process reaches the copy of another |
| `cow_hole` | 2 processes, 1 hart, copyout | violation: a page missing below `p->sz`, and fork panics |
| `alarm` | 2 slots, intervals 0 and 2 | handlers on time, never early, not re-entered, resume what they interrupted with 0 in `a0`, fire for ever; no alarm passes to the next process in a slot |
| `alarm_stale_guard` | 1 slot, handlers may exit | violation: the next process in the slot never gets its alarm |
| `proc` | 3 slots, 2 harts, no clock, no kill | no lost wakeup in `wait`, no process without a living parent, init reaps the orphans, `wait_lock` is released for ever |
| `proc_live` | 2 slots, 2 harts, `sleep(1)`, a clock that wraps at 2, kill | no lost tick; a killed process dies; its mark goes with it |
| `pagetable` | 2 processes, 26 pages, tables of 4 entries, 7 files, any shortage of pages | every page has one owner, page tables map what they should, no panic, the usyscall page holds the pid, `PTE_A` is where the code should leave it, vmprint shows every mapping; implements `AddressSpaces` |
| `syscall` | 3 slots, 5 pages, 2 masks | traces are inherited and stay with their process; `freemem` exact, `nproc` within bounds; no page lost |
| `console` | 2 threads, 6-bit ints, 3 stacks | lines whole, lock given back, numbers read back, backtrace exact, panics always shown |

A component's type invariant is checked as a part of a larger one where the two
belong together: `CountsInv` is `TypeOK` and `RcExact`; `CowInv` is `TypeOK`, `RcExact` and `FreelistExact`; `AlarmInv`
is `TypeOK` and `GuardIsHandler`; `TableInv` is `TypeOK`, `ParentIsAlive` and
`OnlyProcessesKilled`; `MemoryInv` is `TypeOK` and `FramesOwnedOnce`; `PagesInv`
is `TypeOK` and `PagesConserved`; `LockInv` is `TypeOK` and `LockGivenBack`.

**Bounds.** In `kalloc` three threads reach the largest count (`RcMax` = 3
instead of 127: the code only compares counts with 0 and 1 and counts up to the
number of processes), and two pages are fewer than threads, so the list runs
empty. In the Cow runs two pages per process make the loops of `uvmcopy`,
`uvmalloc` and `uvmunmap` fail at the first and at a later page, and three
frames are fewer than two processes need. Two sharers are enough for what
`cow()` distinguishes (a count of one, or more); three sharers are in `kalloc`,
and in the theorems any number. In the alarm runs the intervals are 0, which is due
at the first tick and with handler 0 switches the alarm off, and 2, which is not due at
the first tick (a negative interval takes the branch of 0), and `MaxSpent` bounds how
late the history variable follows a handler that is late. The registers have two
values, so that one that does not come back shows; `a0` has two as well, the results
of calls, and the program of `alarm` computes nothing else in it (`Scratch`). In `proc` three slots
are init, a parent and its child, so that an exit has a child to pass on (a
zombie already, or one that lives on as an orphan) and
somebody to wake, and fork finds the table full; the clock is left out (`SleepFor`
empty: nobody sleeps on `&ticks`, so a tick changes nothing but the hart, which
is `Yield`), and so is kill, which would make the liveness properties of three
slots too much for TLC. `proc_live` has the clock, kills and two slots; ticks wrap at 2, so that a
sleeper sees them wrap. The `wait` of a parent other than init, and the wakeup of
more than one sleeper, are in `proc` only.

In `pagetable` tables have 4 entries instead of 512, so that with three levels
the lower half of the address space is 32 pages and the three pages at its top
and the memory of a process lie in different tables of every level; a process
has up to 8 pages, so it crosses from one table of the last level to the next,
and growing it may take a page-table page first. A page has 2 units: sizes are
multiples of a page or not. 26 pages hold two processes and the image that
exec builds beside the old one, so a shortage is always a chosen one. The two
processes may fork, exec, exit and wait for ever; `MaxUser` bounds the loads,
stores, sbrks and pgaccesses between them at two, enough for an access, its
report and what comes after, in a parent or in the child. pgaccess is called with
lengths of -1, 2 and 3, the mask has 2 bits: the first and the last are refused. init calls exec
once. `UintMod` is 64 units, more than there is memory, so that `sbrk` of a number below `-sz` wraps. In
`syscall` 5 pages and 2 per process let three slots compete for the pages of
two, so a fork fails half way and a slot is used again. In `console` an int has
six bits and an address two nibbles: numbers have one digit and two, and the
smallest int has no positive counterpart.

**Symmetry** is used where the initial states are symmetric too and no
liveness is checked: processes and frames in Cow (any slot is the first
process, any frame anywhere in the free list).

**Deadlock** is checked in `kalloc`, `pagetable`, `syscall`, the alarm runs and the Proc runs. The Cow runs say
`CHECK_DEADLOCK FALSE`: a panic stops the machine, and so does the exit of
every process. So does `console`, where a panic is the end of every thread that
prints.

**Fairness.** `alarm` assumes weak fairness of `TickInUser` for each process: a
process that stays in user mode is interrupted again, because the timer of its
hart is set anew at each interrupt and user mode runs with interrupts on
(`usertrapret` sets `SSTATUS_SPIE`). The program may call sigreturn, once in
each handler, between two of them; nothing is assumed of it or of anybody else.
`AlarmKeepsFiring` is about programs that from some time on do not call sigalarm or fork.

`proc` and `proc_live` assume strong fairness of five things. `Run(p)`: a scheduler looks
at every slot in turn (`proc.c:450`), so a process that is runnable again and
again is picked. `KernelStep(p)`: a thread may be preempted again and again
before it makes a step, but a step is shorter than the time between two timer
interrupts, and a thread that spins is not preempted at all; and a spinning
thread gets a lock that is free again and again. The locks are `__sync_lock_test_and_set` loops in xv6, which promise no order,
so this is an assumption about the hardware, and the same one that any spinlock
kernel makes. `Yield` of some process: the timers of the harts fire for ever, and take a hart
from whoever can be interrupted. `CallWait(initproc)`: init waits for ever. `ClockStep`: the clock
interrupts for ever. No process other than init is assumed to make a call.

`console` assumes weak
fairness of each thread inside printf, panic or backtrace (`Go`): it executes
its next instruction unless it waits for the lock. Nothing is assumed about
who gets the lock: `PanicIsSeen` holds because a panic waits for no lock.

## 4. Proofs

Every invariant and action property that a passing run checks is also a theorem,
and so are the refinements of `FrameRefs` by
`Kalloc` and of `AddressSpaces` by `Cow` (the end of this section says what is
left to TLC). Each `...Proofs` module with an induction proves `Spec => []IInv` for an
inductive invariant of its own (`Invariance`, in `UserVmProofs` `MemoryKept`), and
the theorems from it. Each `IInv` was checked with TLC before it was proved, on
the instances named below; the exception is that of `UserVm`, which says that a
labelling of the pages exists, and so has more candidates than TLC can go
through: there the run's invariants, its consequences, were checked.

| module | for every | assuming |
|---|---|---|
| `KallocProofs` | set of pages, set of threads | `ThreadsAssumption`: no more threads than a count counts (NPROC is 64, a count reaches 127) |
| `CowProofs` | number of processes, pages, harts; page-table size; guard pages; copyout | `ProcsAssumption`: no more processes than a count counts; `SizesAssumption`: the pages of the first process exist; `ImagesAssumption`: `Absent` and `NoSpace` are no contents and no images |
| `CowProofs`, presence and isolation | the same | `OutPages = {}`: no system call writes to user memory; for isolation also `NCPU = 1` |
| `AlarmProofs` | number of processes, intervals, programs | `HandlerMay = {}`: a handler neither forks nor exits |
| `ProcProofs` | number of slots and harts, wrap of the clock, sleeping times | `{0, 1} \cap KillPids = {}`: nobody kills pid 0 or init |
| `SyscallProofs` | number of slots, pages, pages per process, masks | |
| `PageTableProofs`, `UserVmProofs` | number of processes and pages, entries per table, page size; programs, arguments, texts; shortages of memory | `MemoryAssumption`: less memory than user addresses; `UserAssumption`: the first process fits in memory, memory is less than a `uint` counts, system calls have arguments of their types |
| `ConsoleProofs` | number of threads, calls, messages, stacks; ints up to 32 bits, addresses of any width | `StacksAssumption`: a frame's saved fp is the next one up, and the outermost one ends the page; `CallsAssumption`: a printf has the arguments that its format asks for |

The modules assume besides that sizes are numbers and positive where the code
divides by them or counts with them. The hypotheses are needed, not convenient. Without them the code does something
else: `cow_hole` is the counterexample to presence with a copyout,
`cow_smp_isolation` to isolation on two harts, `alarm_stale_guard` to `FiresOnTime`
with a handler that exits, and `kill(0)` marks an unused slot (section 5).

**Kalloc.** `IInv` adds to the run's invariants `CallersHold`: a
thread inside a call has a reference to the page of the call, and the child for
which `cowalloc` works has none yet. Without it the argument is circular: the
check before the lock in `kfree` is right only because the caller's own
reference keeps the count positive until the first critical section; the fill
between the two critical sections is harmless only because the count was 1
while the caller had a reference, so nobody else has one, and only somebody
with a reference can make another. `OneStaysOne`, on which `cow()` depends, is
the same argument. The lemmas on sequences (`TailList`, `ConsList`) say what is
on the list after a pop and a push; `SignedCharFits` and `UnsignedCharFits`
(here and in `CowProofs`) say that no conversion loses anything below the bound.

**Cow, counts.** The count of a page is the number of PTEs and locals that refer
to it (`RcExact`), and the pages without any are the free list. That is
preserved only if a thread knows what it is going to give back: `ThreadOK` says,
for each place in `cow`, `uvmcopy`, `uvmunmap`, `uvmalloc` and their callers,
which pages are mapped on each side of the cursor and that a page in hand has one
reference (`OwnOK`). `Extent` carries the same between calls: nothing is mapped
beyond `p->sz`, so that `uvmfree` leaves nothing behind and `freewalk` finds no
leaf. `TargetsDiffer` keeps two threads off one page table. `WritableOne` is
`WritableIsPrivate` in the terms of the code: a writable page has a count of 1.
`SameAddress` says that all who share a page have it at one address; then a page
has at most one reference per process, and so (`RoomForOne`) the count that
fork increments fits in a signed char, which is not obvious from the code
and needs `ProcsAssumption`. TLC: 2 processes, 3 frames, 2 pages, counts to 2
(2,580,000 states), 3 processes, 2 frames, 1 page, counts to 3 (4,260,000).

**Cow, presence and isolation.** `Presence` (`PlaceOK`, `PresentOK`, `ChildOK`,
`ZeroOK`) says on any number of harts that every page below `p->sz` is there, except
one that `cow()` has let go for a process that will get it back or die; that the
child of a fork has its parent's pages up to the cursor; and that the pages
sbrk has added hold zeros. With it `uvmcopy` cannot panic (`PagesArePresent`).
Isolation needs in addition that the page `cow()` has let go is still somebody
else's when it is copied, because then nobody may write to it and the allocator
will not fill it: `OldPageKept`, which holds when nobody else runs between the
test of the count and the copy (`KeepsHart`, `NCPU = 1`), and is what fails on two
harts. Then each step of the code maps to a step of `AddressSpaces` or to none
(`IsolatedStep`, one lemma per action): a store through a shared page is invisible
until it is a `Store` of its own process, the whole of fork is invisible until the
last step, `Fork`, and sbrk gives up its pages all at once before it unmaps them.
TLC: `Presence` on one hart 29,651 states, on two with a guard page 182,459.

**Alarm.** The guard is 1 exactly in the handler (`GuardExact`, also in a slot that
is not in use, since `freeproc` leaves the guard as it is), the saved registers
are those that the tick interrupted (`HandlerFrame`), and outside the handler the
code's count is the user time, which is not yet due (`CountExact`).
`FreeSlots` closes the induction. `NeverEarly` and `ResumesRegisters` are action
properties from the same invariant. TLC: 2 processes, intervals 0 to 3
with two values of every register (2,143,296 states).

**Proc.** That `ZombieIsSeen` holds is the protocol of `wait_lock`. `SelfOK` says which
lock and state a thread has at each place, `ForkOK` that the slot it fills is
its own (`ChildrenDiffer`), and `FamilyOK` what the loops have established so far:
`wait` has seen no zombie below its cursor, and none at all when it goes to sleep;
`exit` has no children left once it has reparented them; and the `wakeup` of its
parent has passed no sleeping parent. `ClockOK` and `TickIsSeen` are the same for
`tickslock`, where time is a number that wraps, so that `ticks - ticks0` is
right only modulo the wrap. The table has `InitLives` and `SlotOK` (pids and
parents). The pids are arithmetic: a new one differs from every other, and from that
of a kill on its way, because it is congruent to its slot (`SmallMultiple`).
TLC: 2 slots with clock and kill
(13,096 states), 3 slots with kill, without the clock (1,658,008).

**Syscall.** `PagesConserved` is a sum over the slots; it is proved as the
cardinality of the pairs of a slot and a page that it holds (`Held`), to which a
step adds or takes away one. `MaskKept`, `ForkOK` and `ChildrenDiffer` are
what `TracedAsAsked` needs: the mask comes to the child before it can run, and a
slot that is used again is not half way through another fork. `LockHeld` makes the
walk of `kavail` exact; `WatchOK` counts, during the walk of `proc_count`, the slots
below the cursor that were in use all the time and those that were ever. TLC: 3 slots
(38,425 states).

**Console.** `LockOK` says of a thread that has not panicked that it has `pr.lock`
exactly inside a printf that took it, by its own copy of `locking`; it is what
makes `LockGivenBack` true although `panic` clears `pr.locking` at any moment.
`LineOK`, that only the holder adds to the line, gives `LinesWhole` until then.
`FoundOK` says that backtrace has printed the return addresses of the frames below the one it
stands
at, in order; that it ends is because a frame's saved fp is above it. TLC: 367,005 states.

`NumbersReadBack` needs in addition that the number in a call is of its
type (`Numbers`), and a proof about the loop of `printint`: the digits of x are
those of `x / base` and one more (`InBaseReads`), an int has at most 11 of them
(`InBaseFits`), so `buf` is never too small, and the nibbles of `printptr` are the
digits too (`PrintptrReads`). The inductions are over the set of the numbers that
have a property (`SetInduction`, `StrongInduction`), because the library's
theorems with an operator parameter cannot be used; the powers of two that bound
ints and addresses are the numbers of subsets of a set (`PowerIs`, `Doubled`),
since the provers know no exponents.

**PageTable.** A label `o[f]` says what each page is: free; the root of a process; the
table of level 1 or 0, or the user page, that entry `i` of the table `t` refers
to; or a page that the kernel alone refers to (`Places`). `Own` says that page tables
and labels agree in both directions (`EntryOK`, `PlaceOK`) and that what is
labelled free is the free list, so each page has one owner by construction of the label, and
the induction shows that every operation can relabel the pages it touches. There is a lemma
for each function of `vm.c`: `walk` keeps all mappings and adds at most tables
that it labels, even when it fails; `mappages`, `uvmalloc`, `uvmcopy` add what they
say or return an error with the pages back in the free list; `uvmunmap` and `uvmdealloc`
give back exactly the pages of the range; `freewalk` is given a table without leaves and
ends with every table free. The `for` loops are inductions on the number of turns.
`Keep`, `Space` and `Touch` are the frame conditions: which pages and which page
tables a call leaves alone.

**UserVm.** `Mem` is the invariant: `Own`; every page labelled as a process's is in
the fields of a slot (`Accounted`); and each slot is unused, with its fields
cleared, or has a trapframe, a usyscall page with its pid and a page table that maps
each address as `Image_` says: the pages below `p->sz`, the guard page without
`PTE_U`, the three at the top, nothing in between, and `PTE_A` on those used. In a
call the same is said of the half-built process (`Loading`, `Execing`, ...), so each of the error
paths of fork, exec, sbrk and allocproc, at each turn of each loop, is shown to give back
all it took. From `Mem` follow `BooksInOrder`: the references to a page, summed over
page tables and slots, are one exactly for the pages with a label other than free;
`PanicFree`: no `remap`, no `not a leaf`, no double free; `Tables`,
`UsyscallPids` and `Accesses`. `MappingsAreShown` adds the output of vmprint: each turn of its loop
turns lines that show the first entries of a table (`Shows`: the leaves in the order
of addresses, each below the lines of the tables it is in) into lines that show one more
(`AddedShows`), with the lines of the table below in between; after three levels the
leaves shown are those that `walk` finds.

**Only model-checked.** The liveness properties (`AlarmKeepsFiring`,
`KilledDies`, `OrphanIsReaped`, `WaitLockIsReleased`, `PanicIsSeen`): TLAPS has no proofs under
fairness. `UserVm`'s refinement of `AddressSpaces`: the lemmas say who owns a page and how it is
mapped, but not what is in it, other than the usyscall page.

## 5. Findings

1. `cow()` releases the old page before it copies it
   (`lab5-cow/kernel/vm.c:489-494`). On two harts the other sharer can take the
   page back for itself, or free it, in between; the copy then has stores, or
   junk, that the process never made. On one hart the fault handler is not
   interrupted, and `cow_one_hart` shows that isolation holds.
2. If `kalloc` fails in a `cow()` called by `copyout`, the page is lost and the
   process lives on (`vm.c:489-492`); its next fork panics with "uvmcopy: page
   not present".
3. `alarm_guard` survives the process (`lab4-traps/kernel/proc.c:143-144`).

Remarks that are not runs:

* `sigreturn` does not restore `a0`: `sys_sigreturn` copies it back with the
  other registers (`lab4-traps/kernel/sysproc.c:112-115`), then `syscall()` stores
  its result, 0, over it (`syscall.c:144`). `lab4-traps/NOTE.md:347` says that the
  registers are what has to be restored. A program that is interrupted between
  setting `a0` and using it goes on with 0. `ResumesRegisters` states just this.
* `wait` takes the first zombie of the table. While children of init are born
  and die in lower slots again and again, an orphan in a higher slot need not be
  reaped; `OrphanIsReaped` says that nothing else keeps it.
* `kill(0)` finds an unused slot, because freeproc leaves pid 0 there, marks it
  and returns 0 (`lab4-traps/kernel/proc.c:587`). allocproc does not reset
  `killed`, so the next child in that slot dies at its first trap. The runs
  therefore have no kill of pid 0 (`KillPids`), and the theorems assume none.
* The page at `USYSCALL` is read-only for the program, as
  `lab3-pgtbl/NOTE.md:3` asks, but `copyout` does not look at `PTE_W`: a
  system call that is given it as a buffer overwrites the pid, and `ugetpid`
  is wrong from then on. `UsyscallHoldsPid` leaves such processes out.
* A `pgaccess` that fails, at a page out of reach or in its last `copyout`, has
  cleared `PTE_A` of the pages it has seen: these accesses are never reported.
  A child is born with the `PTE_A` of its parent, because `uvmcopy` copies all
  flags. `AccessExact` makes exactly these two exceptions, `lost` and `inherited`.
* `sbrk` of a number below `-sz` wraps in the `uint` of `growproc`; the sum is
  larger than `sz`, `uvmdealloc` leaves the memory as it is, and sbrk returns
  the old size as if it had shrunk the process.
* The two numbers of `sysinfo` are not of one moment, and `nproc` may be a
  number that was never true: a process that is counted may be gone when
  another is created that is counted too. `NprocBounded` is what remains.
* A call to exit never prints a trace line, and a fork prints one in the parent
  only.
* A hart that waits for `pr.lock` while its holder panics waits for ever, with
  interrupts off. Two harts that panic at the same time may mix their messages,
  and only one of them is sure to be complete (`PanicIsSeen`).
* `pingpong` does not look at what `fork` returns: after a failure the parent's
  branch writes its byte, closes the write end of ping and waits for a pong
  that has no writer, so it reads end of file and prints "received pong".
* The last test of `cow()` (`vm.c:500-503`) has no effect: it sets `PTE_W` in the
  PTE that has it already, while `lab5-cow/NOTE.md:136` means the PTE of the last
  sharer. That sharer takes `PTE_W` back at its own next fault.
* The interval of an alarm is user time: ticks that find the process in the
  kernel are not counted.
* A child forked in a handler has its parent's handler frame and none of its
  saved registers (`proc.c:295`): its `sigreturn` restores whatever the slot was
  last left with. No document says what should happen.
* `wait` reads `p->killed` (`proc.c:422`) without `p->lock`. A kill between this
  test and the sleep finds the process RUNNING and wakes nobody; the killed
  process then sleeps until a child of it exits, which may be never.
  `KilledDies` therefore says nothing of a process in `wait`.

## 6. Plan

Done: every model, and the proofs of section 4. What is left to prove is that
`UserVm` implements `AddressSpaces` for any number of pages, which needs the contents of
pages in `Keep` and `Touch`: a call changes the data of no page that is labelled with
another process.

**Not modelled**, and why: the kernel's own page table (`kvmmake`, `kvmmap`,
`proc_mapstacks`), built once by one hart before anything else runs; `copyin`
and `copyinstr`, which read user memory and change nothing but a kernel
buffer; `procdump` and `either_copyin/out`, output and dispatch; `sleep.c`,
without state, and `pingpong.c`, whose two processes and pipes have one order;
the file system, drivers, pipes, spinlocks and assembly, which are not in the
repository; stubs, declarations and register access.
