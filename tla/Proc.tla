--------------------------------- MODULE Proc ---------------------------------
(***************************************************************************)
(* Processes of lab4-traps/kernel/proc.c: fork, exit, wait, sleep, wakeup, *)
(* kill and the scheduler, with sys_sleep and the clock interrupt, on any  *)
(* number of harts.                                                        *)
(*                                                                         *)
(* wait_lock and tickslock are variables: the code holds them over many    *)
(* steps.  The lock of a slot is held for one step, in which nobody else   *)
(* looks at the slot, but for fork(), which keeps the lock of the child    *)
(* from allocproc until the child is built.  A thread that holds a lock    *)
(* has interrupts off and keeps its hart.                                  *)
(***************************************************************************)
EXTENDS Integers, FiniteSets

CONSTANTS
  NPROC,      (* slots of the process table                                *)
  NCPU,       (* harts                                                     *)
  Wrap,       (* bound: ticks are counted modulo Wrap (2^32 in the build)  *)
  SleepFor,   (* bound: the arguments of sys_sleep                         *)
  Killers,    (* bound: the slots whose programs call kill                 *)
  KillPids    (* bound: the arguments of kill that are no process's pid    *)

ASSUME SlotsAssumption == NPROC \in Nat \ {0} /\ NCPU \in Nat \ {0}
ASSUME TicksAssumption == Wrap \in Nat \ {0} /\ SleepFor \subseteq 0..(Wrap - 1)

VARIABLES
  state,      (* p->state                                                  *)
  chan,       (* p->chan                                                   *)
  killed,     (* p->killed                                                 *)
  parent,     (* p->parent                                                 *)
  pid,        (* p->pid                                                    *)
  th,         (* where the kernel thread of p is, and its local variables  *)
  wait_lock,  (* the process that holds it                                 *)
  tickslock,  (* the process, or the clock interrupt, that holds it        *)
  ticks,      (* ticks since boot                                          *)
  clk         (* the clock interrupt                                       *)

table == <<state, chan, killed, parent, pid>>
locks == <<wait_lock, tickslock>>
clock == <<ticks, clk>>
vars == <<table, th, locks, clock>>

Procs == 0..(NPROC - 1)
initproc == 0
None == -1        (* no process, a free lock, no channel                  *)
Ticks == NPROC    (* &ticks as a channel, and the clock as a lock holder  *)

(* Pids for each slot: one more than there are kills in progress.          *)
Pids == 1..(NPROC * NPROC)

(* i and j are cursors in the table; arg is the child in fork, the pid in  *)
(* kill, the argument of sys_sleep; t0 is ticks0 of sys_sleep; spin is     *)
(* set in the loop of acquire().                                           *)
Thread(pc, arg) ==
  [pc |-> pc, i |-> 0, j |-> 0, arg |-> arg, t0 |-> 0, spin |-> FALSE]
User == Thread("user", 0)

GoTo(p, pc, arg) == th' = [th EXCEPT ![p] = Thread(pc, arg)]
Return(p) == GoTo(p, "user", 0)
At(p, pc) == th[p].pc = pc

Children(p) == {c \in Procs : parent[c] = p}

-----------------------------------------------------------------------------
(* userinit() has made the first process.                                  *)
Init ==
  /\ state = [p \in Procs |-> IF p = initproc THEN "RUNNABLE" ELSE "UNUSED"]
  /\ chan = [p \in Procs |-> None]
  /\ killed = [p \in Procs |-> FALSE]
  /\ parent = [p \in Procs |-> None]
  /\ pid = [p \in Procs |-> IF p = initproc THEN 1 ELSE 0]
  /\ th = [p \in Procs |-> User]
  /\ wait_lock = None /\ tickslock = None
  /\ ticks = 0
  /\ clk = [on |-> FALSE, over |-> None, j |-> 0]

-----------------------------------------------------------------------------
(* Locks and harts.                                                        *)

(* Where fork() holds the lock of the child.                               *)
ForkHolds == {"forking"}

Locked(q) == \E p \in Procs : th[p].pc \in ForkHolds /\ th[p].arg = q

(* Interrupts are on: no lock is held, and none is waited for.             *)
Interruptible(p) ==
  /\ p \notin {wait_lock, tickslock}
  /\ th[p].pc \notin ForkHolds
  /\ ~th[p].spin

Running == {p \in Procs : state[p] = "RUNNING"}
OnHart(p) == p \in Running /\ clk.over # p

(* A hart that runs its scheduler: no process, and no clock interrupt.     *)
IdleHart ==
  Cardinality(Running) + (IF clk.on /\ clk.over = None THEN 1 ELSE 0) < NCPU

(* scheduler(), and the end of sched() in the process that is resumed.     *)
Run(p) ==
  /\ IdleHart
  /\ state[p] = "RUNNABLE" /\ ~Locked(p)
  /\ state' = [state EXCEPT ![p] = "RUNNING"]
  /\ chan' = [chan EXCEPT ![p] = None]
  /\ UNCHANGED <<killed, parent, pid, th, locks, clock>>

(* yield() in a timer interrupt of a hart that does not keep the time.     *)
Yield(p) ==
  /\ OnHart(p) /\ Interruptible(p)
  /\ state' = [state EXCEPT ![p] = "RUNNABLE"]
  /\ UNCHANGED <<chan, killed, parent, pid, th, locks, clock>>

(* sleep(c, lk) from the moment it has p->lock; lk is released with it.    *)
Sleep(p, c) ==
  /\ state' = [state EXCEPT ![p] = "SLEEPING"]
  /\ chan' = [chan EXCEPT ![p] = c]
  /\ UNCHANGED <<killed, parent, pid>>

(* One slot of wakeup(c), called by me.                                    *)
WakeSlot(q, c, me) ==
  /\ q # me => ~Locked(q)
  /\ state' = [state EXCEPT ![q] =
                 IF q # me /\ @ = "SLEEPING" /\ chan[q] = c THEN "RUNNABLE" ELSE @]
  /\ UNCHANGED <<chan, killed, parent, pid>>

(* Wrong: the pid of a free slot is -1.                                    *)
FreeprocPidMinusOne(q) ==
  /\ state' = [state EXCEPT ![q] = "UNUSED"]
  /\ chan' = [chan EXCEPT ![q] = None]
  /\ killed' = [killed EXCEPT ![q] = FALSE]
  /\ parent' = [parent EXCEPT ![q] = None]
  /\ pid' = [pid EXCEPT ![q] = -1]

(* Wrong: the mark of a killed process stays with its slot.                *)
FreeprocKeepsKilled(q) ==
  /\ state' = [state EXCEPT ![q] = "UNUSED"]
  /\ chan' = [chan EXCEPT ![q] = None]
  /\ parent' = [parent EXCEPT ![q] = None]
  /\ pid' = [pid EXCEPT ![q] = 0]
  /\ UNCHANGED killed

(* freeproc(q)                                                             *)
Freeproc(q) ==
  /\ state' = [state EXCEPT ![q] = "UNUSED"]
  /\ chan' = [chan EXCEPT ![q] = None]
  /\ killed' = [killed EXCEPT ![q] = FALSE]
  /\ parent' = [parent EXCEPT ![q] = None]
  /\ pid' = [pid EXCEPT ![q] = 0]

(* A thread without a lock finds the one it needs next taken: acquire()    *)
(* turns interrupts off and spins.                                         *)
TakenLock(p) ==
  \/ th[p].pc \in {"fork_parent", "exit", "wait"} /\ wait_lock # None
  \/ th[p].pc \in {"sleep", "sleep_again"} /\ tickslock # None
  \/ th[p].pc \in {"alloc", "kill"} /\ th[p].i < NPROC /\ Locked(th[p].i)

Spin(p) ==
  /\ ~th[p].spin /\ TakenLock(p)
  /\ th' = [th EXCEPT ![p].spin = TRUE]
  /\ UNCHANGED <<table, locks, clock>>

-----------------------------------------------------------------------------
(* System calls begin in user mode, in a process that is not killed; a     *)
(* killed one exits at the next trap instead.  init is a program that      *)
(* waits for ever: it never calls exit or sleep, and nobody kills it (a    *)
(* dead init would stop the machine).                                      *)

InUser(p) == OnHart(p) /\ At(p, "user")

Syscall(p, pc, arg) ==
  /\ InUser(p) /\ ~killed[p]
  /\ GoTo(p, pc, arg)
  /\ UNCHANGED <<table, locks, clock>>

CallFork(p) == Syscall(p, "alloc", 0)
CallWait(p) == Syscall(p, "wait", 0)
CallExit(p) == p # initproc /\ Syscall(p, "exit", 0)
CallSleep(p, n) == p # initproc /\ Syscall(p, "sleep", n)
CallKill(p, n) == p \in Killers /\ Syscall(p, "kill", n)

(* Wrong: usertrap() returns to user space without a look at killed.       *)
TrapKilledIgnored(p) ==
  /\ InUser(p) /\ killed[p]
  /\ UNCHANGED vars

TrapKilled(p) ==
  /\ InUser(p) /\ killed[p]
  /\ GoTo(p, "exit", 0)
  /\ UNCHANGED <<table, locks, clock>>

-----------------------------------------------------------------------------
(* fork().  A pid is never used again; here it is one that is neither in   *)
(* the table nor the argument of a kill that is going on.                  *)

FreshPid(s) ==
  LET going == {th[q].arg : q \in {r \in Procs : At(r, "kill")}}
      fresh == {n \in Pids \ going : n % NPROC = (s + 1) % NPROC}
  IN  CHOOSE n \in fresh : \A m \in fresh : n <= m

Slot(p) == th[p].i
NextSlot(p) == th' = [th EXCEPT ![p].i = @ + 1, ![p].spin = FALSE]

AllocprocSkip(p) ==
  /\ At(p, "alloc") /\ Slot(p) < NPROC
  /\ state[Slot(p)] # "UNUSED" /\ ~Locked(Slot(p))
  /\ NextSlot(p)
  /\ UNCHANGED <<table, locks, clock>>

Allocproc(p) ==
  /\ At(p, "alloc") /\ Slot(p) < NPROC
  /\ state[Slot(p)] = "UNUSED"
  /\ state' = [state EXCEPT ![Slot(p)] = "USED"]
  /\ pid' = [pid EXCEPT ![Slot(p)] = FreshPid(Slot(p))]
  /\ GoTo(p, "forking", Slot(p))
  /\ UNCHANGED <<chan, killed, parent, locks, clock>>

NoSlot(p) ==
  /\ At(p, "alloc") /\ Slot(p) = NPROC
  /\ Return(p)
  /\ UNCHANGED <<table, locks, clock>>

(* No memory, in allocproc or in uvmcopy.                                  *)
ForkFails(p) ==
  /\ At(p, "forking")
  /\ Freeproc(th[p].arg)
  /\ Return(p)
  /\ UNCHANGED <<locks, clock>>

ForkBuilt(p) ==
  /\ At(p, "forking")
  /\ GoTo(p, "fork_parent", th[p].arg)
  /\ UNCHANGED <<table, locks, clock>>

ForkParent(p) ==
  /\ At(p, "fork_parent")
  /\ wait_lock = None
  /\ parent' = [parent EXCEPT ![th[p].arg] = p]
  /\ GoTo(p, "fork_run", th[p].arg)
  /\ UNCHANGED <<state, chan, killed, pid, locks, clock>>

ForkRun(p) ==
  /\ At(p, "fork_run")
  /\ state' = [state EXCEPT ![th[p].arg] = "RUNNABLE"]
  /\ Return(p)
  /\ UNCHANGED <<chan, killed, parent, pid, locks, clock>>

ForkStep(p) ==
  \/ AllocprocSkip(p)
  \/ Allocproc(p)
  \/ NoSlot(p)
  \/ ForkFails(p)
  \/ ForkBuilt(p)
  \/ ForkParent(p)
  \/ ForkRun(p)

-----------------------------------------------------------------------------
(* exit(): under wait_lock the children go to init, which is woken for     *)
(* each of them; then the parent is woken, and p becomes a zombie.         *)

ExitLock(p) ==
  /\ At(p, "exit")
  /\ wait_lock = None
  /\ wait_lock' = p
  /\ GoTo(p, "reparent", 0)
  /\ UNCHANGED <<table, tickslock, clock>>

(* Wrong: a child that is a zombie already stays with its dead parent.     *)
ReparentLiving(p) ==
  /\ At(p, "reparent")
  /\ \E c \in Children(p) :
       /\ \A d \in Children(p) : c <= d
       /\ parent' = [parent EXCEPT ![c] = IF state[c] = "ZOMBIE" THEN None ELSE initproc]
  /\ GoTo(p, "wake_init", 0)
  /\ UNCHANGED <<state, chan, killed, pid, locks, clock>>

(* Wrong: init is not told of the child.                                   *)
ReparentSilently(p) ==
  /\ At(p, "reparent")
  /\ \E c \in Children(p) :
       /\ \A d \in Children(p) : c <= d
       /\ parent' = [parent EXCEPT ![c] = initproc]
  /\ GoTo(p, "reparent", 0)
  /\ UNCHANGED <<state, chan, killed, pid, locks, clock>>

Reparent(p) ==
  /\ At(p, "reparent")
  /\ \E c \in Children(p) :
       /\ \A d \in Children(p) : c <= d
       /\ parent' = [parent EXCEPT ![c] = initproc]
  /\ GoTo(p, "wake_init", 0)
  /\ UNCHANGED <<state, chan, killed, pid, locks, clock>>

ReparentDone(p) ==
  /\ At(p, "reparent") /\ Children(p) = {}
  /\ GoTo(p, "wake_parent", 0)
  /\ UNCHANGED <<table, locks, clock>>

ExitWakes(p) ==
  /\ \/ At(p, "wake_init") /\ WakeSlot(th[p].j, initproc, p)
     \/ At(p, "wake_parent") /\ WakeSlot(th[p].j, parent[p], p)
  /\ th' = [th EXCEPT ![p].j = @ + 1, ![p].pc =
              CASE @ = "wake_init" /\ th[p].j = NPROC - 1 -> "reparent"
                [] @ = "wake_parent" /\ th[p].j = NPROC - 1 -> "zombie"
                [] OTHER -> @]
  /\ UNCHANGED <<locks, clock>>

ExitDone(p) ==
  /\ At(p, "zombie")
  /\ state' = [state EXCEPT ![p] = "ZOMBIE"]
  /\ wait_lock' = None
  /\ Return(p)
  /\ UNCHANGED <<chan, killed, parent, pid, tickslock, clock>>

ExitStep(p) ==
  \/ ExitLock(p)
  \/ Reparent(p)
  \/ ReparentDone(p)
  \/ ExitWakes(p)
  \/ ExitDone(p)

-----------------------------------------------------------------------------
(* wait(): the scan of the table, and the sleep on p under wait_lock.      *)

WaitLock(p) ==
  /\ At(p, "wait")
  /\ wait_lock = None
  /\ wait_lock' = p
  /\ GoTo(p, "wait_scan", 0)
  /\ UNCHANGED <<table, tickslock, clock>>

(* The next child of the scan.                                             *)
Ahead(p) == {c \in Children(p) : c >= Slot(p)}
Scanned(p, c) == c \in Ahead(p) /\ (\A d \in Ahead(p) : c <= d) /\ ~Locked(c)

WaitSkip(p) ==
  /\ At(p, "wait_scan")
  /\ \E c \in Procs :
       /\ Scanned(p, c) /\ state[c] # "ZOMBIE"
       /\ th' = [th EXCEPT ![p].i = c + 1]
  /\ UNCHANGED <<table, locks, clock>>

WaitReap(p) ==
  /\ At(p, "wait_scan")
  /\ \E c \in Procs : Scanned(p, c) /\ state[c] = "ZOMBIE" /\ Freeproc(c)
  /\ wait_lock' = None
  /\ Return(p)
  /\ UNCHANGED <<tickslock, clock>>

(* copyout of the exit status fails; init asks for no status.              *)
WaitBadAddress(p) ==
  /\ At(p, "wait_scan") /\ p # initproc
  /\ \E c \in Procs : Scanned(p, c) /\ state[c] = "ZOMBIE"
  /\ wait_lock' = None
  /\ Return(p)
  /\ UNCHANGED <<table, tickslock, clock>>

WaitFails(p) ==
  /\ At(p, "wait_scan") /\ Ahead(p) = {}
  /\ Children(p) = {} \/ killed[p]
  /\ wait_lock' = None
  /\ Return(p)
  /\ UNCHANGED <<table, tickslock, clock>>

(* Wrong: wait() looks again, and again, instead of going to sleep.        *)
WaitLooksAgain(p) ==
  /\ At(p, "wait_scan") /\ Ahead(p) = {}
  /\ Children(p) # {} /\ ~killed[p]
  /\ GoTo(p, "wait_scan", 0)
  /\ UNCHANGED <<table, locks, clock>>

(* The tests are done, and sleep() has not yet taken p->lock.              *)
WaitDecides(p) ==
  /\ At(p, "wait_scan") /\ Ahead(p) = {}
  /\ Children(p) # {} /\ ~killed[p]
  /\ GoTo(p, "wait_sleep", 0)
  /\ UNCHANGED <<table, locks, clock>>

WaitSleep(p) ==
  /\ At(p, "wait_sleep")
  /\ Sleep(p, p)
  /\ wait_lock' = None
  /\ GoTo(p, "wait", 0)
  /\ UNCHANGED <<tickslock, clock>>

WaitStep(p) ==
  \/ WaitLock(p)
  \/ WaitSkip(p)
  \/ WaitReap(p)
  \/ WaitBadAddress(p)
  \/ WaitFails(p)
  \/ WaitDecides(p)
  \/ WaitSleep(p)

-----------------------------------------------------------------------------
(* sys_sleep(n): the test and the sleep on &ticks under tickslock.         *)

Elapsed(t0) == (ticks - t0) % Wrap

(* Wrong: tickslock is not held between the test and the sleep.            *)
SleepTestUnlocked(p, t0) ==
  /\ tickslock = None
  /\ IF Elapsed(t0) < th[p].arg /\ ~killed[p]
     THEN th' = [th EXCEPT ![p].pc = "ticks_sleep", ![p].t0 = t0,
                                   ![p].spin = FALSE]
     ELSE Return(p)
  /\ UNCHANGED <<table, locks, clock>>

SleepTest(p, t0) ==
  /\ tickslock = None
  /\ IF Elapsed(t0) < th[p].arg /\ ~killed[p]
     THEN th' = [th EXCEPT ![p].pc = "ticks_sleep", ![p].t0 = t0,
                                   ![p].spin = FALSE]
          /\ tickslock' = p
     ELSE Return(p) /\ UNCHANGED tickslock
  /\ UNCHANGED <<table, wait_lock, clock>>

TicksSleep(p) ==
  /\ At(p, "ticks_sleep")
  /\ Sleep(p, Ticks)
  /\ tickslock' = None
  /\ th' = [th EXCEPT ![p].pc = "sleep_again"]
  /\ UNCHANGED <<wait_lock, clock>>

SleepStep(p) ==
  \/ At(p, "sleep") /\ SleepTest(p, ticks)
  \/ At(p, "sleep_again") /\ SleepTest(p, th[p].t0)
  \/ TicksSleep(p)

-----------------------------------------------------------------------------
(* kill(n): the pid of an unused slot is 0.                                *)

KillSkip(p) ==
  /\ At(p, "kill") /\ Slot(p) < NPROC
  /\ pid[Slot(p)] # th[p].arg /\ ~Locked(Slot(p))
  /\ NextSlot(p)
  /\ UNCHANGED <<table, locks, clock>>

Kill(p) ==
  /\ At(p, "kill") /\ Slot(p) < NPROC
  /\ pid[Slot(p)] = th[p].arg /\ ~Locked(Slot(p))
  /\ killed' = [killed EXCEPT ![Slot(p)] = TRUE]
  /\ state' = [state EXCEPT ![Slot(p)] = IF @ = "SLEEPING" THEN "RUNNABLE" ELSE @]
  /\ Return(p)
  /\ UNCHANGED <<chan, parent, pid, locks, clock>>

KillNobody(p) ==
  /\ At(p, "kill") /\ Slot(p) = NPROC
  /\ Return(p)
  /\ UNCHANGED <<table, locks, clock>>

KillStep(p) == KillSkip(p) \/ Kill(p) \/ KillNobody(p)

-----------------------------------------------------------------------------
(* clockintr(), on a hart that runs p or, when p is None, its scheduler;   *)
(* then usertrap or kerneltrap gives up the hart.  (Where nobody calls      *)
(* sys_sleep, time stands still; Yield stands for the interrupt.)          *)

ClockStart(p) ==
  /\ SleepFor # {}
  /\ ~clk.on /\ tickslock = None
  /\ IF p = None THEN IdleHart ELSE OnHart(p) /\ Interruptible(p)
  /\ tickslock' = Ticks
  /\ ticks' = (ticks + 1) % Wrap
  /\ clk' = [on |-> TRUE, over |-> p, j |-> 0]
  /\ UNCHANGED <<table, th, wait_lock>>

ClockWakes ==
  /\ clk.on /\ clk.j < NPROC
  /\ WakeSlot(clk.j, Ticks, clk.over)
  /\ clk' = [clk EXCEPT !.j = @ + 1]
  /\ UNCHANGED <<th, locks, ticks>>

ClockDone ==
  /\ clk.on /\ clk.j = NPROC
  /\ tickslock' = None
  /\ clk' = [on |-> FALSE, over |-> None, j |-> 0]
  /\ state' = [p \in Procs |-> IF p = clk.over THEN "RUNNABLE" ELSE state[p]]
  /\ UNCHANGED <<chan, killed, parent, pid, th, wait_lock, ticks>>

ClockStep == ClockWakes \/ ClockDone \/ \E p \in Procs \cup {None} : ClockStart(p)

-----------------------------------------------------------------------------
CallStep(p) ==
  \/ CallFork(p)
  \/ CallWait(p)
  \/ CallExit(p)
  \/ \E n \in SleepFor : CallSleep(p, n)
  \/ \E n \in KillPids \cup ({pid[q] : q \in Procs \ {initproc}} \ {0}) : CallKill(p, n)

KernelStep(p) ==
  \/ TrapKilled(p)
  \/ OnHart(p) /\ \/ ForkStep(p) \/ ExitStep(p) \/ WaitStep(p)
                  \/ SleepStep(p) \/ KillStep(p) \/ Spin(p)

Next ==
  \/ \E p \in Procs : Run(p) \/ Yield(p) \/ CallStep(p) \/ KernelStep(p)
  \/ ClockStep

Spec == Init /\ [][Next]_vars

(* Every scheduler looks at every slot before it looks at one again; a     *)
(* step in the kernel is shorter than the time between two interrupts, and *)
(* acquire() gets a lock that is free again and again; the timer takes the *)
(* hart from whoever has it, for ever, and so does the clock; and init     *)
(* calls wait() for ever.                                                  *)
Fairness ==
  /\ \A p \in Procs : SF_vars(Run(p)) /\ SF_vars(KernelStep(p))
  /\ SF_vars(\E p \in Procs : Yield(p))
  /\ SF_vars(CallWait(initproc))
  /\ SF_vars(ClockStep)

FairSpec == Spec /\ Fairness
-----------------------------------------------------------------------------
States == {"UNUSED", "USED", "SLEEPING", "RUNNABLE", "RUNNING", "ZOMBIE"}
Pcs == {"user", "alloc", "forking", "fork_parent", "fork_run", "exit", "reparent",
        "wake_init", "wake_parent", "zombie", "wait", "wait_scan", "wait_sleep",
        "sleep", "ticks_sleep", "sleep_again", "kill"}

(* The type of every variable.                                             *)
TypeOK ==
  /\ state \in [Procs -> States]
  /\ chan \in [Procs -> {None, Ticks} \cup Procs]
  /\ killed \in [Procs -> BOOLEAN]
  /\ parent \in [Procs -> {None} \cup Procs]
  /\ pid \in [Procs -> {0} \cup Pids]
  /\ th \in [Procs -> [pc : Pcs, i : 0..NPROC, j : 0..NPROC,
                       arg : Pids \cup Procs \cup SleepFor \cup KillPids,
                       t0 : 0..(Wrap - 1), spin : BOOLEAN]]
  /\ wait_lock \in {None} \cup Procs
  /\ tickslock \in {None, Ticks} \cup Procs
  /\ ticks \in 0..(Wrap - 1)
  /\ clk \in [on : BOOLEAN, over : {None} \cup Procs, j : 0..NPROC]

(* No lost wakeup in wait(): a parent does not sleep there while a child   *)
(* is a zombie, unless the exit that has made init the parent of the child *)
(* is still on its way to waking init.                                     *)
ZombieIsSeen ==
  \A c \in Procs \ {initproc} :
    state[c] = "ZOMBIE" /\ parent[c] # None
      /\ state[parent[c]] = "SLEEPING" /\ chan[parent[c]] = parent[c]
      => \E p \in Procs : /\ wait_lock = p /\ At(p, "wake_init")
                          /\ parent[c] = initproc /\ th[p].j <= initproc

(* No lost wakeup in sys_sleep(): a process does not sleep on &ticks when  *)
(* its time is over, unless the clock interrupt is on its way to waking it *)
TickIsSeen ==
  \A p \in Procs :
    state[p] = "SLEEPING" /\ chan[p] = Ticks /\ Elapsed(th[p].t0) >= th[p].arg
      => clk.on /\ clk.j <= p

(* A process that fork() has finished has a parent that can wait for it:   *)
(* exit() leaves no orphan behind, and no zombie.                          *)
ParentIsAlive ==
  \A c \in Procs \ {initproc} :
    state[c] \notin {"UNUSED", "USED"} =>
      /\ parent[c] # None
      /\ state[parent[c]] \notin {"UNUSED", "USED", "ZOMBIE"}

(* Only a process is killed: a slot without one is not marked for the next *)
(* process that will be in it.                                             *)
OnlyProcessesKilled == \A p \in Procs : state[p] = "UNUSED" => ~killed[p]

(* The process table is in order at every step of fork, exit, wait and      *)
(* kill, whichever of them run at the same time.                            *)
TableInv == TypeOK /\ ParentIsAlive /\ OnlyProcessesKilled

(* A killed process dies, unless it is in wait(): a kill that comes        *)
(* between the test of p->killed there and the sleep is not seen before    *)
(* the next child exits.                                                   *)
InWait(p) == th[p].pc \in {"wait", "wait_scan", "wait_sleep"}
Dead(p) == state[p] \in {"UNUSED", "ZOMBIE"}
KilledDies == \A p \in Procs : killed[p] /\ ~InWait(p) ~> Dead(p)

(* A zombie that no process but init can wait for: an orphan, or a child   *)
(* of init.                                                                *)
LeftToInit(c) ==
  /\ state[c] = "ZOMBIE"
  /\ \A q \in Procs \ {initproc} : parent[c] = q => state[q] \in {"UNUSED", "ZOMBIE"}

Reaped(c) == state[c] = "ZOMBIE" /\ state'[c] = "UNUSED"

(* init reaps the orphans, of whatever parents they were: a zombie that is *)
(* left to init goes away.  Only one that is in a lower slot goes first,   *)
(* wait() takes the first zombie it meets: a zombie may stay as long as    *)
(* children of init in the slots before it keep on being born and dying.   *)
OrphanIsReaped ==
  \A c \in Procs \ {initproc} :
    <>[]LeftToInit(c) => []<><<\E d \in 1..(c - 1) : Reaped(d)>>_vars

(* wait_lock is released again and again: fork, exit and wait take it and  *)
(* the locks of slots in an order in which nobody waits for ever, with     *)
(* interrupts off, for one that waits for him.                             *)
WaitLockIsReleased == []<>(wait_lock = None)
=============================================================================
