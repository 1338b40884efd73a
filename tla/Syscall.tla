------------------------------- MODULE Syscall -------------------------------
(***************************************************************************)
(* The system calls that lab2 adds, among those that they watch: trace and *)
(* sysinfo of lab2-syscall/kernel/sysproc.c, dispatched and printed by     *)
(* syscall.c, while other processes fork, exit and wait.                   *)
(*                                                                         *)
(* A step is one critical section, or the work that nobody else can see.   *)
(* kavail holds kmem.lock while it walks the free list; proc_count holds   *)
(* no lock, so every slot that it looks at is a step.  Proc has the walk of*)
(* allocproc, the locks of the slots, sleep and the scheduler; here a fork *)
(* takes any unused slot, and a thread may run whenever it can.            *)
(***************************************************************************)
EXTENDS Integers, FiniteSets

CONSTANTS
  NPROC,         (* slots of the process table; slot 1 is initproc          *)
  NPages,        (* pages of memory                                         *)
  PagesPerProc,  (* pages a process takes: trapframe, page table and memory *)
  Masks,         (* arguments of trace: sets of calls                       *)
  NoLine         (* the last step has not returned from a system call       *)

ASSUME SizesAssumption ==
  /\ NPROC \in Nat \ {0} /\ PagesPerProc \in Nat \ {0}
  /\ NPages \in Nat /\ NPages >= PagesPerProc

Calls == {"fork", "exit", "wait", "trace", "sysinfo", "unknown"}
ASSUME MasksAssumption == Masks \subseteq SUBSET (Calls \ {"unknown"})

Procs == 1..NPROC
Nobody == 0

VARIABLES
  state, parent, trace_mask,  (* the fields of proc[]                       *)
  pages,     (* pages[p]: how many pages hang from slot p                   *)
  nfree,     (* the length of kmem.freelist                                 *)
  kmem_lock, (* the process that holds kmem.lock over several steps         *)
  th,        (* the kernel thread of each process                           *)
  asked,     (* history: the mask the process or an ancestor has asked for  *)
  always, ever, (* history: the slots in use all the time, or at some time, *)
                (* since p began to count                                   *)
  last       (* the return from a system call in the last step              *)

vars == <<state, parent, trace_mask, pages, nfree, kmem_lock, th, asked,
          always, ever, last>>

(* Locals: num is the system call, np the other slot it works on, i the     *)
(* cursor of proc_count and r that of kavail, as the number of pages ahead. *)
User == [pc |-> "user", num |-> "none", np |-> Nobody, i |-> 1, r |-> 0,
         freemem |-> 0, nproc |-> 0]

InUse == {p \in Procs : state[p] # "UNUSED"}
At(p, pc) == th[p].pc = pc
GoTo(p, pc) == th' = [th EXCEPT ![p].pc = pc]

Init ==
  /\ state = [p \in Procs |-> IF p = 1 THEN "RUNNABLE" ELSE "UNUSED"]
  /\ parent = [p \in Procs |-> Nobody]
  /\ trace_mask = [p \in Procs |-> {}]
  /\ pages = [p \in Procs |-> IF p = 1 THEN PagesPerProc ELSE 0]
  /\ nfree = NPages - PagesPerProc
  /\ kmem_lock = Nobody
  /\ th = [p \in Procs |-> User]
  /\ asked = [p \in Procs |-> {}]
  /\ always = [p \in Procs |-> {}] /\ ever = [p \in Procs |-> {}]
  /\ last = NoLine

(* wait() holds wait_lock while it frees a child.                           *)
WaitLockFree == \A p \in Procs : ~At(p, "wait_free")

-----------------------------------------------------------------------------
(* syscall(): num in a7, a line for a traced call on the way out.           *)

Entry == [fork |-> "fork", exit |-> "exit", wait |-> "wait", trace |-> "trace",
          sysinfo |-> "kavail", unknown |-> "ret"]

Enter(p, num) ==
  /\ At(p, "user") /\ state[p] = "RUNNABLE"
  /\ p = 1 => num # "exit"
  /\ th' = [th EXCEPT ![p].pc = Entry[num], ![p].num = num]
  /\ UNCHANGED <<state, parent, trace_mask, pages, nfree, kmem_lock, asked>>

Printed(p) == th[p].num \in trace_mask[p]

Return(p) ==
  /\ At(p, "ret")
  /\ last' = [who |-> p, num |-> th[p].num, line |-> Printed(p)]
  /\ th' = [th EXCEPT ![p] = User]
  /\ UNCHANGED <<state, parent, trace_mask, pages, nfree, kmem_lock, asked>>

SysTrace(p) ==
  /\ At(p, "trace")
  /\ \E mask \in Masks :
       /\ trace_mask' = [trace_mask EXCEPT ![p] = mask]
       /\ asked' = [asked EXCEPT ![p] = mask]
  /\ GoTo(p, "ret")
  /\ UNCHANGED <<state, parent, pages, nfree, kmem_lock>>
-----------------------------------------------------------------------------
(* kalloc.c                                                                 *)

(* Wrong: kalloc takes a page from an empty list.                           *)
KallocUnchecked(np) ==
  /\ kmem_lock = Nobody
  /\ nfree' = nfree - 1
  /\ pages' = [pages EXCEPT ![np] = @ + 1]
  /\ UNCHANGED <<state, parent, trace_mask, kmem_lock, th, asked>>

Kalloc(np) ==
  /\ kmem_lock = Nobody /\ nfree > 0
  /\ nfree' = nfree - 1
  /\ pages' = [pages EXCEPT ![np] = @ + 1]
  /\ UNCHANGED <<state, parent, trace_mask, kmem_lock, th, asked>>

Kfree(np) ==
  /\ kmem_lock = Nobody /\ pages[np] > 0
  /\ nfree' = nfree + 1
  /\ pages' = [pages EXCEPT ![np] = @ - 1]
  /\ UNCHANGED <<state, parent, trace_mask, kmem_lock, th, asked>>

(* Wrong: the free list is walked without the lock.                         *)
KavailStartUnlocked(p) ==
  /\ At(p, "kavail") /\ kmem_lock = Nobody
  /\ th' = [th EXCEPT ![p].pc = "kavail_walk", ![p].r = nfree]
  /\ UNCHANGED <<state, parent, trace_mask, pages, nfree, kmem_lock, asked>>

KavailStart(p) ==
  /\ At(p, "kavail") /\ kmem_lock = Nobody
  /\ kmem_lock' = p
  /\ th' = [th EXCEPT ![p].pc = "kavail_walk", ![p].r = nfree]
  /\ UNCHANGED <<state, parent, trace_mask, pages, nfree, asked>>

KavailWalk(p) ==
  /\ At(p, "kavail_walk") /\ th[p].r > 0
  /\ th' = [th EXCEPT ![p].freemem = @ + 1, ![p].r = @ - 1]
  /\ UNCHANGED <<state, parent, trace_mask, pages, nfree, kmem_lock, asked>>

KavailDone(p) ==
  /\ At(p, "kavail_walk") /\ th[p].r = 0
  /\ kmem_lock' = Nobody
  /\ GoTo(p, "count")
  /\ UNCHANGED <<state, parent, trace_mask, pages, nfree, asked>>
-----------------------------------------------------------------------------
(* proc_count(), and the end of sys_sysinfo.                                *)

(* Wrong: only the processes that can run are counted.                      *)
CountsRunnable(p) == state[p] = "RUNNABLE"

Counts(p) == state[p] # "UNUSED"

Count(p) ==
  /\ At(p, "count") /\ th[p].i <= NPROC
  /\ th' = [th EXCEPT ![p].i = @ + 1,
                      ![p].nproc = IF Counts(th[p].i) THEN @ + 1 ELSE @]
  /\ UNCHANGED <<state, parent, trace_mask, pages, nfree, kmem_lock, asked>>

CountDone(p) ==
  /\ At(p, "count") /\ th[p].i > NPROC
  /\ GoTo(p, "ret")
  /\ UNCHANGED <<state, parent, trace_mask, pages, nfree, kmem_lock, asked>>
-----------------------------------------------------------------------------
(* fork.  From here on the child has the mask its parent asked for.         *)

ForkAlloc(p) ==
  \E np \in Procs :
    /\ At(p, "fork") /\ state[np] = "UNUSED"
    /\ state' = [state EXCEPT ![np] = "USED"]
    /\ asked' = [asked EXCEPT ![np] = asked[p]]
    /\ th' = [th EXCEPT ![p].pc = "fork_pages", ![p].np = np]
    /\ UNCHANGED <<parent, trace_mask, pages, nfree, kmem_lock>>

ForkNoSlot(p) ==
  /\ At(p, "fork") /\ InUse = Procs
  /\ GoTo(p, "ret")
  /\ UNCHANGED <<state, parent, trace_mask, pages, nfree, kmem_lock, asked>>

ForkPage(p) ==
  /\ At(p, "fork_pages") /\ pages[th[p].np] < PagesPerProc
  /\ Kalloc(th[p].np)

ForkNoPage(p) ==
  /\ At(p, "fork_pages") /\ pages[th[p].np] < PagesPerProc
  /\ kmem_lock = Nobody /\ nfree = 0
  /\ GoTo(p, "fork_free")
  /\ UNCHANGED <<state, parent, trace_mask, pages, nfree, kmem_lock, asked>>

(* Wrong: the mask is not copied: the child has that of the last process in *)
(* its slot.                                                                *)
ForkCopyNothing(p) ==
  /\ At(p, "fork_pages") /\ pages[th[p].np] = PagesPerProc
  /\ GoTo(p, "fork_parent")
  /\ UNCHANGED <<state, parent, trace_mask, pages, nfree, kmem_lock, asked>>

ForkCopy(p) ==
  /\ At(p, "fork_pages") /\ pages[th[p].np] = PagesPerProc
  /\ trace_mask' = [trace_mask EXCEPT ![th[p].np] = trace_mask[p]]
  /\ GoTo(p, "fork_parent")
  /\ UNCHANGED <<state, parent, pages, nfree, kmem_lock, asked>>

ForkParent(p) ==
  /\ At(p, "fork_parent") /\ WaitLockFree
  /\ parent' = [parent EXCEPT ![th[p].np] = p]
  /\ GoTo(p, "fork_run")
  /\ UNCHANGED <<state, trace_mask, pages, nfree, kmem_lock, asked>>

ForkRun(p) ==
  /\ At(p, "fork_run")
  /\ state' = [state EXCEPT ![th[p].np] = "RUNNABLE"]
  /\ GoTo(p, "ret")
  /\ UNCHANGED <<parent, trace_mask, pages, nfree, kmem_lock, asked>>
-----------------------------------------------------------------------------
(* exit, wait, and freeproc, which wait and a fork that has failed call.    *)

Exit(p) ==
  /\ At(p, "exit") /\ WaitLockFree
  /\ parent' = [q \in Procs |-> IF parent[q] = p THEN 1 ELSE parent[q]]
  /\ state' = [state EXCEPT ![p] = "ZOMBIE"]
  /\ th' = [th EXCEPT ![p] = User]
  /\ UNCHANGED <<trace_mask, pages, nfree, kmem_lock, asked>>

Wait(p) ==
  \E np \in Procs :
    /\ At(p, "wait") /\ WaitLockFree
    /\ parent[np] = p /\ state[np] = "ZOMBIE"
    /\ th' = [th EXCEPT ![p].pc = "wait_free", ![p].np = np]
    /\ UNCHANGED <<state, parent, trace_mask, pages, nfree, kmem_lock, asked>>

WaitNoChild(p) ==
  /\ At(p, "wait") /\ WaitLockFree
  /\ \A np \in Procs : parent[np] # p
  /\ GoTo(p, "ret")
  /\ UNCHANGED <<state, parent, trace_mask, pages, nfree, kmem_lock, asked>>

FreeprocPage(p) ==
  /\ th[p].pc \in {"fork_free", "wait_free"}
  /\ Kfree(th[p].np)

(* Wrong: the slot is given up before its pages.                            *)
FreeprocDoneEarly(p) ==
  LET np == th[p].np
  IN /\ th[p].pc \in {"fork_free", "wait_free"}
     /\ state' = [state EXCEPT ![np] = "UNUSED"]
     /\ parent' = [parent EXCEPT ![np] = Nobody]
     /\ GoTo(p, "ret")
     /\ UNCHANGED <<trace_mask, pages, nfree, kmem_lock, asked>>

FreeprocDone(p) ==
  LET np == th[p].np
  IN /\ th[p].pc \in {"fork_free", "wait_free"} /\ pages[np] = 0
     /\ state' = [state EXCEPT ![np] = "UNUSED"]
     /\ parent' = [parent EXCEPT ![np] = Nobody]
     /\ GoTo(p, "ret")
     /\ UNCHANGED <<trace_mask, pages, nfree, kmem_lock, asked>>
-----------------------------------------------------------------------------
Handler(p) ==
  \/ \E num \in Calls : Enter(p, num)
  \/ SysTrace(p)
  \/ KavailStart(p) \/ KavailWalk(p) \/ KavailDone(p)
  \/ Count(p) \/ CountDone(p)
  \/ ForkAlloc(p) \/ ForkNoSlot(p) \/ ForkPage(p) \/ ForkNoPage(p)
  \/ ForkCopy(p) \/ ForkParent(p) \/ ForkRun(p)
  \/ Exit(p)
  \/ Wait(p) \/ WaitNoChild(p)
  \/ FreeprocPage(p) \/ FreeprocDone(p)

(* What the counting threads could have seen.                               *)
Watch(p, set, both) ==
  IF th'[p].pc # "count" THEN {} ELSE IF At(p, "count") THEN both ELSE InUse'

Next ==
  \E p \in Procs :
    /\ \/ Handler(p) /\ last' = NoLine
       \/ Return(p)
    /\ always' = [q \in Procs |-> Watch(q, always[q], always[q] \cap InUse')]
    /\ ever' = [q \in Procs |-> Watch(q, ever[q], ever[q] \cup InUse')]

Spec == Init /\ [][Next]_vars
-----------------------------------------------------------------------------
Pcs == {"user", "ret", "trace", "kavail", "kavail_walk", "count", "fork",
        "fork_pages", "fork_free", "fork_parent", "fork_run", "exit", "wait",
        "wait_free"}

TypeOK ==
  /\ state \in [Procs -> {"UNUSED", "USED", "RUNNABLE", "ZOMBIE"}]
  /\ parent \in [Procs -> Procs \cup {Nobody}]
  /\ trace_mask \in [Procs -> SUBSET Calls]
  /\ pages \in [Procs -> 0..PagesPerProc]
  /\ nfree \in 0..NPages
  /\ kmem_lock \in Procs \cup {Nobody}
  /\ th \in [Procs -> [pc : Pcs, num : Calls \cup {"none"}, np : Procs \cup {Nobody},
                       i : 1..(NPROC + 1), r : 0..NPages, freemem : 0..NPages,
                       nproc : 0..NPROC]]
  /\ asked \in [Procs -> SUBSET Calls]
  /\ always \in [Procs -> SUBSET Procs] /\ ever \in [Procs -> SUBSET Procs]
  /\ last \in {NoLine} \cup [who : Procs, num : Calls, line : BOOLEAN]

(* A line is printed for a call exactly if the process, or the ancestor it  *)
(* was forked from, has asked for that call last: trace is inherited, never *)
(* reaches another process, and is not left in a slot for the next one.     *)
TracedAsAsked == last # NoLine => (last.line <=> last.num \in asked[last.who])

(* kavail's answer is the length of the free list at a moment when nobody   *)
(* is changing it.                                                          *)
FreememExact ==
  \A p \in Procs : At(p, "kavail_walk") => th[p].freemem + th[p].r = nfree

(* proc_count's answer has every process that was there all the time and no *)
(* slot that was never in use.  More cannot be said without the locks: the  *)
(* number may be one that was never true.                                   *)
NprocBounded ==
  \A p \in Procs : At(p, "count") =>
    LET seen == 1..(th[p].i - 1)
    IN th[p].nproc \in Cardinality(always[p] \cap seen)..Cardinality(ever[p] \cap seen)

(* The pages of a process come and go one by one, in fork, in the fork that *)
(* fails and in wait; none is lost, and a slot is unused only when it has   *)
(* none left.                                                               *)
Held == {held \in Procs \X (1..PagesPerProc) : held[2] <= pages[held[1]]}

PagesConserved ==
  /\ nfree + Cardinality(Held) = NPages
  /\ \A p \in Procs :
       /\ state[p] = "UNUSED" => pages[p] = 0
       /\ state[p] = "RUNNABLE" => pages[p] = PagesPerProc

(* Memory and the process table agree at every step of fork, exit and wait, *)
(* and no counter leaves its range.                                         *)
PagesInv == TypeOK /\ PagesConserved
=============================================================================
