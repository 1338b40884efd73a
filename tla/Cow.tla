--------------------------------- MODULE Cow ---------------------------------
(***************************************************************************)
(* Copy-on-write user memory: lab5-cow/kernel/vm.c and the store-fault     *)
(* branch of usertrap() in lab5-cow/kernel/trap.c, over the allocator of   *)
(* Kmem.  Every process runs its own kernel thread, on NCPU harts; init is *)
(* here only as the thread that reaps orphans.                             *)
(*                                                                         *)
(* A step is one critical section of kalloc.c together with the work that  *)
(* nobody else can see: a page table is only touched by the thread that    *)
(* works for its process.  So the places where another thread can come in  *)
(* are the ones between two critical sections and between a critical       *)
(* section and a read or a write of a page that is shared.                 *)
(***************************************************************************)
EXTENDS Kmem, FiniteSets, Functions

CONSTANTS
  Procs,      (* slots of the process table                             *)
  MaxSz,      (* bound: the largest p->sz, in pages                     *)
  InitSz,     (* the size of the first process, in pages                *)
  NCPU,       (* the number of harts                                    *)
  OutPages,   (* the pages that system calls write to with copyout      *)
  GuardPages, (* the pages in which exec has cleared PTE_U              *)
  Data, Zero, (* what a page may hold; a page of zeros                  *)
  NoFrame, NoProc, InitProc,
  Absent, NoSpace   (* of AddressSpaces *)

ASSUME FramesAssumption == IsFiniteSet(Frames) /\ NoFrame \notin Frames
ASSUME SizesAssumption ==
  MaxSz \in Nat /\ InitSz \in 0..MaxSz /\ Cardinality(Frames) >= InitSz
ASSUME DataAssumption == Zero \in Data

(* The process table of xv6 has 64 slots, a count goes up to 127.          *)
ASSUME ProcsAssumption ==
  /\ IsFiniteSet(Procs) /\ Cardinality(Procs) <= RcMax
  /\ InitProc \notin Procs /\ NoProc \notin Procs
  /\ OutPages \subseteq 0..(MaxSz - 1)

VARIABLES
  pt,       (* pt[p][v]: the leaf PTE of page v in p->pagetable              *)
  sz,       (* p->sz in pages                                                *)
  st,       (* what the slot is: unused, embryo (in fork), live or zombie    *)
  parent,   (* p->parent                                                     *)
  th,       (* where the kernel thread of p is, and its local variables      *)
  panicked  (* "no", or the message of the panic that stopped the machine    *)

vars == <<freelist, mem_rc, mem, pt, sz, st, parent, th, panicked>>

VPages == 0..(MaxSz - 1)

(* A page that is not there, and an image that is not there, are told      *)
(* apart from those that are.                                              *)
ASSUME ImagesAssumption ==
  /\ Absent \notin Data \cup {JunkFree, JunkAlloc}
  /\ NoSpace \notin [VPages -> Data \cup {JunkFree, JunkAlloc, Absent}]

Threads == Procs \cup {InitProc}

NoPte == [pa |-> NoFrame, w |-> FALSE, u |-> FALSE, cow |-> FALSE]
Valid(pte) == pte.pa # NoFrame                             (* PTE_V      *)
(* Wrong: the page is marked, and stays writable.                          *)
MarkCowWritable(pte) == [pte EXCEPT !.cow = TRUE]

MarkCow(pte) == IF pte.w THEN [pte EXCEPT !.w = FALSE, !.cow = TRUE] ELSE pte
MarkWritable(pte) == [pte EXCEPT !.w = TRUE, !.cow = FALSE]
FreshPte(f) == [pa |-> f, w |-> TRUE, u |-> TRUE, cow |-> FALSE]

(* Locals of a thread.  v and end are the cursor and the bound of the loop *)
(* over pages, lo the page it began with; tgt is the process whose page    *)
(* table uvmunmap or uvmcopy works on; pa and new are pages in hand; ret   *)
(* is where uvmunmap returns to, kret where kfree does; caller is the      *)
(* caller of cow().                                                        *)
User == [pc |-> "user", ret |-> "none", kret |-> "none", caller |-> "none",
         v |-> 0, end |-> 0, lo |-> 0, tgt |-> NoProc,
         pa |-> NoFrame, new |-> NoFrame]

GoTo(p, t) == th' = [th EXCEPT ![p] = t]

(* The machine stops: panic() never returns.                               *)
Panic(msg) ==
  /\ panicked' = msg
  /\ UNCHANGED <<freelist, mem_rc, mem, pt, sz, st, parent, th>>

(* uvmunmap(pagetable of q, lo, end - lo, 1) and then ret.                 *)
Unmapping(t, q, lo, end, ret) ==
  [t EXCEPT !.pc = "unmap", !.tgt = q, !.v = lo, !.lo = lo, !.end = end,
            !.ret = ret, !.kret = "unmap"]

(* uvmunmap has returned to ret.                                           *)
Unmapped(p, ret) ==
  th[p].pc = "unmap" /\ th[p].v = th[p].end /\ th[p].ret = ret

-----------------------------------------------------------------------------
(* The machine after boot and exec: one process with InitSz private pages, *)
(* the guard page below its stack among them.                              *)
Init ==
  \E p \in Procs, page \in Bijection(1..Cardinality(Frames), Frames) :
    /\ freelist = SubSeq(page, InitSz + 1, Len(page))
    /\ mem_rc = [f \in Frames |-> IF \E i \in 1..InitSz : page[i] = f THEN 1 ELSE 0]
    /\ mem = [f \in Frames |-> IF mem_rc[f] = 1 THEN Zero ELSE JunkFree]
    /\ pt = [q \in Procs |-> [v \in VPages |->
               IF q = p /\ v < InitSz
               THEN [FreshPte(page[v + 1]) EXCEPT !.u = v \notin GuardPages]
               ELSE NoPte]]
    /\ sz = [q \in Procs |-> IF q = p THEN InitSz ELSE 0]
    /\ st = [q \in Procs |-> IF q = p THEN "live" ELSE "unused"]
    /\ parent = [q \in Procs |-> InitProc]
    /\ th = [q \in Threads |-> User]
    /\ panicked = "no"

InUser(p) == st[p] = "live" /\ th[p].pc = "user"

(* A thread runs with interrupts off, and keeps its hart, while usertrap() *)
(* handles a store fault, while fork() holds the lock of the new process,  *)
(* and while wait() holds the lock of the zombie.                          *)
KeepsHart(p) ==
  \/ th[p].caller = "fault"
  \/ "uvmcopy" \in {th[p].pc, th[p].ret, th[p].kret}
  \/ th[p].ret = "uvmfree"

(* wait() holds wait_lock until freeproc has returned.                      *)
WaitLockFree == \A q \in Threads : th[q].ret # "uvmfree"

CanRun(p) == Cardinality({q \in Threads \ {p} : KeepsHart(q)}) < NCPU

-----------------------------------------------------------------------------
(* User stores, and the two ways into cow().                               *)

Store(p, v, d) ==
  /\ InUser(p)
  /\ pt[p][v].w /\ pt[p][v].u
  /\ mem' = [mem EXCEPT ![pt[p][v].pa] = d]
  /\ UNCHANGED <<freelist, mem_rc, pt, sz, st, parent, th, panicked>>

StoreFault(p, v) ==
  /\ InUser(p)
  /\ ~(pt[p][v].w /\ pt[p][v].u)
  /\ GoTo(p, [User EXCEPT !.pc = "cow", !.caller = "fault", !.lo = v])
  /\ UNCHANGED <<freelist, mem_rc, mem, pt, sz, st, parent, panicked>>

(* copyout() looks at the PTE first; without PTE_V and PTE_U it returns -1 *)
(* and nothing has changed.                                                *)
Copyout(p, v) ==
  /\ InUser(p)
  /\ Valid(pt[p][v]) /\ pt[p][v].u
  /\ GoTo(p, [User EXCEPT !.pc = IF pt[p][v].cow THEN "cow" ELSE "copyout",
                          !.caller = "copyout", !.lo = v])
  /\ UNCHANGED <<freelist, mem_rc, mem, pt, sz, st, parent, panicked>>

CopyoutWrite(p, d) ==
  /\ th[p].pc = "copyout"
  /\ mem' = [mem EXCEPT ![pt[p][th[p].lo].pa] = d]
  /\ GoTo(p, User)
  /\ UNCHANGED <<freelist, mem_rc, pt, sz, st, parent, panicked>>

-----------------------------------------------------------------------------
(* cow(va, pagetable).  It returns to the user store or to copyout; when   *)
(* it returns 0, usertrap kills the process and copyout returns -1.        *)

CowReturns(p) ==
  GoTo(p, IF th[p].caller = "fault" THEN User
          ELSE [User EXCEPT !.pc = "copyout", !.caller = "copyout", !.lo = th[p].lo])

(* Wrong: usertrap goes back to user space as if cow() had succeeded.      *)
CowReturns0Ignored(p) == GoTo(p, User)

CowReturns0(p) ==
  GoTo(p, IF th[p].caller = "fault" THEN [User EXCEPT !.pc = "killed"] ELSE User)

FaultPte(p) == pt[p][th[p].lo]
IsCowPage(p) == Valid(FaultPte(p)) /\ FaultPte(p).u /\ FaultPte(p).cow

CowRefuse(p) ==
  /\ th[p].pc = "cow"
  /\ ~IsCowPage(p)
  /\ CowReturns0(p)
  /\ UNCHANGED <<freelist, mem_rc, mem, pt, sz, st, parent, panicked>>

CowInPlace(p) ==
  /\ th[p].pc = "cow" /\ IsCowPage(p)
  /\ ReadRc(FaultPte(p).pa) = 1
  /\ pt' = [pt EXCEPT ![p][th[p].lo] = MarkWritable(@)]
  /\ CowReturns(p)
  /\ UNCHANGED <<freelist, mem_rc, mem, sz, st, parent, panicked>>

(* More than one reference: the page is unmapped, and released, first.     *)
CowLetGo(p) ==
  /\ th[p].pc = "cow" /\ IsCowPage(p)
  /\ ReadRc(FaultPte(p).pa) # 1
  /\ IF ReadRc(FaultPte(p).pa) <= 0 THEN Panic("cow: rc <= 0") ELSE
       /\ GoTo(p, Unmapping([th[p] EXCEPT !.pa = FaultPte(p).pa],
                            p, th[p].lo, th[p].lo + 1, "cow"))
       /\ UNCHANGED <<freelist, mem_rc, mem, pt, sz, st, parent, panicked>>

CowNoMemory(p) ==
  /\ Unmapped(p, "cow")
  /\ FreelistEmpty
  /\ CowReturns0(p)
  /\ UNCHANGED <<mem, pt, sz, st, parent, panicked>>

CowAlloc(p, f) ==
  /\ Unmapped(p, "cow")
  /\ PopFrame(f)
  /\ Fill(f, JunkAlloc)
  /\ GoTo(p, [User EXCEPT !.pc = "cow_copy", !.caller = th[p].caller,
                          !.lo = th[p].lo, !.pa = th[p].pa, !.new = f])
  /\ UNCHANGED <<pt, sz, st, parent, panicked>>

(* Wrong: the new page is mapped and the old one is not copied.            *)
CowCopyNothing(p) ==
  /\ th[p].pc = "cow_copy"
  /\ pt' = [pt EXCEPT ![p][th[p].lo] = FreshPte(th[p].new)]
  /\ CowReturns(p)
  /\ UNCHANGED <<freelist, mem_rc, mem, sz, st, parent, panicked>>

(* memmove and mappages; the leaf page-table page is there, so mappages    *)
(* does not fail.  The last test of kmemrc(pa) is on the new PTE, which is *)
(* writable already.                                                       *)
CowCopy(p) ==
  LET fresh == FreshPte(th[p].new) IN
  /\ th[p].pc = "cow_copy"
  /\ mem' = [mem EXCEPT ![th[p].new] = mem[th[p].pa]]
  /\ pt' = [pt EXCEPT ![p][th[p].lo] =
              IF ReadRc(th[p].pa) = 1 THEN MarkWritable(fresh) ELSE fresh]
  /\ CowReturns(p)
  /\ UNCHANGED <<freelist, mem_rc, sz, st, parent, panicked>>

CowStep(p) ==
  \/ CowRefuse(p)
  \/ CowInPlace(p)
  \/ CowLetGo(p)
  \/ CowNoMemory(p)
  \/ \E f \in Frames : CowAlloc(p, f)
  \/ CowCopy(p)

-----------------------------------------------------------------------------
(* uvmunmap(pagetable, va, npages, 1): kfree the page of each valid PTE,   *)
(* then clear the PTE; a PTE that is not valid is skipped.                 *)

TargetPte(p) == pt[th[p].tgt][th[p].v]
Unmaps(p) == th[p].pc = "unmap" /\ th[p].v < th[p].end

UnmapSkip(p) ==
  /\ Unmaps(p) /\ ~Valid(TargetPte(p))
  /\ GoTo(p, [th[p] EXCEPT !.v = @ + 1])
  /\ UNCHANGED <<freelist, mem_rc, mem, pt, sz, st, parent, panicked>>

(* kfree(pa) for uvmunmap, or for the error path of uvmcopy or uvmalloc,   *)
(* which goes on to unmap the pages mapped so far.  The check before the   *)
(* lock is one step with the first critical section: the caller has a      *)
(* reference to the page, and while it has one the count is not bad.       *)
Kfrees(p) == th[p].pc = "kfree" \/ (Unmaps(p) /\ Valid(TargetPte(p)))
KfreePa(p) == IF th[p].kret = "unmap" THEN TargetPte(p).pa ELSE th[p].pa

KfreeReturns(p) ==
  \/ /\ th[p].kret = "unmap"
     /\ pt' = [pt EXCEPT ![th[p].tgt][th[p].v] = NoPte]
     /\ GoTo(p, [th[p] EXCEPT !.pc = "unmap", !.v = @ + 1])
  \/ /\ th[p].kret = "uvmcopy"
     /\ GoTo(p, Unmapping(User, th[p].tgt, 0, th[p].v, "uvmcopy"))
     /\ UNCHANGED pt
  \/ /\ th[p].kret = "uvmalloc"
     /\ GoTo(p, Unmapping(User, p, sz[p], th[p].v, "uvmalloc"))
     /\ UNCHANGED pt

KfreeShared(p) ==
  /\ Kfrees(p)
  /\ DropShared(KfreePa(p))
  /\ KfreeReturns(p)
  /\ UNCHANGED <<mem, sz, st, parent, panicked>>

KfreeLast(p) ==
  /\ Kfrees(p)
  /\ ~Shared(KfreePa(p))
  /\ IF BadRc(KfreePa(p)) THEN Panic("kfree") ELSE
       /\ Fill(KfreePa(p), JunkFree)
       /\ GoTo(p, [th[p] EXCEPT !.pc = "kfree_push"])
       /\ UNCHANGED <<freelist, mem_rc, pt, sz, st, parent, panicked>>

KfreePush(p) ==
  /\ th[p].pc = "kfree_push"
  /\ PushFrame(KfreePa(p))
  /\ KfreeReturns(p)
  /\ UNCHANGED <<mem, sz, st, parent, panicked>>

UnmapStep(p) ==
  \/ UnmapSkip(p)
  \/ KfreeShared(p)
  \/ KfreeLast(p)
  \/ KfreePush(p)

-----------------------------------------------------------------------------
(* fork(): allocproc takes an unused slot, uvmcopy shares the pages one by *)
(* one, and the child gets the size of its parent, under wait_lock its     *)
(* parent, and becomes runnable.                                           *)

Fork(p, c) ==
  /\ InUser(p)
  /\ st[c] = "unused"
  /\ st' = [st EXCEPT ![c] = "embryo"]
  /\ GoTo(p, [User EXCEPT !.pc = "uvmcopy", !.tgt = c, !.end = sz[p]])
  /\ UNCHANGED <<freelist, mem_rc, mem, pt, sz, parent, panicked>>

Copying(p) == th[p].pc = "uvmcopy" /\ th[p].v < th[p].end
ParentPte(p) == pt[p][th[p].v]

(* A page below p->sz that is not present.                                 *)
UvmcopyPanic(p) ==
  /\ Copying(p)
  /\ ~Valid(ParentPte(p))
  /\ Panic("uvmcopy: page not present")

(* cowalloc(pa), the parent's PTE, the child's PTE.  As in kfree, the look *)
(* that cowalloc takes at the count before it has the lock is one step     *)
(* with its critical section: the parent's PTE is a reference throughout.  *)
UvmcopyPage(p) ==
  /\ Copying(p)
  /\ Valid(ParentPte(p))
  /\ IF BadRc(ParentPte(p).pa) THEN Panic("cowalloc") ELSE
       /\ AddRef(ParentPte(p).pa)
       /\ pt' = [pt EXCEPT ![p][th[p].v] = MarkCow(@),
                           ![th[p].tgt][th[p].v] = MarkCow(ParentPte(p))]
       /\ GoTo(p, [th[p] EXCEPT !.v = @ + 1])
       /\ UNCHANGED <<mem, sz, st, parent, panicked>>

(* Wrong: the error path forgets the reference cowalloc has added.         *)
UvmcopyFailLeaks(p) ==
  /\ Copying(p)
  /\ Valid(ParentPte(p))
  /\ IF BadRc(ParentPte(p).pa) THEN Panic("cowalloc") ELSE
       /\ AddRef(ParentPte(p).pa)
       /\ pt' = [pt EXCEPT ![p][th[p].v] = MarkCow(@)]
       /\ GoTo(p, Unmapping(User, th[p].tgt, 0, th[p].v, "uvmcopy"))
       /\ UNCHANGED <<mem, sz, st, parent, panicked>>

(* mappages has no page for the child's page table: the new reference is   *)
(* given back, and the pages before this one are unmapped from the child.  *)
UvmcopyFail(p) ==
  /\ Copying(p)
  /\ Valid(ParentPte(p))
  /\ IF BadRc(ParentPte(p).pa) THEN Panic("cowalloc") ELSE
       /\ AddRef(ParentPte(p).pa)
       /\ pt' = [pt EXCEPT ![p][th[p].v] = MarkCow(@)]
       /\ GoTo(p, [th[p] EXCEPT !.pc = "kfree", !.pa = ParentPte(p).pa,
                                 !.kret = "uvmcopy"])
       /\ UNCHANGED <<mem, sz, st, parent, panicked>>

(* Wrong: the child does not get the size of its parent.                   *)
ForkDoneWithoutSize(p) ==
  /\ th[p].pc = "uvmcopy" /\ th[p].v = th[p].end
  /\ WaitLockFree
  /\ st' = [st EXCEPT ![th[p].tgt] = "live"]
  /\ parent' = [parent EXCEPT ![th[p].tgt] = p]
  /\ GoTo(p, User)
  /\ UNCHANGED <<freelist, mem_rc, mem, pt, sz, panicked>>

ForkDone(p) ==
  /\ th[p].pc = "uvmcopy" /\ th[p].v = th[p].end
  /\ WaitLockFree
  /\ st' = [st EXCEPT ![th[p].tgt] = "live"]
  /\ sz' = [sz EXCEPT ![th[p].tgt] = sz[p]]
  /\ parent' = [parent EXCEPT ![th[p].tgt] = p]
  /\ GoTo(p, User)
  /\ UNCHANGED <<freelist, mem_rc, mem, pt, panicked>>

(* freeproc(): the slot is unused again, unless freewalk finds a leaf.     *)
FreeProc(p, q) ==
  IF \E v \in VPages : Valid(pt[q][v]) THEN Panic("freewalk: leaf") ELSE
    /\ st' = [st EXCEPT ![q] = "unused"]
    /\ sz' = [sz EXCEPT ![q] = 0]
    /\ parent' = [parent EXCEPT ![q] = InitProc]
    /\ GoTo(p, User)
    /\ UNCHANGED <<freelist, mem_rc, mem, pt, panicked>>

ForkFailed(p) == Unmapped(p, "uvmcopy") /\ FreeProc(p, th[p].tgt)

ForkStep(p) ==
  \/ \E c \in Procs : Fork(p, c)
  \/ UvmcopyPanic(p)
  \/ UvmcopyPage(p)
  \/ UvmcopyFail(p)
  \/ ForkDone(p)
  \/ ForkFailed(p)

-----------------------------------------------------------------------------
(* exit() gives the children to init; wait() in the parent of a zombie     *)
(* calls freeproc, that is uvmunmap over p->sz and then freewalk.          *)

Exit(p) ==
  /\ InUser(p) \/ th[p].pc = "killed"
  /\ WaitLockFree
  /\ st' = [st EXCEPT ![p] = "zombie"]
  /\ parent' = [q \in Procs |-> IF parent[q] = p THEN InitProc ELSE parent[q]]
  /\ GoTo(p, User)
  /\ UNCHANGED <<freelist, mem_rc, mem, pt, sz, panicked>>

Wait(p, c) ==
  /\ th[p].pc = "user" /\ (p \in Procs => InUser(p))
  /\ WaitLockFree
  /\ st[c] = "zombie" /\ parent[c] = p
  /\ GoTo(p, Unmapping(User, c, 0, sz[c], "uvmfree"))
  /\ UNCHANGED <<freelist, mem_rc, mem, pt, sz, st, parent, panicked>>

Waited(p) == Unmapped(p, "uvmfree") /\ FreeProc(p, th[p].tgt)

WaitStep(p) == Waited(p) \/ \E c \in Procs : Wait(p, c)

-----------------------------------------------------------------------------
(* sbrk(): uvmalloc page by page, or uvmdealloc; p->sz is set at the end.  *)

Grow(p, n) ==
  /\ InUser(p) /\ n > sz[p]
  /\ GoTo(p, [User EXCEPT !.pc = "uvmalloc", !.v = sz[p], !.lo = sz[p], !.end = n])
  /\ UNCHANGED <<freelist, mem_rc, mem, pt, sz, st, parent, panicked>>

Growing(p) == th[p].pc = "uvmalloc" /\ th[p].v < th[p].end

UvmallocPage(p, f) ==
  /\ Growing(p)
  /\ PopFrame(f)
  /\ Fill(f, Zero)
  /\ IF Valid(pt[p][th[p].v])
     THEN panicked' = "mappages: remap" /\ UNCHANGED <<pt, th>>
     ELSE /\ pt' = [pt EXCEPT ![p][th[p].v] = FreshPte(f)]
          /\ GoTo(p, [th[p] EXCEPT !.v = @ + 1])
          /\ UNCHANGED panicked
  /\ UNCHANGED <<sz, st, parent>>

UvmallocNoMemory(p) ==
  /\ Growing(p)
  /\ FreelistEmpty
  /\ GoTo(p, Unmapping(th[p], p, sz[p], th[p].v, "uvmalloc"))
  /\ UNCHANGED <<mem, pt, sz, st, parent, panicked>>

(* Wrong: the error path forgets the page kalloc has returned.             *)
UvmallocFailLeaks(p, f) ==
  /\ Growing(p)
  /\ PopFrame(f)
  /\ Fill(f, Zero)
  /\ GoTo(p, Unmapping(User, p, sz[p], th[p].v, "uvmalloc"))
  /\ UNCHANGED <<pt, sz, st, parent, panicked>>

(* mappages has no page for the page table: the page is freed again.       *)
UvmallocFail(p, f) ==
  /\ Growing(p)
  /\ PopFrame(f)
  /\ Fill(f, Zero)
  /\ GoTo(p, [th[p] EXCEPT !.pc = "kfree", !.pa = f, !.kret = "uvmalloc"])
  /\ UNCHANGED <<pt, sz, st, parent, panicked>>

GrowDone(p) ==
  /\ th[p].pc = "uvmalloc" /\ th[p].v = th[p].end
  /\ sz' = [sz EXCEPT ![p] = th[p].end]
  /\ GoTo(p, User)
  /\ UNCHANGED <<freelist, mem_rc, mem, pt, st, parent, panicked>>

Shrink(p, n) ==
  /\ InUser(p) /\ n < sz[p]
  /\ GoTo(p, Unmapping(User, p, n, sz[p], "sbrk"))
  /\ UNCHANGED <<freelist, mem_rc, mem, pt, sz, st, parent, panicked>>

ShrinkDone(p) ==
  /\ Unmapped(p, "sbrk")
  /\ sz' = [sz EXCEPT ![p] = th[p].lo]
  /\ GoTo(p, User)
  /\ UNCHANGED <<freelist, mem_rc, mem, pt, st, parent, panicked>>

GrowFailed(p) ==
  /\ Unmapped(p, "uvmalloc")
  /\ GoTo(p, User)
  /\ UNCHANGED <<freelist, mem_rc, mem, pt, sz, st, parent, panicked>>

SbrkStep(p) ==
  \/ \E n \in 0..MaxSz : Grow(p, n) \/ Shrink(p, n)
  \/ \E f \in Frames : UvmallocPage(p, f) \/ UvmallocFail(p, f)
  \/ UvmallocNoMemory(p)
  \/ GrowDone(p)
  \/ ShrinkDone(p)
  \/ GrowFailed(p)

-----------------------------------------------------------------------------
ProcStep(p) ==
  \/ \E v \in VPages, d \in Data : Store(p, v, d)
  \/ \E v \in VPages : StoreFault(p, v)
  \/ \E v \in OutPages : Copyout(p, v)
  \/ \E d \in Data : CopyoutWrite(p, d)
  \/ CowStep(p)
  \/ ForkStep(p)
  \/ Exit(p)
  \/ SbrkStep(p)

Next ==
  /\ panicked = "no"
  /\ \/ \E p \in Procs : CanRun(p) /\ ProcStep(p)
     \/ \E p \in Threads : CanRun(p) /\ (UnmapStep(p) \/ WaitStep(p))

Spec == Init /\ [][Next]_vars
-----------------------------------------------------------------------------
Pcs == {"user", "cow", "cow_copy", "copyout", "killed", "unmap", "kfree",
        "kfree_push", "uvmcopy", "uvmalloc"}

Panics == {"cow: rc <= 0", "kfree", "cowalloc", "uvmcopy: page not present",
           "freewalk: leaf", "mappages: remap"}

PteType == [pa : Frames \cup {NoFrame}, w : BOOLEAN, u : BOOLEAN, cow : BOOLEAN]

Locals ==
  [pc : Pcs,
   ret : {"none", "cow", "uvmcopy", "uvmfree", "sbrk", "uvmalloc"},
   kret : {"none", "unmap", "uvmcopy", "uvmalloc"},
   caller : {"none", "fault", "copyout"},
   v : 0..MaxSz, end : 0..MaxSz, lo : 0..MaxSz,
   tgt : Procs \cup {NoProc},
   pa : Frames \cup {NoFrame}, new : Frames \cup {NoFrame}]

(* The type of every variable; a count never wraps to a negative number.   *)
TypeOK ==
  /\ freelist \in Seq(Frames)
  /\ mem_rc \in [Frames -> 0..RcMax]
  /\ mem \in [Frames -> Data \cup {JunkFree, JunkAlloc}]
  /\ pt \in [Procs -> [VPages -> PteType]]
  /\ sz \in [Procs -> 0..MaxSz]
  /\ st \in [Procs -> {"unused", "embryo", "live", "zombie"}]
  /\ parent \in [Procs -> Threads]
  /\ th \in [Threads -> Locals]
  /\ panicked \in Panics \cup {"no"}

(* A page that a thread holds a reference to, and no PTE does.             *)
InHand(p, f) ==
  \/ th[p].pc = "cow_copy" /\ th[p].new = f
  \/ /\ th[p].pc \in {"kfree", "kfree_push"}
     /\ th[p].kret \in {"uvmcopy", "uvmalloc"}
     /\ th[p].pa = f

Mappings(f) == {m \in Procs \X VPages : pt[m[1]][m[2]].pa = f}

Holders(f) == {p \in Procs : InHand(p, f)}

(* mem_rc counts exactly the PTEs that map a page and the threads that     *)
(* hold it, at every point of every operation, on any number of harts.     *)
RcExact ==
  \A f \in Frames : mem_rc[f] = Cardinality(Mappings(f)) + Cardinality(Holders(f))

(* The free list has each unreferenced page once and no other page.        *)
FreelistExact ==
  /\ \A i, j \in DOMAIN freelist : freelist[i] = freelist[j] => i = j
  /\ \A f \in Frames :
       (\E i \in DOMAIN freelist : freelist[i] = f) <=> mem_rc[f] = 0

(* The counts, the free list and the page tables agree: a page is neither   *)
(* lost nor freed too early, and when every process is gone, every page is *)
(* on the free list again.                                                 *)
CowInv == TypeOK /\ RcExact /\ FreelistExact

(* A PTE with PTE_W is the only reference to its page: no store through    *)
(* one page table can be seen through another one.                         *)
WritableIsPrivate ==
  \A q \in Procs, v \in VPages :
    pt[q][v].w =>
      Mappings(pt[q][v].pa) = {<<q, v>>} /\ Holders(pt[q][v].pa) = {}

(* None of the panics about counts and page tables is reached, of cow(),   *)
(* kfree, cowalloc, freewalk and mappages: the only one left is uvmcopy's. *)
CountsNeverPanic == panicked \in {"no", "uvmcopy: page not present"}

(* uvmcopy panics when a page below p->sz is not present.                  *)
PagesPresent == panicked # "uvmcopy: page not present"

-----------------------------------------------------------------------------
(* The image a process believes in.  While cow() has let go of a page and  *)
(* has not copied it yet, the image is still what the old page holds.      *)

Shrinking(p) == th[p].ret = "sbrk"
Size(p) == IF Shrinking(p) THEN th[p].lo ELSE sz[p]
LetGo(p, v) == th[p].caller # "none" /\ th[p].pa # NoFrame /\ th[p].lo = v

PageOf(p, v) ==
  CASE v >= Size(p) -> Absent
    [] v < Size(p) /\ Valid(pt[p][v]) -> mem[pt[p][v].pa]
    [] v < Size(p) /\ ~Valid(pt[p][v]) /\ LetGo(p, v) -> mem[th[p].pa]
    [] OTHER -> Absent

Image ==
  [p \in Procs |->
     IF st[p] = "live" /\ th[p].pc # "killed"
     THEN [v \in VPages |-> PageOf(p, v)] ELSE NoSpace]

(* uvmcopy copies the parent's memory into the child's page table, as far  *)
(* as any process can tell.                                                *)
Private == INSTANCE AddressSpaces WITH image <- Image, Images <- {}
ImplementsAddressSpaces == Private!Spec
=============================================================================
