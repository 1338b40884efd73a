-------------------------------- MODULE UserVm --------------------------------
(***************************************************************************)
(* The processes of lab3 and their memory: allocproc, freeproc, fork, exit,*)
(* wait and growproc of proc.c, with the page that user space reads its pid*)
(* from, exec of exec.c, and sbrk and pgaccess of sysproc.c.               *)
(*                                                                         *)
(* A system call is one step.  What it works on is private to the process, *)
(* except the free list: other harts may take pages from it at any time,   *)
(* so a call finds anything from no page to as many as it can use.         *)
(***************************************************************************)
EXTENDS PageTable, SequencesExt

CONSTANTS
  NPROC,        (* slots of the process table, initproc is slot 1           *)
  Programs,     (* what exec finds in the file system                       *)
  Initcode,     (* the page that userinit loads                             *)
  Args,         (* a stack page with the arguments of main                  *)
  Stored, Out,  (* a page the program has stored to, or the kernel has      *)
  Texts,        (* what the segments of the programs hold                   *)
  UintMod,      (* an unsigned int is less than this; a uint64 is not bound *)
  SbrkArgs,     (* the arguments of sbrk                                    *)
  OutPages,     (* the pages that system calls are asked to write to        *)
  BasePages, PageCounts,  (* the first two arguments of pgaccess            *)
  MaskBits,     (* the bits of the mask of pgaccess, 64 in the code         *)
  LoadPages, StorePages,  (* the pages that programs load from and store to *)
  MaxUser,      (* bound: the number of loads, stores, sbrks and pgaccesses *)
  MaxSz,        (* bound of AddressSpaces: no image has more pages          *)
  Absent, NoSpace

(* Memory is less than an unsigned int can count, and enough for the first  *)
(* process; files and arguments can be anything.                            *)
ASSUME UserAssumption ==
  /\ NPROC \in Nat \ {0} /\ MaxUser \in Nat
  /\ NFrames >= 12 /\ UintMod \in Nat /\ NFrames * PGSIZE < UintMod
  /\ \A prog \in Programs :
       /\ prog.header \in BOOLEAN /\ prog.args \in Nat
       /\ prog.segs \in Seq([vaddr : Nat, memsz : Nat, filesz : Nat,
                             text : Texts, readable : BOOLEAN])
  /\ SbrkArgs \cup PageCounts \subseteq Int /\ MaskBits \in Nat
  /\ OutPages \cup BasePages \subseteq Nat
  /\ LoadPages \cup StorePages \subseteq 0..(MAXVA - 1)

Procs == 1..NPROC
Live(p) == p.state = "RUNNABLE"

VARIABLES
  m,        (* the machine: page tables, memory, and m.proc, the table      *)
  hist,     (* history of each process; see NewHist                         *)
  image,    (* history: what each process finds in its memory               *)
  budget    (* what is left of MaxUser                                      *)

vars == <<m, hist, image, budget>>

(* guard: the page below the stack, or MAXVA; accessed: the pages used      *)
(* since pgaccess last reported them; inherited: the pages that uvmcopy has *)
(* given to a child with PTE_A set, until pgaccess reports them; lost: those*)
(* of either that a pgaccess which failed has looked at; scribbled: the     *)
(* process had the kernel write to USYSCALL.                                *)
NewHist == [guard |-> MAXVA, accessed |-> {}, inherited |-> {}, lost |-> {},
            scribbled |-> FALSE]

(* The pages that a process of history h should find marked with PTE_A.     *)
Marked(h) == (h.accessed \cup h.inherited) \ h.lost

UnusedProc == [state |-> "UNUSED", pid |-> 0, sz |-> 0, parent |-> 0,
               pagetable |-> 0, trapframe |-> 0, usyscall |-> 0]

-----------------------------------------------------------------------------
(* proc.c                                                                   *)

(* allocpid counts for ever; what matters is that no two processes share a  *)
(* pid.                                                                     *)
FreshPid(w) == Min((1..(NPROC + 1)) \ {w.proc[p].pid : p \in Procs})

(* Wrong: the page for user space is mapped and not filled in.              *)
WritePidNever(w, p) == w

WritePid(w, p) == [w EXCEPT !.data[w.proc[p].usyscall] = w.proc[p].pid]

(* The three pages at the top of an address space.                          *)
TopPages(q) ==
  <<[va |-> TRAMPOLINE, pa |-> TrampolinePa, perm |-> {"R", "X"}],
    [va |-> TRAPFRAME, pa |-> q.trapframe, perm |-> {"R", "W"}],
    [va |-> USYSCALL, pa |-> q.usyscall, perm |-> {"R", "U"}]>>

(* mappages of the page n + 1 from the top has returned w.ret.              *)
TopMapped(w, root, n) ==
  IF w.ret = 0 THEN Ret(w, root)
  ELSE Ret(Uvmfree(Uvmunmap(w, root, MAXVA - n, n, FALSE), root, 0), 0)

ProcPagetable(w, p) ==
  LET MapTop(x, n) ==
        IF x.ret = 0 THEN x
        ELSE LET top == TopPages(w.proc[p])[n]
             IN TopMapped(Mappages(x, x.ret, top.va, top.pa, top.perm), x.ret, n - 1)
      Fill(x) == IF x.ret = 0 THEN x ELSE WritePid(x, p)
  IN Fill(MapTop(MapTop(MapTop(Uvmcreate(w), 1), 2), 3))

ProcFreepagetable(w, root, sz) ==
  Uvmfree(Uvmunmap(w, root, USYSCALL, 3, FALSE), root, sz)

Freeproc(w, p) ==
  LET q == w.proc[p]
      b == GiveBack(GiveBack(w, q.trapframe), q.usyscall)
  IN [(IF q.pagetable # 0 THEN ProcFreepagetable(b, q.pagetable, q.sz) ELSE b) EXCEPT
        !.proc[p] = UnusedProc]

(* Fill in a field of slot p with what the last function has returned.      *)
SetTrapframe(w, p) == [w EXCEPT !.proc[p].trapframe = w.ret]
SetUsyscall(w, p) == [w EXCEPT !.proc[p].usyscall = w.ret]
SetPagetable(w, p) == [w EXCEPT !.proc[p].pagetable = w.ret]

(* allocproc from found: on, each step only if the one before has succeeded.*)
Found(w, p) ==
  LET Then(x, Step(_)) == IF x.ret = 0 THEN x ELSE Step(x)
      Frame(x) == SetUsyscall(Kalloc(x), p)
      Table(x) == SetPagetable(ProcPagetable(x, p), p)
  IN Then(Then(SetTrapframe(Kalloc(w), p), Frame), Table)

(* Returns the new slot, or 0.                                              *)
AllocprocEnd(w, p) == IF w.ret = 0 THEN Ret(Freeproc(w, p), 0) ELSE Ret(w, p)

Allocproc(w) ==
  LET unused == {p \in Procs : w.proc[p].state = "UNUSED"}
      p == Min(unused)
  IN IF unused = {} THEN Ret(w, 0)
     ELSE AllocprocEnd(Found([w EXCEPT !.proc[p].state = "USED",
                                       !.proc[p].pid = FreshPid(w)], p), p)

(* kalloc has returned k.ret.                                               *)
Uvminit(k, p) ==
  [MapNew(k, k.proc[p].pagetable, 0) EXCEPT !.data[k.ret] = Initcode]

Userinit(w) ==
  [Uvminit(Kalloc(Allocproc(w)), 1) EXCEPT
     !.proc[1].sz = PGSIZE, !.proc[1].state = "RUNNABLE"]

(* Returns the slot of the child (its pid, in the code), or -1.  First what *)
(* follows uvmcopy, and what follows allocproc.                             *)
ForkCopied(w, p, np) ==
  IF w.ret < 0 THEN Ret(Freeproc(w, np), -1)
  ELSE [w EXCEPT !.proc[np].sz = w.proc[p].sz, !.proc[np].parent = p,
                 !.proc[np].state = "RUNNABLE", !.ret = np]

ForkInto(w, p, np) ==
  IF np = 0 THEN Ret(w, -1)
  ELSE ForkCopied(Uvmcopy(w, w.proc[p].pagetable, w.proc[np].pagetable, w.proc[p].sz),
                  p, np)

SysFork(w, p) == LET a == Allocproc(w) IN ForkInto(a, p, a.ret)

SysExit(w, p) ==
  [w EXCEPT !.proc = [q \in Procs |->
     IF q = p THEN [@[p] EXCEPT !.state = "ZOMBIE"]
     ELSE IF @[q].parent = p THEN [@[q] EXCEPT !.parent = 1]
     ELSE @[q]]]

(* The children of p that wait() could reap; it takes the first of them.    *)
Zombies(w, p) == {q \in Procs : w.proc[q].parent = p /\ w.proc[q].state = "ZOMBIE"}

(* addr is a page, or MAXVA for a null pointer.                             *)
SysWait(w, p, addr) ==
  LET np == Min(Zombies(w, p))
      c == IF addr = MAXVA THEN Ret(w, 0)
           ELSE Copyout(w, w.proc[p].pagetable, addr, Out)
  IN IF c.ret < 0 THEN c ELSE Ret(Freeproc(c, np), np)

(* Wrong: the sum is a signed number.                                       *)
IntSum(sz, n) == sz + n

(* uint sz: the sum with a negative n wraps.                                *)
UintSum(sz, n) == (sz + n) % UintMod

(* The end of growproc and of sys_sbrk, with the new size in w.ret.         *)
Grown(w, p, n, old) ==
  IF n > 0 /\ w.ret = 0 THEN Ret(w, -1)
  ELSE [w EXCEPT !.proc[p].sz = w.ret, !.ret = old]

SysSbrk(w, p, n) ==
  LET old == w.proc[p].sz
      new == UintSum(old, n)
  IN Grown(IF n > 0 THEN Uvmalloc(w, w.proc[p].pagetable, old, new)
           ELSE IF n < 0 THEN Uvmdealloc(w, w.proc[p].pagetable, old, new)
           ELSE Ret(w, old),
           p, n, old)
-----------------------------------------------------------------------------
(* exec.c.  A program has segments, each with the content of its pages; a   *)
(* bad header, a segment that cannot be read, and arguments that do not fit *)
(* on the stack page are properties of the program.                         *)

LoadPage(w, seg, pa) ==
  IF w.ret < 0 THEN w
  ELSE IF pa = 0 THEN Panic(w, "loadseg: address should exist")
  ELSE IF ~seg.readable THEN Ret(w, -1)
  ELSE [w EXCEPT !.data[pa] = seg.text]

Loadseg(w, root, seg) ==
  LET first == seg.vaddr \div PGSIZE
  IN Loop(LAMBDA x, k : LoadPage(x, seg, Walkaddr(x, root, first + k)),
          Ret(w, 0), Pages(seg.vaddr + seg.filesz) - first)

(* The loop over the program headers: a record of the machine, the size of  *)
(* the new image so far, and whether it goes on.                            *)
SegmentLoaded(w, sz) == [w |-> w, sz |-> sz, ok |-> w.ret = 0]

SegmentGrown(w, root, sz, seg) ==
  IF w.ret = 0 THEN [w |-> w, sz |-> sz, ok |-> FALSE]
  ELSE IF seg.vaddr % PGSIZE # 0 THEN [w |-> w, sz |-> w.ret, ok |-> FALSE]
  ELSE SegmentLoaded(Loadseg(w, root, seg), w.ret)

LoadSegment(l, root, seg) ==
  IF ~l.ok THEN l
  ELSE IF seg.memsz < seg.filesz THEN [l EXCEPT !.ok = FALSE]
  ELSE SegmentGrown(Uvmalloc(l.w, root, l.sz, seg.vaddr + seg.memsz), root, l.sz, seg)

LoadSegments(w, root, segs) ==
  Loop(LAMBDA l, k : LoadSegment(l, root, segs[k + 1]),
       [w |-> w, sz |-> 0, ok |-> TRUE], Len(segs))

ExecBad(w, root, sz) == Ret(ProcFreepagetable(w, root, sz), -1)

(* Wrong: the new image is given the size of the old one.                   *)
ExecCommitOldSize(w, p, root, sz) ==
  LET old == w.proc[p]
  IN Ret(ProcFreepagetable([w EXCEPT !.proc[p].pagetable = root],
                           old.pagetable, old.sz), 0)

(* Commit to the user image.                                                *)
ExecCommit(w, p, root, sz) ==
  LET old == w.proc[p]
  IN Ret(ProcFreepagetable(
           [w EXCEPT !.proc[p].pagetable = root, !.proc[p].sz = sz],
           old.pagetable, old.sz), 0)

(* exec from each of its calls on: after uvmalloc of the guard page and the *)
(* stack, after the segments, and after proc_pagetable.                     *)
ExecStack(w, p, prog, root, sz) ==
  LET top == sz + 2 * PGSIZE
      c == Uvmclear(w, root, Pages(sz))
  IN IF w.ret = 0 THEN ExecBad(w, root, sz)
     ELSE IF prog.args > PGSIZE THEN ExecBad(c, root, top)
     ELSE ExecCommit(Copyout(c, root, Pages(sz) + 1, Args), p, root, top)

ExecLoaded(l, p, prog, root) ==
  LET sz == PGSIZE * Pages(l.sz)
  IN IF ~l.ok THEN ExecBad(l.w, root, l.sz)
     ELSE ExecStack(Uvmalloc(l.w, root, sz, sz + 2 * PGSIZE), p, prog, root, sz)

ExecInto(w, p, prog) ==
  IF w.ret = 0 THEN Ret(w, -1)
  ELSE ExecLoaded(LoadSegments(w, w.ret, prog.segs), p, prog, w.ret)

Exec(w, p, prog) ==
  IF ~prog.header THEN Ret(w, -1) ELSE ExecInto(ProcPagetable(w, p), p, prog)
-----------------------------------------------------------------------------
(* sysproc.c                                                                *)

(* Wrong: the scan leaves PTE_A as it is.                                   *)
ScanKeepsA(w, root, base, len) ==
  [w |-> w, mask |-> {v \in base..(base + len - 1) : "A" \in PteAt(w, root, v).perm},
   ok |-> \A v \in base..(base + len - 1) : "U" \in PteAt(w, root, v).perm]

(* An iteration of the scan of pgaccess, at page v: s is a record of the    *)
(* machine, the mask, and whether it goes on.                               *)
Look(s, root, v) ==
  LET pte == IF v >= MAXVA THEN NoPte ELSE PteAt(s.w, root, v)
  IN IF ~s.ok \/ "U" \notin pte.perm THEN [s EXCEPT !.ok = FALSE]
     ELSE IF "A" \in pte.perm
     THEN [s EXCEPT !.mask = @ \cup {v},
                    !.w = SetPteAt(@, root, v, [pte EXCEPT !.perm = @ \ {"A"}])]
     ELSE s

ScanPages(w, root, base, len) ==
  Loop(LAMBDA s, k : Look(s, root, base + k), [w |-> w, mask |-> {}, ok |-> TRUE], len)

Scan(w, root, base, len) ==
  IF len < 0 \/ len > MaskBits THEN [w |-> w, mask |-> {}, ok |-> FALSE]
  ELSE ScanPages(w, root, base, len)

-----------------------------------------------------------------------------
EmptyMachine ==
  [pt |-> [f \in Frames |-> JunkTable], data |-> [f \in Frames |-> Junk],
   free |-> Frames, left |-> NFrames, ret |-> 0, panic |-> "no",
   proc |-> [p \in Procs |-> UnusedProc]]

Done(w) == [w EXCEPT !.left = 0, !.ret = 0]

ImageOf(w) ==
  [p \in Procs |->
     IF ~Live(w.proc[p]) THEN NoSpace
     ELSE [v \in 0..(MaxSz - 1) |->
             IF v < Pages(w.proc[p].sz)
             THEN w.data[PteAt(w, w.proc[p].pagetable, v).pa] ELSE Absent]]

Init ==
  /\ m = Done(Userinit(EmptyMachine))
  /\ image = ImageOf(m)
  /\ hist = [p \in Procs |-> NewHist]
  /\ budget = MaxUser

Call(left) == [m EXCEPT !.left = left]

(* How many pages are left to a call: from none to as many as it takes when *)
(* it does not fail; r is the machine after a call that had them all.       *)
Shortages(r) == 0..(NFrames - r.left)
Root(p) == m.proc[p].pagetable
Spend == budget > 0 /\ budget' = budget - 1

Fork(p, left) ==
  \E r \in {SysFork(Call(left), p)} :
    /\ m' = Done(r)
    /\ hist' = IF r.ret < 0 THEN hist
               ELSE [hist EXCEPT ![r.ret] =
                       [NewHist EXCEPT !.guard = hist[p].guard,
                                       !.inherited = Marked(hist[p]) \ {USYSCALL}]]
    /\ UNCHANGED budget

Exit(p) ==
  /\ p # 1
  /\ m' = SysExit(m, p)
  /\ UNCHANGED <<hist, budget>>

Wait(p, addr) ==
  /\ Zombies(m, p) # {}
  /\ \E r \in {SysWait(m, p, addr)} :
       /\ m' = Done(r)
       /\ hist' = IF r.ret < 0 THEN hist
                  ELSE [hist EXCEPT ![r.ret] = NewHist,
                                    ![p].scribbled = @ \/ addr = USYSCALL]
  /\ UNCHANGED budget

(* init loads its program once.                                             *)
CallsExec(p) == p = 1 => hist[p].guard = MAXVA

ExecOf(p, prog, left) ==
  \E r \in {Exec(Call(left), p, prog)} :
    /\ m' = Done(r)
    /\ hist' = IF r.ret < 0 THEN hist
               ELSE [hist EXCEPT ![p] =
                       [NewHist EXCEPT !.guard = Pages(r.proc[p].sz) - 2]]
    /\ UNCHANGED budget

Sbrk(p, n, left) ==
  /\ Spend
  /\ m' = Done(SysSbrk(Call(left), p, n))
  /\ LET Mapped(v) == v < Pages(m'.proc[p].sz) \/ v = USYSCALL
     IN hist' = [hist EXCEPT ![p] =
                   [hist[p] EXCEPT
                      !.guard = IF Mapped(@) THEN @ ELSE MAXVA,
                      !.accessed = {v \in @ : Mapped(v)},
                      !.inherited = {v \in @ : Mapped(v)},
                      !.lost = {v \in @ : Mapped(v)}]]

Pgaccess(p, base, len, addr) ==
  /\ Spend
  /\ \E s \in {Scan(m, Root(p), base, len)} :
     \E c \in {IF s.ok THEN Copyout(s.w, Root(p), addr, Out) ELSE Ret(s.w, -1)} :
       /\ m' = Done(c)
       /\ hist' = [hist EXCEPT ![p] =
                     IF c.ret = 0
                     THEN [hist[p] EXCEPT !.accessed = @ \ s.mask,
                                          !.inherited = @ \ s.mask,
                                          !.lost = @ \ s.mask,
                                          !.scribbled = @ \/ addr = USYSCALL]
                     ELSE [hist[p] EXCEPT !.lost = @ \cup s.mask]]

(* The hardware sets PTE_A when it uses a PTE.                              *)
Uses(p, v) ==
  LET pte == PteAt(m, Root(p), v)
  IN SetPteAt(m, Root(p), v, [pte EXCEPT !.perm = @ \cup {"A"}])

Used(p, v) ==
  hist' = [hist EXCEPT ![p].accessed = @ \cup {v}, ![p].lost = @ \ {v}]

Load(p, v) ==
  /\ Spend
  /\ "U" \in PteAt(m, Root(p), v).perm
  /\ m' = Uses(p, v)
  /\ Used(p, v)

Store(p, v) ==
  LET pte == PteAt(m, Root(p), v)
  IN /\ Spend
     /\ {"U", "W"} \subseteq pte.perm
     /\ m' = [Uses(p, v) EXCEPT !.data[pte.pa] = Stored]
     /\ Used(p, v)

Next ==
  /\ m.panic = "no"
  /\ \E p \in Procs :
       /\ Live(m.proc[p])
       /\ \/ \E left \in Shortages(SysFork(Call(NFrames), p)) : Fork(p, left)
          \/ Exit(p)
          \/ \E addr \in OutPages \cup {MAXVA} : Wait(p, addr)
          \/ /\ CallsExec(p)
             /\ \E prog \in Programs :
               \E left \in Shortages(Exec(Call(NFrames), p, prog)) : ExecOf(p, prog, left)
          \/ \E n \in SbrkArgs :
               \E left \in Shortages(SysSbrk(Call(NFrames), p, n)) : Sbrk(p, n, left)
          \/ \E base \in BasePages, len \in PageCounts, addr \in OutPages :
               Pgaccess(p, base, len, addr)
          \/ \E v \in LoadPages : Load(p, v)
          \/ \E v \in StorePages : Store(p, v)
  /\ image' = ImageOf(m')

Spec == Init /\ [][Next]_vars
-----------------------------------------------------------------------------
States == {"UNUSED", "RUNNABLE", "ZOMBIE"}
InUse(p) == m.proc[p].state # "UNUSED"
Data == {Zero, Initcode, Args, Stored, Out} \cup Texts

(* Between two system calls no process is half made, and memory holds what  *)
(* programs can have put there.                                             *)
TypeOK ==
  /\ m.pt \in [Frames -> [Entries -> [pa : 0..TrampolinePa,
                                      perm : SUBSET (UserPerm \cup {"A"})]]]
  /\ m.data \in [Frames -> Data \cup {Junk} \cup 1..(NPROC + 1)]
  /\ m.free \subseteq Frames /\ m.left = 0 /\ m.ret = 0
  /\ m.proc \in [Procs -> [state : States, pid : 0..(NPROC + 1), sz : 0..(UintMod - 1),
                           parent : 0..NPROC, pagetable : 0..NFrames,
                           trapframe : 0..NFrames, usyscall : 0..NFrames]]
  /\ budget \in 0..MaxUser

(* No check of vm.c stops the machine, and nothing is freed twice.          *)
NoPanic == m.panic = "no"

(* The pages of the page table of p, and the entries of the last level.     *)
Below(tables) == {m.pt[t][i].pa : t \in tables, i \in Entries} \ {0}
Middle(p) == Below({Root(p)})
Bottom(p) == Below(Middle(p))

(* Who refers to a page, as <<how, who, where, page>>: a slot of the table, *)
(* or an entry of a page table.  The entries of the three top pages refer   *)
(* to pages that belong to somebody else.                                   *)
RefsOf(p) ==
  {<<"pagetable", p, 0, Root(p)>>, <<"trapframe", p, 0, m.proc[p].trapframe>>,
   <<"usyscall", p, 0, m.proc[p].usyscall>>}
    \cup {<<"table", t, i, m.pt[t][i].pa>> : t \in {Root(p)} \cup Middle(p), i \in Entries}
    \cup {<<"page", p, v, PteAt(m, Root(p), v).pa>> : v \in 0..(USYSCALL - 1)}

References == UNION {RefsOf(p) : p \in {k \in Procs : InUse(k)}}

(* Whatever fork, exec, sbrk and allocproc have given up half way, every    *)
(* page is free or belongs to exactly one owner: nothing leaks, nothing is  *)
(* shared and nothing in use is free.                                       *)
FramesOwnedOnce ==
  LET refs == References
  IN \A f \in Frames :
       Cardinality({r \in refs : r[4] = f}) = IF f \in m.free THEN 0 ELSE 1

(* The books of memory are in order between two system calls.               *)
MemoryInv == TypeOK /\ FramesOwnedOnce

(* The page table of a process maps the pages below p->sz, all of them and  *)
(* no others, the page below the stack out of reach of the program, and the *)
(* three pages at the top.                                                  *)
TableShape ==
  \A p \in Procs : InUse(p) =>
    \A v \in 0..(MAXVA - 1) :
      LET q == m.proc[p]
          pte == PteAt(m, Root(p), v)
          Maps(pa, perm) == pte.pa = pa /\ pte.perm \ {"A"} = perm
      IN CASE v = TRAMPOLINE -> Maps(TrampolinePa, {"R", "X"})
           [] v = TRAPFRAME -> Maps(q.trapframe, {"R", "W"})
           [] v = USYSCALL -> Maps(q.usyscall, {"R", "U"})
           [] v < Pages(q.sz) ->
                pte.perm \ {"A"} = UserPerm \ (IF v = hist[p].guard THEN {"U"} ELSE {})
           [] OTHER -> ~Valid(pte)

(* ugetpid(): after fork and after exec the page at USYSCALL holds the pid  *)
(* of the process, unless the process itself has passed it to a system call *)
(* as a buffer: copyout does not look at PTE_W.                             *)
UsyscallHoldsPid ==
  \A p \in Procs :
    InUse(p) /\ ~hist[p].scribbled => m.data[m.proc[p].usyscall] = m.proc[p].pid

(* A page has PTE_A exactly if the program has used it since pgaccess last  *)
(* reported it, but for two things the code does to the bits: a child of    *)
(* fork finds those of its parent on the pages it has never used (uvmcopy   *)
(* copies the flags), and a pgaccess which fails takes the accesses that it *)
(* has seen with it.                                                        *)
AccessExact ==
  \A p \in Procs : InUse(p) =>
    \A v \in 0..(MAXVA - 1) :
      "A" \in PteAt(m, Root(p), v).perm <=> v \in Marked(hist[p])
-----------------------------------------------------------------------------
(* What a program looks like in memory: the content of the last segment that*)
(* reaches into a page, zeros, the guard page and the stack.                *)
LoadedImage(prog) ==
  LET Segs == Range(prog.segs)
      end == Pages(Max({s.vaddr + s.memsz : s \in Segs}))
      Reaches(s, v) == s.vaddr < (v + 1) * PGSIZE /\ s.vaddr + s.filesz > v * PGSIZE
      Text(v) == IF \E s \in Segs : Reaches(s, v)
                 THEN (CHOOSE s \in Segs : Reaches(s, v)).text ELSE Zero
  IN [v \in 0..(MaxSz - 1) |->
        IF v < end THEN Text(v)
        ELSE IF v = end THEN Zero ELSE IF v = end + 1 THEN Args ELSE Absent]

(* fork, exec, sbrk and the kernel's writes to user memory, with all their  *)
(* ways to fail, cannot be told from operations on images: in particular    *)
(* exec loads the whole program or leaves the old image as it was.          *)
Private == INSTANCE AddressSpaces
             WITH Images <- {LoadedImage(prog) : prog \in {g \in Programs : g.segs # << >>}}
ImplementsAddressSpaces == Private!Spec
=============================================================================
