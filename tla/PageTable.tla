------------------------------ MODULE PageTable ------------------------------
(***************************************************************************)
(* The page tables of lab3-pgtbl/kernel/vm.c, as operators on a machine m: *)
(*   m.pt     what the pages hold, read as page tables                     *)
(*   m.data   what the pages hold, read as user memory                     *)
(*   m.free   the pages kalloc can hand out                                *)
(*   m.left   how many of them are left to this system call: the others    *)
(*            go to the other harts while it runs                          *)
(*   m.ret    what the last function returned                              *)
(*   m.panic  "no", or the message of the first panic                      *)
(* An operator takes a machine and returns the machine after the function. *)
(* Page tables are private to the process that runs, so nobody can see the *)
(* machine in between.  va and pa are page numbers; sizes are in units of  *)
(* which a page has PGSIZE.                                                *)
(***************************************************************************)
EXTENDS Integers

CONSTANTS
  NFrames,   (* physical pages                                              *)
  Fan,       (* PTEs in a page-table page, an even number (512)             *)
  PGSIZE,    (* units in a page                                             *)
  Zero,      (* a page of zeros                                             *)
  Junk       (* a page that kfree has filled                                *)

ASSUME SizeAssumption ==
  /\ NFrames \in Nat \ {0} /\ PGSIZE \in Nat \ {0}
  /\ Fan \in Nat \ {0} /\ Fan % 2 = 0

(* for(k = 0; k < n; k++) of a loop whose body takes w to Step(w, k).       *)
Loop(Step(_, _), w, n) ==
  LET after[k \in 0..n] == IF k = 0 THEN w ELSE Step(after[k - 1], k - 1)
  IN after[n]

Frames == 1..NFrames
TrampolinePa == NFrames + 1          (* kernel text, not from kalloc         *)

MAXVA == (Fan * Fan * Fan) \div 2    (* one bit less than Sv39 has           *)
TRAMPOLINE == MAXVA - 1
TRAPFRAME == TRAMPOLINE - 1
USYSCALL == TRAPFRAME - 1

(* KERNBASE + 128MB is far below MAXVA: no program can grow up to the top.  *)
ASSUME MemoryAssumption == NFrames < USYSCALL

(* The pages that an entry of a table of this level stands for.             *)
Reach(level) == IF level = 0 THEN 1 ELSE IF level = 1 THEN Fan ELSE Fan * Fan
PX(level, va) == (va \div Reach(level)) % Fan
Pages(size) == (size + PGSIZE - 1) \div PGSIZE      (* PGROUNDUP / PGSIZE    *)

Entries == 0..(Fan - 1)
NoPte == [pa |-> 0, perm |-> {}]
Valid(pte) == pte.pa # 0
IsLeaf(pte) == pte.perm \cap {"R", "W", "X"} # {}
EmptyTable == [i \in Entries |-> NoPte]
JunkTable == [i \in Entries |-> [pa |-> 1, perm |-> {"R"}]]
UserPerm == {"R", "W", "X", "U"}

Ret(m, r) == [m EXCEPT !.ret = r]
Panic(m, msg) == IF m.panic = "no" THEN [m EXCEPT !.panic = msg] ELSE m

-----------------------------------------------------------------------------
(* kalloc.c of lab3 is the one of the unmodified kernel.  Which page kalloc *)
(* returns does not matter: they are all junk.  A page that is freed twice  *)
(* would be handed out twice.                                               *)
Kalloc(m) ==
  IF m.left = 0 \/ m.free = {} THEN Ret(m, 0)
  ELSE LET f == CHOOSE f \in m.free : TRUE
       IN [m EXCEPT !.free = @ \ {f}, !.left = @ - 1, !.ret = f]

Kfree(m, f) ==
  IF f \in Frames \ m.free
  THEN [m EXCEPT !.free = @ \cup {f}, !.pt[f] = JunkTable, !.data[f] = Junk]
  ELSE Panic(m, "kfree")

Memset0(m, f) ==
  IF f = 0 THEN m ELSE [m EXCEPT !.pt[f] = EmptyTable, !.data[f] = Zero]

(* An iteration of walk: from the table w.ret, of this level, to the one    *)
(* below it, or to 0.  kalloc has returned k.ret for a table that is not    *)
(* there.                                                                   *)
LinkNew(table, level, va, k) ==
  IF k.ret = 0 THEN k
  ELSE [Memset0(k, k.ret) EXCEPT
          !.pt[table][PX(level, va)] = [pa |-> k.ret, perm |-> {}]]

Down(w, level, va, alloc) ==
  LET pte == w.pt[w.ret][PX(level, va)]
  IN IF w.ret = 0 THEN w
     ELSE IF Valid(pte) THEN Ret(w, pte.pa)
     ELSE IF alloc THEN LinkNew(w.ret, level, va, Kalloc(w)) ELSE Ret(w, 0)

(* Returns the page-table page of level 0 that holds the PTE of va, or 0.   *)
Walk(m, pagetable, va, alloc) ==
  IF va >= MAXVA THEN Ret(Panic(m, "walk"), 0)
  ELSE Down(Down(Ret(m, pagetable), 2, va, alloc), 1, va, alloc)

(* The PTE of va: *walk(pagetable, va, 0), or an invalid one.               *)
PteAt(m, pagetable, va) ==
  LET table == Walk(m, pagetable, va, FALSE).ret
  IN IF table = 0 THEN NoPte ELSE m.pt[table][PX(0, va)]

SetPteAt(m, pagetable, va, pte) ==
  LET table == Walk(m, pagetable, va, FALSE).ret
  IN IF table = 0 THEN m ELSE [m EXCEPT !.pt[table][PX(0, va)] = pte]

Walkaddr(m, pagetable, va) ==
  LET pte == IF va >= MAXVA THEN NoPte ELSE PteAt(m, pagetable, va)
  IN IF "U" \in pte.perm THEN pte.pa ELSE 0

(* The rest of mappages when walk has returned w.ret.  One page: user page  *)
(* tables are never given more at once.                                     *)
MapIn(w, va, pa, perm) ==
  IF w.ret = 0 THEN Ret(w, -1)
  ELSE IF Valid(w.pt[w.ret][PX(0, va)]) THEN Ret(Panic(w, "mappages: remap"), -1)
  ELSE [w EXCEPT !.pt[w.ret][PX(0, va)] = [pa |-> pa, perm |-> perm], !.ret = 0]

Mappages(m, pagetable, va, pa, perm) ==
  MapIn(Walk(m, pagetable, va, TRUE), va, pa, perm)

(* The rest of an iteration of uvmunmap, likewise.                          *)
UnmapIn(w, va, do_free) ==
  LET pte == w.pt[w.ret][PX(0, va)]
  IN IF w.ret = 0 THEN Panic(w, "uvmunmap: walk")
     ELSE IF ~Valid(pte) THEN Panic(w, "uvmunmap: not mapped")
     ELSE IF pte.perm = {} THEN Panic(w, "uvmunmap: not a leaf")
     ELSE [(IF do_free THEN Kfree(w, pte.pa) ELSE w) EXCEPT
             !.pt[w.ret][PX(0, va)] = NoPte]

Uvmunmap(m, pagetable, va, npages, do_free) ==
  Loop(LAMBDA w, k : UnmapIn(Walk(w, pagetable, va + k, FALSE), va + k, do_free),
       m, npages)

Uvmcreate(m) == LET k == Kalloc(m) IN Memset0(k, k.ret)

Uvmdealloc(m, pagetable, oldsz, newsz) ==
  IF newsz >= oldsz THEN Ret(m, oldsz)
  ELSE Ret(Uvmunmap(m, pagetable, Pages(newsz), Pages(oldsz) - Pages(newsz), TRUE),
           newsz)

(* Give back mem, a page that was allocated and could not be mapped, or 0.  *)
GiveBack(m, mem) == IF mem = 0 THEN m ELSE Kfree(m, mem)

(* Wrong: the page that could not be mapped is lost.                        *)
UvmallocFailsLeaks(m, pagetable, a, oldsz, mem) ==
  Ret(Uvmdealloc(m, pagetable, a * PGSIZE, oldsz), 0)

UvmallocFails(m, pagetable, a, oldsz, mem) ==
  Ret(Uvmdealloc(GiveBack(m, mem), pagetable, a * PGSIZE, oldsz), 0)

(* kalloc has returned k.ret; a page that is there is cleared and mapped.   *)
MapNew(k, pagetable, a) ==
  IF k.ret = 0 THEN Ret(k, -1)
  ELSE Mappages(Memset0(k, k.ret), pagetable, a, k.ret, UserPerm)

(* An iteration of uvmalloc, for page a: mem is what kalloc has returned and*)
(* w the machine after mappages.                                            *)
AddPage(w, pagetable, a, oldsz, newsz, mem) ==
  IF w.ret = 0 THEN Ret(w, newsz) ELSE UvmallocFails(w, pagetable, a, oldsz, mem)

(* kalloc has returned k.ret, for page a.                                   *)
MapOrFail(k, pagetable, a, oldsz, newsz) ==
  AddPage(MapNew(k, pagetable, a), pagetable, a, oldsz, newsz, k.ret)

Uvmalloc(m, pagetable, oldsz, newsz) ==
  IF newsz < oldsz THEN Ret(m, oldsz)
  ELSE Loop(LAMBDA w, k :
              IF w.ret = 0 THEN w
              ELSE MapOrFail(Kalloc(w), pagetable, Pages(oldsz) + k, oldsz, newsz),
            Ret(m, newsz), Pages(newsz) - Pages(oldsz))

(* freewalk of a table, where Sub is freewalk of the tables below it: the   *)
(* recursion ends at level 0, which has leaves or nothing.                  *)
FreeTable(m, pagetable, Sub(_, _)) ==
  LET Entry(w, i) ==
        LET pte == w.pt[pagetable][i]
        IN IF ~Valid(pte) THEN w
           ELSE IF IsLeaf(pte) THEN Panic(w, "freewalk: leaf")
           ELSE [Sub(w, pte.pa) EXCEPT !.pt[pagetable][i] = NoPte]
  IN Kfree(Loop(Entry, m, Fan), pagetable)

NoFourthLevel(w, pagetable) == Panic(w, "freewalk: below level 0")
FreeLevel0(m, pagetable) == FreeTable(m, pagetable, NoFourthLevel)
FreeLevel1(m, pagetable) == FreeTable(m, pagetable, FreeLevel0)
Freewalk(m, pagetable) == FreeTable(m, pagetable, FreeLevel1)

Uvmfree(m, pagetable, sz) ==
  Freewalk(Uvmunmap(m, pagetable, 0, Pages(sz), TRUE), pagetable)

(* Wrong: the pages copied before the failure stay in the new page table.   *)
UvmcopyErrKeeps(m, new, i, mem) == Ret(GiveBack(m, mem), -1)

UvmcopyErr(m, new, i, mem) == Ret(Uvmunmap(GiveBack(m, mem), new, 0, i, TRUE), -1)

(* kalloc has returned k.ret; a page that is there gets the content of the  *)
(* page of pte and is mapped likewise.                                      *)
MapCopy(k, new, i, pte) ==
  IF k.ret = 0 THEN Ret(k, -1)
  ELSE Mappages([k EXCEPT !.data[k.ret] = k.data[pte.pa]], new, i, k.ret, pte.perm)

CopyPage(w, new, i, mem) == IF w.ret = 0 THEN w ELSE UvmcopyErr(w, new, i, mem)

(* kalloc has returned k.ret, for page i.                                   *)
CopyOrFail(k, old, new, i) == CopyPage(MapCopy(k, new, i, PteAt(k, old, i)), new, i, k.ret)

Uvmcopy(m, old, new, sz) ==
  Loop(LAMBDA w, i :
         IF w.ret # 0 THEN w
         ELSE IF ~Valid(PteAt(w, old, i)) THEN Panic(w, "uvmcopy: page not present")
         ELSE CopyOrFail(Kalloc(w), old, new, i),
       Ret(m, 0), Pages(sz))

(* Wrong: the guard page stays in reach of the program.                     *)
UvmclearNothing(m, pagetable, va) == m

Uvmclear(m, pagetable, va) ==
  LET w == Walk(m, pagetable, va, FALSE)
  IN IF w.ret = 0 THEN Panic(m, "uvmclear")
     ELSE [m EXCEPT !.pt[w.ret][PX(0, va)].perm = @ \ {"U"}]

(* A copyout that stays within one page.                                    *)
Copyout(m, pagetable, va, d) ==
  LET pa == Walkaddr(m, pagetable, va)
  IN IF pa = 0 THEN Ret(m, -1) ELSE Ret([m EXCEPT !.data[pa] = d], 0)
=============================================================================
