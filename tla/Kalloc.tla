------------------------------- MODULE Kalloc -------------------------------
(***************************************************************************)
(* lab5-cow/kernel/kalloc.c as kernel threads call it: kalloc, kfree,      *)
(* cowalloc and kmemrc, each cut where the code releases kmem.lock or      *)
(* works without it, in every interleaving of the threads.                 *)
(*                                                                         *)
(* refs is a history variable: refs[f] is the set of threads whose         *)
(* pointer to page f is counted.  It stands for the page-table entries of  *)
(* the processes.  A thread has at most one pointer to a page, because     *)
(* uvmcopy keeps a page at its virtual address, and it shares a page only  *)
(* with a thread that is not running yet, the child that fork is making.   *)
(***************************************************************************)
EXTENDS Kmem, FiniteSets, Functions

CONSTANTS
  Threads,    (* one kernel thread for each process              *)
  Data,       (* what the holder of a page may store in it       *)
  NoFrame,    (* the pa of a thread that is not inside a call    *)
  NoThread    (* the heir of a thread that is not in cowalloc    *)

ASSUME FramesAssumption == IsFiniteSet(Frames) /\ NoFrame \notin Frames

(* NPROC is 64 and a count is at most 127 before it wraps.                 *)
ASSUME ThreadsAssumption ==
  /\ IsFiniteSet(Threads)
  /\ Cardinality(Threads) <= RcMax
  /\ NoThread \notin Threads

VARIABLES
  op,         (* op[t]: where thread t is, and with which arguments        *)
  refs        (* history variable: who holds a counted pointer to a page   *)

vars == <<freelist, mem_rc, mem, op, refs>>

Pcs == {"kalloc_fill", "kfree_drop", "kfree_fill", "kfree_push",
        "cowalloc_inc", "have_rc", "panic"}

Calls == [pc : Pcs, pa : Frames, heir : Threads \cup {NoThread}, rc : 0..RcMax]

Call(pc, pa, heir, rc) == [pc |-> pc, pa |-> pa, heir |-> heir, rc |-> rc]

Idle == Call("idle", NoFrame, NoThread, 0)

(* Thread t is at pc inside a call on page f.                              *)
At(t, pc, f) == op[t].pc = pc /\ op[t].pa = f

GoTo(t, pc, f) == op' = [op EXCEPT ![t] = Call(pc, f, NoThread, 0)]

Return(t) == op' = [op EXCEPT ![t] = Idle]

-----------------------------------------------------------------------------
(* kinit() has freed every page: the counts are 0, the pages are junk and  *)
(* the free list has each of them once, in some order.                     *)

KinitDone ==
  /\ freelist \in Bijection(1..Cardinality(Frames), Frames)
  /\ mem_rc = [f \in Frames |-> 0]
  /\ mem = [f \in Frames |-> JunkFree]

Init ==
  /\ KinitDone
  /\ op = [t \in Threads |-> Idle]
  /\ refs = [f \in Frames |-> {}]

-----------------------------------------------------------------------------
(* kalloc() *)

KallocNone(t) ==
  /\ op[t].pc = "idle"
  /\ FreelistEmpty
  /\ UNCHANGED <<mem, op, refs>>

KallocPop(t, f) ==
  /\ op[t].pc = "idle"
  /\ PopFrame(f)
  /\ refs' = [refs EXCEPT ![f] = @ \cup {t}]
  /\ GoTo(t, "kalloc_fill", f)
  /\ UNCHANGED mem

KallocFill(t, f) ==
  /\ At(t, "kalloc_fill", f)
  /\ Fill(f, JunkAlloc)
  /\ Return(t)
  /\ UNCHANGED <<freelist, mem_rc, refs>>

-----------------------------------------------------------------------------
(* kfree(pa): the check is made before the lock is taken.                  *)

KfreeCall(t, f) ==
  /\ op[t].pc = "idle"
  /\ t \in refs[f]
  /\ GoTo(t, IF BadRc(f) THEN "panic" ELSE "kfree_drop", f)
  /\ UNCHANGED <<freelist, mem_rc, mem, refs>>

KfreeShared(t, f) ==
  /\ At(t, "kfree_drop", f)
  /\ DropShared(f)
  /\ refs' = [refs EXCEPT ![f] = @ \ {t}]
  /\ Return(t)
  /\ UNCHANGED mem

(* Wrong: the count is not looked at, the page is always filled.           *)
KfreeLastUnchecked(t, f) ==
  /\ At(t, "kfree_drop", f)
  /\ GoTo(t, "kfree_fill", f)
  /\ UNCHANGED <<freelist, mem_rc, mem, refs>>

KfreeLast(t, f) ==
  /\ At(t, "kfree_drop", f)
  /\ ~Shared(f)
  /\ GoTo(t, "kfree_fill", f)
  /\ UNCHANGED <<freelist, mem_rc, mem, refs>>

KfreeFill(t, f) ==
  /\ At(t, "kfree_fill", f)
  /\ Fill(f, JunkFree)
  /\ GoTo(t, "kfree_push", f)
  /\ UNCHANGED <<freelist, mem_rc, refs>>

KfreePush(t, f) ==
  /\ At(t, "kfree_push", f)
  /\ PushFrame(f)
  /\ refs' = [refs EXCEPT ![f] = @ \ {t}]
  /\ Return(t)
  /\ UNCHANGED mem

-----------------------------------------------------------------------------
(* cowalloc(pa): thread t adds a reference that thread u, a child that     *)
(* does not run yet, will hold.  The check is made before the lock.        *)

CowallocCall(t, u, f) ==
  /\ op[t].pc = "idle"
  /\ t \in refs[f]
  /\ u \notin refs[f]
  /\ \A s \in Threads : ~(At(s, "cowalloc_inc", f) /\ op[s].heir = u)
  /\ op' = [op EXCEPT ![t] =
       Call(IF BadRc(f) THEN "panic" ELSE "cowalloc_inc", f, u, 0)]
  /\ UNCHANGED <<freelist, mem_rc, mem, refs>>

CowallocInc(t, f) ==
  /\ At(t, "cowalloc_inc", f)
  /\ AddRef(f)
  /\ refs' = [refs EXCEPT ![f] = @ \cup {op[t].heir}]
  /\ Return(t)
  /\ UNCHANGED mem

-----------------------------------------------------------------------------
(* kmemrc(pa), and the caller that goes on with the value it returned.     *)

Kmemrc(t, f) ==
  /\ op[t].pc = "idle"
  /\ t \in refs[f]
  /\ op' = [op EXCEPT ![t] = Call("have_rc", f, NoThread, ReadRc(f))]
  /\ UNCHANGED <<freelist, mem_rc, mem, refs>>

KmemrcUsed(t, f) ==
  /\ At(t, "have_rc", f)
  /\ Return(t)
  /\ UNCHANGED <<freelist, mem_rc, mem, refs>>

(* A thread that learned from kmemrc that its count is 1 stores in the     *)
(* page in place, as cow() lets it do.                                     *)
StoreInPlace(t, f, d) ==
  /\ At(t, "have_rc", f)
  /\ op[t].rc = 1
  /\ mem' = [mem EXCEPT ![f] = d]
  /\ Return(t)
  /\ UNCHANGED <<freelist, mem_rc, refs>>

-----------------------------------------------------------------------------
KallocOp(t, f) == KallocPop(t, f) \/ KallocFill(t, f)

KfreeOp(t, f) ==
  \/ KfreeCall(t, f)
  \/ KfreeShared(t, f)
  \/ KfreeLast(t, f)
  \/ KfreeFill(t, f)
  \/ KfreePush(t, f)

CowallocOp(t, f) ==
  \/ \E u \in Threads : CowallocCall(t, u, f)
  \/ CowallocInc(t, f)

KmemrcOp(t, f) ==
  \/ Kmemrc(t, f)
  \/ KmemrcUsed(t, f)
  \/ \E d \in Data : StoreInPlace(t, f, d)

Next ==
  \E t \in Threads :
    \/ KallocNone(t)
    \/ \E f \in Frames :
         KallocOp(t, f) \/ KfreeOp(t, f) \/ CowallocOp(t, f) \/ KmemrcOp(t, f)

Spec == Init /\ [][Next]_vars

-----------------------------------------------------------------------------
(* The type of every variable; a count never wraps to a negative number.   *)
TypeOK ==
  /\ freelist \in Seq(Frames)
  /\ mem_rc \in [Frames -> 0..RcMax]
  /\ mem \in [Frames -> Data \cup {JunkFree, JunkAlloc}]
  /\ op \in [Threads -> {Idle} \cup Calls]
  /\ refs \in [Frames -> SUBSET Threads]

(* A thread that is inside a call on a page has a reference to it; the     *)
(* child that cowalloc works for has none yet, and no two threads add a    *)
(* reference for the same child.                                           *)
CallersHold ==
  /\ \A t \in Threads : op[t].pc # "idle" => t \in refs[op[t].pa]
  /\ \A t \in Threads : op[t].pc = "cowalloc_inc" =>
       op[t].heir \in Threads \ refs[op[t].pa]
  /\ \A s, t \in Threads, f \in Frames :
       At(s, "cowalloc_inc", f) /\ At(t, "cowalloc_inc", f)
         /\ op[s].heir = op[t].heir => s = t

(* The count of a page is the number of pointers to it, whatever the calls *)
(* in progress are, the two critical sections of kfree included.           *)
RcExact == \A f \in Frames : mem_rc[f] = Cardinality(refs[f])

(* Counts are exact, and none has wrapped to a negative number.            *)
CountsInv == TypeOK /\ RcExact

(* The free list has no page twice, and has exactly the pages nobody       *)
(* refers to: a page is not handed out twice and none is lost.             *)
FreelistExact ==
  /\ \A i, j \in DOMAIN freelist : freelist[i] = freelist[j] => i = j
  /\ \A f \in Frames :
       (\E i \in DOMAIN freelist : freelist[i] = f) <=> refs[f] = {}

(* The unlocked checks of kfree and cowalloc never find a bad count.       *)
NoPanic == \A t \in Threads : op[t].pc # "panic"

(* Between the two critical sections of kfree, and between the critical    *)
(* section and the memset of kalloc, the lock is free and the page is      *)
(* overwritten: no other thread refers to it then.                         *)
FillIsExclusive ==
  \A t \in Threads, f \in Frames :
    (\E pc \in {"kfree_fill", "kfree_push", "kalloc_fill"} : At(t, pc, f))
      => refs[f] = {t}

(* A count of 1 that kmemrc returned to a holder is still true when the    *)
(* holder acts on it, so cow() may make the page writable in place.        *)
OneStaysOne ==
  \A t \in Threads, f \in Frames :
    At(t, "have_rc", f) /\ op[t].rc = 1 => refs[f] = {t}

(* The inductive invariant.                                                *)
IInv ==
  /\ TypeOK
  /\ CallersHold
  /\ RcExact
  /\ FreelistExact
  /\ NoPanic
  /\ FillIsExclusive
  /\ OneStaysOne

(* A page changes only in the hands of its one holder: no junk and no      *)
(* store ever reaches a page that two threads refer to, or a free page.    *)
ContentChangesAlone ==
  [][\A f \in Frames :
       mem'[f] # mem[f] =>
         \E t \in Threads : op[t].pa = f /\ refs[f] = {t}]_vars

(* A thread inside cowalloc is giving the page of the call to its heir.    *)
Giving ==
  [t \in Threads |->
     IF op[t].pc = "cowalloc_inc" THEN <<op[t].pa, op[t].heir>> ELSE NoThread]

(* The allocator does what FrameRefs promises.                             *)
Abstract == INSTANCE FrameRefs WITH owners <- refs, giving <- Giving, Nothing <- NoThread
ImplementsFrameRefs == Abstract!Spec
=============================================================================
