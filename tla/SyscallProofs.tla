---------------------------- MODULE SyscallProofs ----------------------------
(***************************************************************************)
(* Proofs about Syscall, for any number of slots, any memory, any pages    *)
(* per process and any masks: trace and sysinfo answer what they should    *)
(* while other processes fork, exit and wait, and no page is lost.         *)
(***************************************************************************)
EXTENDS Syscall, FiniteSetTheorems, TLAPS

Forking == {"fork_pages", "fork_free", "fork_parent", "fork_run"}
Copied == {"fork_parent", "fork_run"}

(* Only a running process is in the kernel; sysinfo begins at zero.        *)
ThreadOK(p) ==
  /\ At(p, "user") => th[p] = User
  /\ ~At(p, "user") => state[p] = "RUNNABLE" /\ th[p].num \in Calls
  /\ At(p, "kavail") => th[p].freemem = 0
  /\ th[p].pc \in {"kavail", "kavail_walk"} => th[p].i = 1 /\ th[p].nproc = 0

(* The slot that fork fills or wait frees is nobody else's.                *)
ForkOK(p) ==
  LET np == th[p].np
  IN /\ th[p].pc \in Forking =>
          np \in Procs /\ state[np] = "USED" /\ asked[np] = asked[p]
     /\ th[p].pc \in Copied =>
          pages[np] = PagesPerProc /\ trace_mask[np] = asked[np]
     /\ At(p, "wait_free") => np \in Procs /\ state[np] = "ZOMBIE"

ChildrenDiffer ==
  \A p, q \in Procs :
    p # q /\ th[p].pc \in Forking /\ th[q].pc \in Forking => th[p].np # th[q].np

OneReaper == \A p, q \in Procs : At(p, "wait_free") /\ At(q, "wait_free") => p = q

(* A process that runs has the mask that was asked for.                    *)
MaskKept == \A p \in Procs : state[p] = "RUNNABLE" => trace_mask[p] = asked[p]

LockHeld == \A p \in Procs : kmem_lock = p <=> At(p, "kavail_walk")

(* What was there all the time is there now, and what is there was there.  *)
WatchOK ==
  \A p \in Procs : At(p, "count") => always[p] \subseteq InUse /\ InUse \subseteq ever[p]

(* The types of what the system has, and of the history variables.         *)
Thread == [pc : Pcs, num : Calls \cup {"none"}, np : Procs \cup {Nobody},
           i : 1..(NPROC + 1), r : 0..NPages, freemem : 0..NPages, nproc : 0..NPROC]

SystemTypeOK ==
  /\ state \in [Procs -> {"UNUSED", "USED", "RUNNABLE", "ZOMBIE"}]
  /\ parent \in [Procs -> Procs \cup {Nobody}]
  /\ trace_mask \in [Procs -> SUBSET Calls]
  /\ pages \in [Procs -> 0..PagesPerProc]
  /\ nfree \in 0..NPages
  /\ kmem_lock \in Procs \cup {Nobody}
  /\ th \in [Procs -> Thread]
  /\ asked \in [Procs -> SUBSET Calls]

System ==
  /\ SystemTypeOK
  /\ \A p \in Procs : ThreadOK(p) /\ ForkOK(p)
  /\ ChildrenDiffer
  /\ OneReaper
  /\ MaskKept
  /\ LockHeld
  /\ PagesConserved
  /\ FreememExact

History ==
  /\ always \in [Procs -> SUBSET Procs] /\ ever \in [Procs -> SUBSET Procs]
  /\ last \in {NoLine} \cup [who : Procs, num : Calls, line : BOOLEAN]
  /\ WatchOK
  /\ NprocBounded

IInv == System /\ History

-----------------------------------------------------------------------------
LEMMA TypeFacts == IInv => TypeOK
BY DEF IInv, System, History, SystemTypeOK, Thread, TypeOK

LEMMA SlotFacts ==
  /\ Procs \subseteq Nat \ {0} /\ 1 \in Procs /\ Nobody \notin Procs
  /\ IsFiniteSet(Procs) /\ NPROC \in Nat /\ PagesPerProc \in Nat /\ NPages \in Nat
<1>1. IsFiniteSet(Procs)
  BY FS_Interval, SizesAssumption DEF Procs
<1> QED BY <1>1, SizesAssumption DEF Procs, Nobody

LEMMA UserFacts ==
  /\ User \in Thread
  /\ User.pc = "user" /\ User.i = 1 /\ User.nproc = 0 /\ User.freemem = 0
BY SlotFacts DEF User, Thread, Pcs

(* A step of thread p and of no other.                                     *)
Moves(p, r) == th' = [th EXCEPT ![p] = r]

LEMMA OneThread ==
  ASSUME SystemTypeOK, NEW p \in Procs, NEW r \in Thread, Moves(p, r)
  PROVE  /\ th' \in [Procs -> Thread]
         /\ th'[p] = r
         /\ \A q \in Procs : q # p => th'[q] = th[q]
BY DEF SystemTypeOK, Moves

(* The pages that hang from the slots are finitely many.                   *)
LEMMA HeldFinite ==
  IsFiniteSet(Held) /\ Cardinality(Held) \in Nat
<1>1. IsFiniteSet(1..PagesPerProc)
  BY FS_Interval, SlotFacts
<1>2. IsFiniteSet(Procs \X (1..PagesPerProc))
  BY <1>1, SlotFacts, FS_Product
<1>3. Held \subseteq Procs \X (1..PagesPerProc)
  BY DEF Held
<1>4. IsFiniteSet(Held)
  BY <1>2, <1>3, FS_Subset
<1> QED BY <1>4, FS_CardinalityType

LEMMA HeldGrows ==
  ASSUME SystemTypeOK, NEW np \in Procs, pages[np] < PagesPerProc,
         pages' = [pages EXCEPT ![np] = @ + 1]
  PROVE  /\ Cardinality(Held') = Cardinality(Held) + 1
         /\ pages' \in [Procs -> 0..PagesPerProc]
<1> DEFINE new == <<np, pages[np] + 1>>
<1>1. pages \in [Procs -> 0..PagesPerProc] /\ pages[np] \in Nat /\ pages[np] + 1 \in 1..PagesPerProc
  BY SlotFacts DEF SystemTypeOK
<1>2. \A q \in Procs : pages'[q] = IF q = np THEN pages[np] + 1 ELSE pages[q]
  BY <1>1
<1>3. Held' = {held \in Procs \X (1..PagesPerProc) : held[2] <= pages'[held[1]]}
  BY DEF Held
<1>4. new \notin Held
  BY <1>1 DEF Held
<1>5. ASSUME NEW held \in Procs \X (1..PagesPerProc)
      PROVE  held \in Held' <=> held \in Held \cup {new}
  <2>1. PICK q \in Procs, k \in 1..PagesPerProc : held = <<q, k>>
    OBVIOUS
  <2>2. k \in Nat /\ pages[q] \in Nat
    BY <1>1, <2>1, SlotFacts
  <2>3. held \in Held' <=> k <= pages'[q]
    BY <1>3, <2>1
  <2>4. held \in Held <=> k <= pages[q]
    BY <2>1 DEF Held
  <2>5. held = new <=> q = np /\ k = pages[np] + 1
    BY <2>1
  <2> QED BY <1>1, <1>2, <2>2, <2>3, <2>4, <2>5
<1>6. new \in Procs \X (1..PagesPerProc) /\ Held \subseteq Procs \X (1..PagesPerProc)
      /\ Held' \subseteq Procs \X (1..PagesPerProc)
  BY <1>1, <1>3 DEF Held
<1>7. Held' = Held \cup {new}
  BY <1>5, <1>6
<1>8. pages' \in [Procs -> 0..PagesPerProc]
  BY <1>1, SlotFacts
<1> QED BY <1>4, <1>7, <1>8, HeldFinite, FS_AddElement

LEMMA HeldShrinks ==
  ASSUME SystemTypeOK, NEW np \in Procs, pages[np] > 0,
         pages' = [pages EXCEPT ![np] = @ - 1]
  PROVE  /\ Cardinality(Held') = Cardinality(Held) - 1
         /\ pages' \in [Procs -> 0..PagesPerProc]
<1> DEFINE old == <<np, pages[np]>>
<1>1. pages \in [Procs -> 0..PagesPerProc] /\ pages[np] \in 1..PagesPerProc
  BY SlotFacts DEF SystemTypeOK
<1>2. \A q \in Procs : pages'[q] = IF q = np THEN pages[np] - 1 ELSE pages[q]
  BY <1>1
<1>3. Held' = {held \in Procs \X (1..PagesPerProc) : held[2] <= pages'[held[1]]}
  BY DEF Held
<1>4. old \in Held
  BY <1>1, SlotFacts DEF Held
<1>5. ASSUME NEW held \in Procs \X (1..PagesPerProc)
      PROVE  held \in Held' <=> held \in Held \ {old}
  <2>1. PICK q \in Procs, k \in 1..PagesPerProc : held = <<q, k>>
    OBVIOUS
  <2>2. k \in Nat /\ pages[q] \in Nat
    BY <1>1, <2>1, SlotFacts
  <2>3. held \in Held' <=> k <= pages'[q]
    BY <1>3, <2>1
  <2>4. held \in Held <=> k <= pages[q]
    BY <2>1 DEF Held
  <2>5. held = old <=> q = np /\ k = pages[np]
    BY <2>1
  <2> QED BY <1>1, <1>2, <2>2, <2>3, <2>4, <2>5
<1>6. Held \subseteq Procs \X (1..PagesPerProc) /\ Held' \subseteq Procs \X (1..PagesPerProc)
  BY <1>3 DEF Held
<1>7. Held' = Held \ {old}
  BY <1>5, <1>6
<1>8. pages' \in [Procs -> 0..PagesPerProc]
  BY <1>1, SlotFacts
<1> QED BY <1>4, <1>7, <1>8, HeldFinite, FS_RemoveElement

-----------------------------------------------------------------------------
(* What keeps the parts of the invariant through a step of somebody else.  *)
LEMMA ThreadKeeps ==
  ASSUME NEW q, ThreadOK(q), th'[q] = th[q],
         state[q] = "RUNNABLE" => state'[q] = "RUNNABLE"
  PROVE  ThreadOK(q)'
BY DEF ThreadOK, At

LEMMA ForkKeeps ==
  ASSUME NEW q, ForkOK(q), th'[q] = th[q],
         th[q].pc \in Forking =>
           /\ state'[th[q].np] = state[th[q].np]
           /\ asked'[th[q].np] = asked[th[q].np] /\ asked'[q] = asked[q],
         th[q].pc \in Copied =>
           /\ pages'[th[q].np] = pages[th[q].np]
           /\ trace_mask'[th[q].np] = trace_mask[th[q].np],
         At(q, "wait_free") => state'[th[q].np] = state[th[q].np]
  PROVE  ForkOK(q)'
<1>1. Copied \subseteq Forking
  BY DEF Copied, Forking
<1> QED BY <1>1 DEF ForkOK, At

(* A step outside of kavail that leaves the free list alone.               *)
LEMMA LockKeeps ==
  ASSUME System, NEW p \in Procs, NEW r \in Thread, Moves(p, r),
         ~At(p, "kavail_walk"), r.pc # "kavail_walk",
         kmem_lock' = kmem_lock, nfree' = nfree
  PROVE  LockHeld' /\ FreememExact'
<1>1. th'[p] = r /\ \A q \in Procs : q # p => th'[q] = th[q]
  BY OneThread DEF System
<1> QED BY <1>1 DEF System, LockHeld, FreememExact, At

(* A step that changes nothing but a thread, its locks and parents.        *)
LEMMA QuietStep ==
  ASSUME System, NEW p \in Procs, NEW r \in Thread, Moves(p, r),
         UNCHANGED <<state, trace_mask, pages, nfree, asked>>,
         parent' \in [Procs -> Procs \cup {Nobody}],
         kmem_lock' \in Procs \cup {Nobody},
         ThreadOK(p)', ForkOK(p)', LockHeld', FreememExact',
         r.pc \in Forking => th[p].pc \in Forking /\ r.np = th[p].np,
         r.pc = "wait_free" => \A q \in Procs : ~At(q, "wait_free")
  PROVE  System'
<1>1. th' \in [Procs -> Thread] /\ th'[p] = r /\ \A q \in Procs : q # p => th'[q] = th[q]
  BY OneThread DEF System
<1>2. SystemTypeOK'
  BY <1>1 DEF System, SystemTypeOK
<1>3. ASSUME NEW q \in Procs, q # p PROVE ThreadOK(q)' /\ ForkOK(q)'
  <2>1. ThreadOK(q)'
    BY <1>1, <1>3, ThreadKeeps DEF System
  <2>2. ForkOK(q)'
    BY <1>1, <1>3, ForkKeeps DEF System
  <2> QED BY <2>1, <2>2
<1>4. ChildrenDiffer'
  BY <1>1 DEF System, ChildrenDiffer
<1>5. OneReaper'
  BY <1>1 DEF System, OneReaper, At
<1>6. MaskKept' /\ PagesConserved'
  BY DEF System, MaskKept, PagesConserved, Held
<1> QED BY <1>2, <1>3, <1>4, <1>5, <1>6 DEF System

LEMMA PlainStep ==
  ASSUME System, NEW p \in Procs, NEW r \in Thread, Moves(p, r),
         UNCHANGED <<state, trace_mask, pages, nfree, kmem_lock, asked>>,
         parent' \in [Procs -> Procs \cup {Nobody}],
         ThreadOK(p)', ForkOK(p)',
         ~At(p, "kavail_walk"), r.pc # "kavail_walk",
         r.pc \in Forking => th[p].pc \in Forking /\ r.np = th[p].np,
         r.pc = "wait_free" => \A q \in Procs : ~At(q, "wait_free")
  PROVE  System'
<1>1. LockHeld' /\ FreememExact'
  BY LockKeeps
<1>2. kmem_lock' \in Procs \cup {Nobody}
  BY DEF System, SystemTypeOK
<1> QED BY <1>1, <1>2, QuietStep

(* What proc_count does is all that happens to a thread that counts.       *)
CountMoves(p) ==
  \A q \in Procs : th'[q].pc = "count" =>
    \/ At(q, "count") /\ th'[q] = th[q]
    \/ ~At(q, "count") /\ th'[q].i = 1 /\ th'[q].nproc = 0
    \/ q = p /\ Count(p)

LEMMA CountMovesOne ==
  ASSUME System, NEW p \in Procs, NEW r \in Thread, Moves(p, r),
         r.pc = "count" => ~At(p, "count") /\ r.i = 1 /\ r.nproc = 0
  PROVE  CountMoves(p)
<1>1. th'[p] = r /\ \A q \in Procs : q # p => th'[q] = th[q]
  BY OneThread DEF System
<1> QED BY <1>1 DEF CountMoves, At

-----------------------------------------------------------------------------
(* The steps that change nothing but the thread.                           *)
LEMMA EnterStep ==
  ASSUME System, NEW p \in Procs, NEW num \in Calls, Enter(p, num)
  PROVE  System' /\ CountMoves(p)
<1>1. PICK r : r = [th[p] EXCEPT !.pc = Entry[num], !.num = num]
  OBVIOUS
<1>2. th[p] = User /\ At(p, "user") /\ state[p] = "RUNNABLE"
  BY DEF System, ThreadOK, Enter
<1>3. Entry[num] \in {"fork", "exit", "wait", "trace", "kavail", "ret"}
  BY DEF Entry, Calls
<1>4. r \in Thread /\ r.pc = Entry[num] /\ r.num = num /\ r.i = 1 /\ r.nproc = 0 /\ r.freemem = 0
  BY <1>1, <1>2, <1>3, UserFacts DEF Thread, Pcs
<1>5. Moves(p, r)
  BY <1>1 DEF Enter, Moves, System, SystemTypeOK
<1>6. th'[p] = r
  BY <1>4, <1>5, OneThread DEF System
<1>7. ThreadOK(p)'
  BY <1>2, <1>3, <1>4, <1>6 DEF ThreadOK, At, Enter
<1>8. ForkOK(p)'
  BY <1>3, <1>4, <1>6 DEF ForkOK, At, Forking, Copied
<1>9. parent' \in [Procs -> Procs \cup {Nobody}]
  BY DEF Enter, System, SystemTypeOK
<1>10. r.pc \notin {"count", "kavail_walk", "wait_free"} \cup Forking
  BY <1>3, <1>4 DEF Forking
<1>11. UNCHANGED <<state, trace_mask, pages, nfree, kmem_lock, asked>>
  BY DEF Enter
<1>12. System'
  BY <1>2, <1>4, <1>5, <1>7, <1>8, <1>9, <1>10, <1>11, PlainStep DEF At
<1> QED BY <1>4, <1>5, <1>10, <1>12, CountMovesOne

(* A thread that goes on to somewhere else without anything in its hands.  *)
LEMMA GoToStep ==
  ASSUME System, NEW p \in Procs, NEW pc \in Pcs, GoTo(p, pc),
         UNCHANGED <<state, trace_mask, pages, nfree, kmem_lock, asked>>,
         parent' \in [Procs -> Procs \cup {Nobody}],
         ~At(p, "user"), ~At(p, "kavail_walk"),
         pc \notin {"user", "kavail", "kavail_walk", "count", "wait_free"},
         pc \in Forking => th[p].pc \in Forking,
         pc \in Copied => th[p].pc \in Copied
  PROVE  System' /\ CountMoves(p)
<1>1. PICK r : r = [th[p] EXCEPT !.pc = pc]
  OBVIOUS
<1>2. th[p] \in Thread
  BY DEF System, SystemTypeOK
<1>3. r \in Thread /\ r.pc = pc /\ r.num = th[p].num /\ r.np = th[p].np
  BY <1>1, <1>2 DEF Thread
<1>4. Moves(p, r)
  BY <1>1 DEF GoTo, Moves, System, SystemTypeOK
<1>5. th'[p] = r
  BY <1>3, <1>4, OneThread DEF System
<1>6. ThreadOK(p)'
  BY <1>3, <1>5 DEF ThreadOK, At, System
<1>7. ForkOK(p)'
  BY <1>3, <1>5 DEF ForkOK, At, System
<1>8. System'
  BY <1>3, <1>4, <1>6, <1>7, PlainStep
<1> QED BY <1>3, <1>4, <1>8, CountMovesOne

LEMMA PlainSteps ==
  ASSUME System, NEW p \in Procs,
         \/ CountDone(p) \/ ForkNoSlot(p) \/ ForkNoPage(p) \/ WaitNoChild(p)
  PROVE  System' /\ CountMoves(p)
<1>1. "ret" \in Pcs /\ "fork_free" \in Pcs
  BY DEF Pcs
<1>2. UNCHANGED <<state, trace_mask, pages, nfree, kmem_lock, asked>>
      /\ parent' \in [Procs -> Procs \cup {Nobody}]
  BY DEF CountDone, ForkNoSlot, ForkNoPage, WaitNoChild, System, SystemTypeOK
<1>3. CASE CountDone(p) \/ ForkNoSlot(p) \/ WaitNoChild(p)
  BY <1>1, <1>2, <1>3, GoToStep DEF CountDone, ForkNoSlot, WaitNoChild, At, Forking, Copied
<1>4. CASE ForkNoPage(p)
  BY <1>1, <1>2, <1>4, GoToStep DEF ForkNoPage, At, Forking, Copied
<1> QED BY <1>3, <1>4

LEMMA ForkParentStep ==
  ASSUME System, NEW p \in Procs, ForkParent(p)
  PROVE  System' /\ CountMoves(p)
<1>1. "fork_run" \in Pcs /\ "fork_run" \in Copied /\ Copied \subseteq Forking
  BY DEF Pcs, Copied, Forking
<1>2. parent' \in [Procs -> Procs \cup {Nobody}]
  BY DEF ForkParent, System, SystemTypeOK
<1>3. th[p].pc \in Copied
  BY DEF ForkParent, At, Copied
<1> QED BY <1>1, <1>2, <1>3, GoToStep DEF ForkParent, At

LEMMA ReturnStep ==
  ASSUME System, NEW p \in Procs, Return(p)
  PROVE  System' /\ CountMoves(p)
<1>1. Moves(p, User) /\ User \in Thread
  BY UserFacts DEF Return, Moves
<1>2. th'[p] = User
  BY <1>1, OneThread DEF System
<1>3. ThreadOK(p)' /\ ForkOK(p)'
  BY <1>2, UserFacts DEF ThreadOK, ForkOK, At, Forking, Copied
<1>4. parent' \in [Procs -> Procs \cup {Nobody}]
  BY DEF Return, System, SystemTypeOK
<1>5. User.pc \notin {"count", "kavail_walk", "wait_free"} \cup Forking
  BY UserFacts DEF Forking
<1>6. UNCHANGED <<state, trace_mask, pages, nfree, kmem_lock, asked>> /\ ~At(p, "kavail_walk")
  BY DEF Return, At
<1>7. System'
  BY <1>1, <1>3, <1>4, <1>5, <1>6, PlainStep
<1> QED BY <1>1, <1>5, <1>7, CountMovesOne

LEMMA WaitStep ==
  ASSUME System, NEW p \in Procs, Wait(p)
  PROVE  System' /\ CountMoves(p)
<1>1. PICK np \in Procs :
        /\ At(p, "wait") /\ WaitLockFree
        /\ parent[np] = p /\ state[np] = "ZOMBIE"
        /\ th' = [th EXCEPT ![p].pc = "wait_free", ![p].np = np]
        /\ UNCHANGED <<state, parent, trace_mask, pages, nfree, kmem_lock, asked>>
  BY DEF Wait
<1>2. PICK r : r = [th[p] EXCEPT !.pc = "wait_free", !.np = np]
  OBVIOUS
<1>3. r \in Thread /\ r.pc = "wait_free" /\ r.np = np /\ r.num = th[p].num
  BY ZenonT(60), <1>2 DEF System, SystemTypeOK, Thread, Pcs
<1>4. Moves(p, r)
  BY <1>1, <1>2 DEF Moves, System, SystemTypeOK
<1>5. th'[p] = r
  BY <1>3, <1>4, OneThread DEF System
<1>6. ThreadOK(p)'
  BY <1>1, <1>3, <1>5 DEF ThreadOK, At, System
<1>7. ForkOK(p)'
  BY <1>1, <1>3, <1>5 DEF ForkOK, At, Forking, Copied
<1>8. parent' \in [Procs -> Procs \cup {Nobody}]
  BY <1>1 DEF System, SystemTypeOK
<1>9. r.pc \notin {"count", "kavail_walk"} \cup Forking /\ ~At(p, "kavail_walk")
  BY <1>1, <1>3 DEF Forking, At
<1>10. \A q \in Procs : ~At(q, "wait_free")
  BY <1>1 DEF WaitLockFree
<1>11. System'
  BY <1>1, <1>3, <1>4, <1>6, <1>7, <1>8, <1>9, <1>10, PlainStep
<1> QED BY <1>3, <1>4, <1>9, <1>11, CountMovesOne

-----------------------------------------------------------------------------
(* sysinfo.                                                                *)
LEMMA KavailStartStep ==
  ASSUME System, NEW p \in Procs, KavailStart(p)
  PROVE  System' /\ CountMoves(p)
<1>1. PICK r : r = [th[p] EXCEPT !.pc = "kavail_walk", !.r = nfree]
  OBVIOUS
<1>2. th[p] \in Thread /\ th[p].freemem = 0 /\ th[p].i = 1 /\ th[p].nproc = 0 /\ nfree \in 0..NPages
  BY DEF System, SystemTypeOK, ThreadOK, KavailStart, At
<1>3. /\ r \in Thread /\ r.pc = "kavail_walk" /\ r.r = nfree /\ r.num = th[p].num
      /\ r.freemem = 0 /\ r.i = 1 /\ r.nproc = 0
  BY <1>1, <1>2 DEF Thread, Pcs
<1>4. Moves(p, r)
  BY <1>1 DEF KavailStart, Moves, System, SystemTypeOK
<1>5. th'[p] = r /\ \A q \in Procs : q # p => th'[q] = th[q]
  BY <1>3, <1>4, OneThread DEF System
<1>6. ThreadOK(p)'
  BY <1>3, <1>5 DEF ThreadOK, At, System, KavailStart
<1>7. ForkOK(p)'
  BY <1>3, <1>5 DEF ForkOK, At, Forking, Copied
<1>8. LockHeld'
  <2>1. \A q \in Procs : ~At(q, "kavail_walk")
    BY SlotFacts DEF System, LockHeld, KavailStart
  <2> QED BY <1>3, <1>5, <2>1 DEF LockHeld, At, KavailStart
<1>9. FreememExact'
  <2>1. \A q \in Procs : ~At(q, "kavail_walk")
    BY SlotFacts DEF System, LockHeld, KavailStart
  <2>2. nfree' = nfree /\ 0 + nfree = nfree
    BY <1>2, SlotFacts DEF KavailStart
  <2> QED BY <1>3, <1>5, <2>1, <2>2 DEF FreememExact, At
<1>10. UNCHANGED <<state, parent, trace_mask, pages, nfree, asked>> /\ kmem_lock' = p
  BY DEF KavailStart
<1>11. parent' \in [Procs -> Procs \cup {Nobody}]
  BY <1>10 DEF System, SystemTypeOK
<1>12. r.pc \notin {"count", "wait_free"} \cup Forking
  BY <1>3 DEF Forking
<1>13. System'
  BY <1>3, <1>4, <1>6, <1>7, <1>8, <1>9, <1>10, <1>11, <1>12, QuietStep
<1> QED BY <1>3, <1>4, <1>12, <1>13, CountMovesOne

LEMMA KavailWalkStep ==
  ASSUME System, NEW p \in Procs, KavailWalk(p)
  PROVE  System' /\ CountMoves(p)
<1>1. PICK r : r = [th[p] EXCEPT !.freemem = @ + 1, !.r = @ - 1]
  OBVIOUS
<1>2. /\ th[p] \in Thread /\ th[p].pc = "kavail_walk" /\ th[p].i = 1 /\ th[p].nproc = 0
      /\ nfree \in 0..NPages
      /\ th[p].freemem \in Nat /\ th[p].r \in Nat /\ th[p].r > 0 /\ th[p].freemem + th[p].r = nfree
  <2>1. th[p] \in Thread /\ nfree \in 0..NPages
    BY DEF System, SystemTypeOK
  <2>2. th[p].freemem \in Nat /\ th[p].r \in Nat
    BY <2>1, SlotFacts DEF Thread
  <2> QED BY <2>1, <2>2 DEF System, ThreadOK, KavailWalk, At, FreememExact
<1>3. th[p].freemem + 1 \in 0..NPages /\ th[p].r - 1 \in 0..NPages
  BY <1>2, SlotFacts
<1>4. /\ r \in Thread /\ r.pc = "kavail_walk" /\ r.r = th[p].r - 1 /\ r.num = th[p].num
      /\ r.freemem = th[p].freemem + 1 /\ r.i = 1 /\ r.nproc = 0
  BY <1>1, <1>2, <1>3 DEF Thread
<1>5. Moves(p, r)
  BY <1>1 DEF KavailWalk, Moves, System, SystemTypeOK
<1>6. th'[p] = r /\ \A q \in Procs : q # p => th'[q] = th[q]
  BY <1>4, <1>5, OneThread DEF System
<1>7. UNCHANGED <<state, parent, trace_mask, pages, nfree, kmem_lock, asked>>
  BY DEF KavailWalk
<1>8. ThreadOK(p)'
  BY <1>2, <1>4, <1>6, <1>7 DEF ThreadOK, At, System
<1>9. ForkOK(p)'
  BY <1>4, <1>6 DEF ForkOK, At, Forking, Copied
<1>10. LockHeld'
  BY <1>2, <1>4, <1>6, <1>7 DEF System, LockHeld, At
<1>11. FreememExact'
  <2>1. (th[p].freemem + 1) + (th[p].r - 1) = nfree
    BY <1>2
  <2> QED BY <1>4, <1>6, <1>7, <2>1 DEF System, FreememExact, At
<1>12. parent' \in [Procs -> Procs \cup {Nobody}] /\ kmem_lock' \in Procs \cup {Nobody}
  BY <1>7 DEF System, SystemTypeOK
<1>13. r.pc \notin {"count", "wait_free"} \cup Forking
  BY <1>4 DEF Forking
<1>14. System'
  BY <1>4, <1>5, <1>7, <1>8, <1>9, <1>10, <1>11, <1>12, <1>13, QuietStep
<1> QED BY <1>4, <1>5, <1>13, <1>14, CountMovesOne

LEMMA KavailDoneStep ==
  ASSUME System, NEW p \in Procs, KavailDone(p)
  PROVE  System' /\ CountMoves(p)
<1>1. PICK r : r = [th[p] EXCEPT !.pc = "count"]
  OBVIOUS
<1>2. /\ th[p] \in Thread /\ th[p].pc = "kavail_walk" /\ th[p].i = 1 /\ th[p].nproc = 0
  BY DEF System, SystemTypeOK, ThreadOK, KavailDone, At
<1>3. r \in Thread /\ r.pc = "count" /\ r.num = th[p].num /\ r.i = 1 /\ r.nproc = 0
  BY <1>1, <1>2 DEF Thread, Pcs
<1>4. Moves(p, r)
  BY <1>1 DEF KavailDone, GoTo, Moves, System, SystemTypeOK
<1>5. th'[p] = r /\ \A q \in Procs : q # p => th'[q] = th[q]
  BY <1>3, <1>4, OneThread DEF System
<1>6. UNCHANGED <<state, parent, trace_mask, pages, nfree, asked>> /\ kmem_lock' = Nobody
  BY DEF KavailDone
<1>7. ThreadOK(p)'
  BY <1>2, <1>3, <1>5, <1>6 DEF ThreadOK, At, System
<1>8. ForkOK(p)'
  BY <1>3, <1>5 DEF ForkOK, At, Forking, Copied
<1>9. \A q \in Procs : ~At(q, "kavail_walk")'
  BY <1>2, <1>3, <1>5 DEF System, LockHeld, At
<1>10. LockHeld' /\ FreememExact'
  BY <1>6, <1>9, SlotFacts DEF LockHeld, FreememExact
<1>11. parent' \in [Procs -> Procs \cup {Nobody}] /\ kmem_lock' \in Procs \cup {Nobody}
  BY <1>6 DEF System, SystemTypeOK
<1>12. r.pc # "wait_free" /\ r.pc \notin Forking /\ ~At(p, "count")
  BY <1>2, <1>3 DEF Forking, At
<1>13. System'
  BY <1>3, <1>4, <1>6, <1>7, <1>8, <1>10, <1>11, <1>12, QuietStep
<1> QED BY <1>3, <1>4, <1>12, <1>13, CountMovesOne

(* What a slot has been seen by: nobody counts above the cursor.           *)
LEMMA SeenFacts ==
  ASSUME NEW S \in SUBSET Procs, NEW i \in 1..(NPROC + 1)
  PROVE  /\ IsFiniteSet(S \cap 1..(i - 1))
         /\ Cardinality(S \cap 1..(i - 1)) \in Nat
         /\ Cardinality(S \cap 1..(i - 1)) <= i - 1
<1>1. i \in Nat \ {0}
  BY SlotFacts
<1>2. IsFiniteSet(1..(i - 1)) /\ Cardinality(1..(i - 1)) = i - 1
  BY <1>1, FS_Interval
<1>3. S \cap 1..(i - 1) \in SUBSET (1..(i - 1))
  OBVIOUS
<1> QED BY <1>2, <1>3, FS_Subset, FS_CardinalityType

LEMMA CountStep ==
  ASSUME IInv, NEW p \in Procs, Count(p)
  PROVE  System' /\ CountMoves(p)
<1> DEFINE n == IF Counts(th[p].i) THEN th[p].nproc + 1 ELSE th[p].nproc
<1>1. PICK r : r = [th[p] EXCEPT !.i = @ + 1, !.nproc = n]
  OBVIOUS
<1>2. th[p] \in Thread /\ th[p].pc = "count" /\ th[p].i <= NPROC /\ System
  BY DEF IInv, System, SystemTypeOK, Count, At
<1>3. th[p].i \in 1..NPROC /\ th[p].nproc \in Nat /\ th[p].i + 1 \in 1..(NPROC + 1)
  BY <1>2, SlotFacts DEF Thread
<1>4. th[p].nproc <= th[p].i - 1
  <2>1. ever[p] \in SUBSET Procs /\ always[p] \in SUBSET Procs /\ th[p].i \in 1..(NPROC + 1)
    BY <1>2 DEF IInv, History, Thread
  <2> DEFINE a == Cardinality(always[p] \cap 1..(th[p].i - 1))
             e == Cardinality(ever[p] \cap 1..(th[p].i - 1))
  <2>2. th[p].nproc <= e
    <3>1. th[p].nproc \in a..e
      BY <1>2 DEF IInv, History, NprocBounded, At
    <3>2. a \in Nat /\ e \in Nat
      BY <2>1, SeenFacts
    <3> HIDE DEF a, e
    <3> QED BY <3>1, <3>2
  <2>3. e \in Nat /\ e <= th[p].i - 1
    BY <2>1, SeenFacts
  <2> HIDE DEF a, e
  <2> QED BY <1>3, <2>2, <2>3
<1>5. n \in 0..NPROC
  BY <1>3, <1>4, SlotFacts
<1> HIDE DEF n
<1>6. r \in Thread /\ r.pc = "count" /\ r.num = th[p].num
  BY <1>1, <1>2, <1>3, <1>5 DEF Thread
<1>7. Moves(p, r)
  BY <1>1 DEF Count, Moves, System, SystemTypeOK, n, IInv
<1>8. th'[p] = r /\ \A q \in Procs : q # p => th'[q] = th[q]
  BY <1>2, <1>6, <1>7, OneThread DEF System
<1>9. UNCHANGED <<state, parent, trace_mask, pages, nfree, kmem_lock, asked>>
  BY DEF Count
<1>10. ThreadOK(p)'
  BY <1>2, <1>6, <1>8, <1>9 DEF ThreadOK, At, System
<1>11. ForkOK(p)'
  BY <1>6, <1>8 DEF ForkOK, At, Forking, Copied
<1>12. parent' \in [Procs -> Procs \cup {Nobody}]
  BY <1>2, <1>9 DEF System, SystemTypeOK
<1>13. r.pc \notin {"wait_free", "kavail_walk"} \cup Forking /\ ~At(p, "kavail_walk")
  BY <1>2, <1>6 DEF Forking, At
<1>14. System'
  BY <1>2, <1>6, <1>7, <1>9, <1>10, <1>11, <1>12, <1>13, PlainStep
<1>15. CountMoves(p)
  BY <1>8 DEF CountMoves, At
<1> QED BY <1>14, <1>15

-----------------------------------------------------------------------------
(* trace, fork, exit, wait.                                                *)
LEMMA SysTraceStep ==
  ASSUME System, NEW p \in Procs, SysTrace(p)
  PROVE  System' /\ CountMoves(p)
<1>1. PICK mask \in Masks :
        /\ trace_mask' = [trace_mask EXCEPT ![p] = mask]
        /\ asked' = [asked EXCEPT ![p] = mask]
  BY DEF SysTrace
<1>2. PICK r : r = [th[p] EXCEPT !.pc = "ret"]
  OBVIOUS
<1>3. /\ th[p] \in Thread /\ th[p].pc = "trace" /\ state[p] = "RUNNABLE"
      /\ mask \in SUBSET Calls /\ th[p].num \in Calls
  BY <1>1, MasksAssumption DEF System, SystemTypeOK, ThreadOK, SysTrace, At
<1>4. r \in Thread /\ r.pc = "ret" /\ r.num = th[p].num
  BY <1>2, <1>3 DEF Thread, Pcs
<1>5. Moves(p, r)
  BY <1>2 DEF SysTrace, GoTo, Moves, System, SystemTypeOK
<1>6. th' \in [Procs -> Thread] /\ th'[p] = r /\ \A q \in Procs : q # p => th'[q] = th[q]
  BY <1>4, <1>5, OneThread DEF System
<1>7. UNCHANGED <<state, parent, pages, nfree, kmem_lock>>
  BY DEF SysTrace
<1>8. SystemTypeOK'
  BY <1>1, <1>3, <1>6, <1>7 DEF System, SystemTypeOK
<1>9. /\ \A q \in Procs : q # p => trace_mask'[q] = trace_mask[q] /\ asked'[q] = asked[q]
      /\ trace_mask'[p] = mask /\ asked'[p] = mask
  BY <1>1 DEF System, SystemTypeOK
<1>10. ASSUME NEW q \in Procs PROVE ThreadOK(q)' /\ ForkOK(q)'
  <2>1. CASE q = p
    BY <1>3, <1>4, <1>6, <1>7, <2>1 DEF ThreadOK, ForkOK, At, Forking, Copied
  <2>2. CASE q # p
    <3>1. ThreadOK(q)'
      BY <1>6, <1>7, <2>2, ThreadKeeps DEF System
    <3>2. th[q].pc \in Forking => th[q].np \in Procs /\ th[q].np # p
      BY <1>3 DEF System, ForkOK
    <3>3. Copied \subseteq Forking
      BY DEF Copied, Forking
    <3>4. ForkOK(q)'
      BY <1>6, <1>7, <1>9, <2>2, <3>2, <3>3, ForkKeeps DEF System
    <3> QED BY <3>1, <3>4
  <2> QED BY <2>1, <2>2
<1>11. ChildrenDiffer' /\ OneReaper'
  BY <1>4, <1>6 DEF System, ChildrenDiffer, OneReaper, At, Forking
<1>12. MaskKept'
  BY <1>7, <1>9 DEF System, MaskKept
<1>13. LockHeld' /\ FreememExact'
  BY <1>3, <1>4, <1>5, <1>7, LockKeeps DEF At
<1>14. PagesConserved'
  BY <1>7 DEF System, PagesConserved, Held
<1>15. CountMoves(p)
  BY <1>4, <1>5, CountMovesOne
<1> QED BY <1>8, <1>10, <1>11, <1>12, <1>13, <1>14, <1>15 DEF System

LEMMA ForkAllocStep ==
  ASSUME System, NEW p \in Procs, ForkAlloc(p)
  PROVE  System' /\ CountMoves(p)
<1>1. PICK np \in Procs :
        /\ At(p, "fork") /\ state[np] = "UNUSED"
        /\ state' = [state EXCEPT ![np] = "USED"]
        /\ asked' = [asked EXCEPT ![np] = asked[p]]
        /\ th' = [th EXCEPT ![p].pc = "fork_pages", ![p].np = np]
        /\ UNCHANGED <<parent, trace_mask, pages, nfree, kmem_lock>>
  BY DEF ForkAlloc
<1>2. PICK r : r = [th[p] EXCEPT !.pc = "fork_pages", !.np = np]
  OBVIOUS
<1>3. th[p] \in Thread /\ th[p].pc = "fork" /\ state[p] = "RUNNABLE" /\ th[p].num \in Calls /\ np # p
  BY <1>1 DEF System, SystemTypeOK, ThreadOK, At
<1>4. r \in Thread /\ r.pc = "fork_pages" /\ r.num = th[p].num /\ r.np = np
  BY <1>2, <1>3 DEF Thread, Pcs
<1>5. Moves(p, r)
  BY <1>1, <1>2 DEF Moves, System, SystemTypeOK
<1>6. th' \in [Procs -> Thread] /\ th'[p] = r /\ \A q \in Procs : q # p => th'[q] = th[q]
  BY <1>4, <1>5, OneThread DEF System
<1>7. /\ \A q \in Procs : q # np => state'[q] = state[q] /\ asked'[q] = asked[q]
      /\ state'[np] = "USED" /\ asked'[np] = asked[p]
  BY <1>1 DEF System, SystemTypeOK
<1>8. SystemTypeOK'
  BY <1>1, <1>6 DEF System, SystemTypeOK
<1>9. ASSUME NEW q \in Procs, q # p
      PROVE  th[q].pc \in Forking \/ At(q, "wait_free") => th[q].np \in Procs /\ th[q].np # np
  BY <1>1 DEF System, ForkOK
<1>10. ASSUME NEW q \in Procs PROVE ThreadOK(q)' /\ ForkOK(q)'
  <2>1. CASE q = p
    BY <1>3, <1>4, <1>6, <1>7, <2>1 DEF ThreadOK, ForkOK, At, Forking, Copied
  <2>2. CASE q # p
    <3>1. state[q] = "RUNNABLE" => state'[q] = "RUNNABLE"
      BY <1>1, <1>7
    <3>2. ThreadOK(q)'
      BY <1>6, <2>2, <3>1, ThreadKeeps DEF System
    <3>3. Copied \subseteq Forking
      BY DEF Copied, Forking
    <3>4. th[q].pc \in Forking => q # np
      BY <1>1 DEF System, ThreadOK, At, Forking
    <3>5. ForkOK(q)'
      BY <1>1, <1>6, <1>7, <1>9, <2>2, <3>3, <3>4, ForkKeeps DEF System
    <3> QED BY <3>2, <3>5
  <2> QED BY <2>1, <2>2
<1>11. ChildrenDiffer'
  BY <1>4, <1>6, <1>9 DEF System, ChildrenDiffer
<1>12. OneReaper'
  BY <1>4, <1>6 DEF System, OneReaper, At
<1>13. MaskKept'
  BY <1>1, <1>7 DEF System, MaskKept
<1>14. LockHeld' /\ FreememExact'
  BY <1>1, <1>3, <1>4, <1>5, LockKeeps DEF At
<1>15. PagesConserved'
  <2>1. Held' = Held
    BY <1>1 DEF Held
  <2> QED BY <1>1, <1>7, <2>1 DEF System, PagesConserved
<1>16. CountMoves(p)
  BY <1>4, <1>5, CountMovesOne
<1> QED BY <1>8, <1>10, <1>11, <1>12, <1>13, <1>14, <1>15, <1>16 DEF System

(* A page comes or goes while fork or wait has the slot.                   *)
LEMMA PageStep ==
  ASSUME System, NEW p \in Procs,
         th[p].pc \in {"fork_pages", "fork_free", "wait_free"},
         \/ pages[th[p].np] < PagesPerProc /\ Kalloc(th[p].np)
         \/ Kfree(th[p].np)
  PROVE  System' /\ CountMoves(p)
<1> DEFINE np == th[p].np
<1>1. np \in Procs /\ state[np] \in {"USED", "ZOMBIE"}
  BY DEF System, ForkOK, At, Forking
<1>2. /\ UNCHANGED <<state, parent, trace_mask, kmem_lock, th, asked>>
      /\ kmem_lock = Nobody
      /\ \A q \in Procs : q # np => pages'[q] = pages[q]
  BY DEF Kalloc, Kfree, System, SystemTypeOK
<1>3. /\ pages' \in [Procs -> 0..PagesPerProc]
      /\ nfree' \in 0..NPages
      /\ nfree' + Cardinality(Held') = NPages
  <2>1. nfree \in Nat /\ Cardinality(Held) \in Nat /\ nfree + Cardinality(Held) = NPages
    BY HeldFinite, SlotFacts DEF System, SystemTypeOK, PagesConserved
  <2>2. CASE pages[np] < PagesPerProc /\ Kalloc(np)
    <3>1. /\ Cardinality(Held') = Cardinality(Held) + 1
          /\ pages' \in [Procs -> 0..PagesPerProc]
      BY <1>1, <2>2, HeldGrows DEF System, Kalloc
    <3>2. nfree' = nfree - 1 /\ nfree > 0
      BY <2>2 DEF Kalloc
    <3> QED BY <2>1, <3>1, <3>2, SlotFacts
  <2>3. CASE Kfree(np)
    <3>1. /\ Cardinality(Held') = Cardinality(Held) - 1
          /\ pages' \in [Procs -> 0..PagesPerProc]
      BY <1>1, <2>3, HeldShrinks DEF System, Kfree
    <3>2. nfree' = nfree + 1
      BY <2>3 DEF Kfree
    <3>3. Cardinality(Held) > 0
      <4>1. <<np, 1>> \in Held
        <5>1. pages[np] \in 0..PagesPerProc /\ pages[np] > 0
          BY <1>1, <2>3 DEF Kfree, System, SystemTypeOK
        <5>2. 1 \in 1..PagesPerProc /\ 1 <= pages[np]
          BY <5>1, SlotFacts
        <5>3. <<np, 1>> \in Procs \X (1..PagesPerProc)
          BY <1>1, <5>2
        <5> QED BY <5>2, <5>3 DEF Held
      <4>2. Cardinality(Held) # 0
        BY <4>1, HeldFinite, FS_EmptySet
      <4> QED BY <2>1, <4>2
    <3> QED BY <2>1, <3>1, <3>2, <3>3, SlotFacts
  <2> QED BY <2>2, <2>3
<1>4. SystemTypeOK'
  BY <1>2, <1>3 DEF System, SystemTypeOK
<1>5. ASSUME NEW q \in Procs PROVE ThreadOK(q)' /\ ForkOK(q)'
  <2>1. ThreadOK(q)'
    BY <1>2 DEF System, ThreadOK, At
  <2>2. th[q].pc \in Copied => th[q].np # np
    <3>1. CASE q = p
      BY <3>1 DEF Copied
    <3>2. CASE q # p
      <4>1. CASE th[p].pc \in Forking
        BY <3>2, <4>1 DEF System, ChildrenDiffer, Copied, Forking
      <4>2. CASE th[p].pc \notin Forking
        BY <4>2 DEF System, ForkOK, Copied, Forking, At
      <4> QED BY <4>1, <4>2
    <3> QED BY <3>1, <3>2
  <2>3. th[q].pc \in Copied => th[q].np \in Procs
    BY DEF System, ForkOK, Copied, Forking
  <2>4. ForkOK(q)'
    BY <1>2, <2>2, <2>3, ForkKeeps DEF System
  <2> QED BY <2>1, <2>4
<1>6. ChildrenDiffer' /\ OneReaper' /\ MaskKept' /\ LockHeld'
  BY <1>2 DEF System, ChildrenDiffer, OneReaper, MaskKept, LockHeld, At
<1>7. FreememExact'
  BY <1>2, SlotFacts DEF System, LockHeld, FreememExact, At
<1>8. PagesConserved'
  BY <1>1, <1>2, <1>3 DEF System, PagesConserved
<1>9. CountMoves(p)
  BY <1>2 DEF CountMoves, At
<1> QED BY <1>4, <1>5, <1>6, <1>7, <1>8, <1>9 DEF System

LEMMA PageSteps ==
  ASSUME System, NEW p \in Procs, ForkPage(p) \/ FreeprocPage(p)
  PROVE  System' /\ CountMoves(p)
<1>1. CASE ForkPage(p)
  BY <1>1, PageStep DEF ForkPage, At
<1>2. CASE FreeprocPage(p)
  BY <1>2, PageStep DEF FreeprocPage
<1> QED BY <1>1, <1>2

LEMMA ForkCopyStep ==
  ASSUME System, NEW p \in Procs, ForkCopy(p)
  PROVE  System' /\ CountMoves(p)
<1> DEFINE np == th[p].np
<1>1. PICK r : r = [th[p] EXCEPT !.pc = "fork_parent"]
  OBVIOUS
<1>2. /\ th[p] \in Thread /\ th[p].pc = "fork_pages" /\ state[p] = "RUNNABLE"
      /\ th[p].num \in Calls
      /\ np \in Procs /\ state[np] = "USED" /\ asked[np] = asked[p] /\ pages[np] = PagesPerProc
  BY DEF System, SystemTypeOK, ThreadOK, ForkOK, ForkCopy, At, Forking
<1>3. r \in Thread /\ r.pc = "fork_parent" /\ r.num = th[p].num /\ r.np = np
  BY <1>1, <1>2 DEF Thread, Pcs
<1>4. Moves(p, r)
  BY <1>1 DEF ForkCopy, GoTo, Moves, System, SystemTypeOK
<1>5. th' \in [Procs -> Thread] /\ th'[p] = r /\ \A q \in Procs : q # p => th'[q] = th[q]
  BY <1>3, <1>4, OneThread DEF System
<1>6. UNCHANGED <<state, parent, pages, nfree, kmem_lock, asked>>
  BY DEF ForkCopy
<1>7. trace_mask[p] = asked[p]
  BY <1>2 DEF System, MaskKept
<1>8. /\ \A q \in Procs : q # np => trace_mask'[q] = trace_mask[q]
      /\ trace_mask'[np] = trace_mask[p]
      /\ trace_mask' \in [Procs -> SUBSET Calls]
  BY <1>2 DEF ForkCopy, System, SystemTypeOK
<1>9. SystemTypeOK'
  BY <1>5, <1>6, <1>8 DEF System, SystemTypeOK
<1>10. ASSUME NEW q \in Procs PROVE ThreadOK(q)' /\ ForkOK(q)'
  <2>1. CASE q = p
    BY <1>2, <1>3, <1>5, <1>6, <1>7, <1>8, <2>1 DEF ThreadOK, ForkOK, At, Forking, Copied
  <2>2. CASE q # p
    <3>1. ThreadOK(q)'
      BY <1>5, <1>6, <2>2, ThreadKeeps DEF System
    <3>2. th[q].pc \in Copied => th[q].np \in Procs /\ th[q].np # np
      BY <1>2, <2>2 DEF System, ForkOK, ChildrenDiffer, Forking, Copied
    <3>3. ForkOK(q)'
      BY <1>5, <1>6, <1>8, <2>2, <3>2, ForkKeeps DEF System
    <3> QED BY <3>1, <3>3
  <2> QED BY <2>1, <2>2
<1>11. ChildrenDiffer'
  BY <1>2, <1>3, <1>5 DEF System, ChildrenDiffer, Forking
<1>12. OneReaper'
  BY <1>3, <1>5 DEF System, OneReaper, At
<1>13. MaskKept'
  BY <1>2, <1>6, <1>8 DEF System, MaskKept
<1>14. LockHeld' /\ FreememExact'
  BY <1>2, <1>3, <1>4, <1>6, LockKeeps DEF At
<1>15. PagesConserved'
  BY <1>6 DEF System, PagesConserved, Held
<1>16. CountMoves(p)
  BY <1>3, <1>4, CountMovesOne
<1> QED BY <1>9, <1>10, <1>11, <1>12, <1>13, <1>14, <1>15, <1>16 DEF System

(* fork makes the child runnable, exit makes its caller a zombie, freeproc *)
(* makes the slot unused: a state changes, and the thread goes on.         *)
LEMMA StateStep ==
  ASSUME System, NEW p \in Procs, NEW r \in Thread, Moves(p, r),
         NEW np \in Procs, NEW s \in {"UNUSED", "RUNNABLE", "ZOMBIE"},
         state' = [state EXCEPT ![np] = s],
         UNCHANGED <<trace_mask, pages, nfree, kmem_lock, asked>>,
         parent' \in [Procs -> Procs \cup {Nobody}],
         r.pc \in {"user", "ret"}, ~At(p, "kavail_walk"),
         s = "UNUSED" => pages[np] = 0,
         s = "RUNNABLE" => pages[np] = PagesPerProc /\ trace_mask[np] = asked[np],
         ThreadOK(p)',
         np # p => At(np, "user"),
         \A q \in Procs : q # p /\ (th[q].pc \in Forking \/ At(q, "wait_free")) => th[q].np # np
  PROVE  System' /\ CountMoves(p)
<1>1. th' \in [Procs -> Thread] /\ th'[p] = r /\ \A q \in Procs : q # p => th'[q] = th[q]
  BY OneThread DEF System
<1>2. state'[np] = s /\ \A q \in Procs : q # np => state'[q] = state[q]
  BY DEF System, SystemTypeOK
<1>3. SystemTypeOK'
  BY <1>1 DEF System, SystemTypeOK
<1>4. r.pc \notin Forking \cup Copied /\ r.pc \notin {"wait_free", "count", "kavail_walk"}
  BY DEF Forking, Copied
<1>5. ASSUME NEW q \in Procs PROVE ThreadOK(q)' /\ ForkOK(q)'
  <2>1. CASE q = p
    BY <1>1, <1>4, <2>1 DEF ForkOK, At
  <2>2. CASE q # p /\ q = np
    <3>1. ThreadOK(q)'
      BY <1>1, <2>2 DEF System, ThreadOK, At
    <3>2. ForkOK(q)'
      BY <1>1, <2>2 DEF ForkOK, At, Forking, Copied
    <3> QED BY <3>1, <3>2
  <2>3. CASE q # p /\ q # np
    <3>1. ThreadOK(q)'
      BY <1>1, <1>2, <2>3, ThreadKeeps DEF System
    <3>2. th[q].pc \in Forking \/ At(q, "wait_free") => th[q].np \in Procs
      BY DEF System, ForkOK
    <3>3. ForkOK(q)'
      BY <1>1, <1>2, <2>3, <3>2, ForkKeeps DEF System
    <3> QED BY <3>1, <3>3
  <2> QED BY <2>1, <2>2, <2>3
<1>6. ChildrenDiffer'
  BY <1>1, <1>4 DEF System, ChildrenDiffer
<1>7. OneReaper'
  BY <1>1, <1>4 DEF System, OneReaper, At
<1>8. MaskKept'
  BY <1>2 DEF System, MaskKept
<1>9. LockHeld' /\ FreememExact'
  BY <1>4, LockKeeps
<1>10. PagesConserved'
  <2>1. Held' = Held
    BY DEF Held
  <2> QED BY <1>2, <2>1 DEF System, PagesConserved
<1>11. CountMoves(p)
  BY <1>4, CountMovesOne
<1> QED BY <1>3, <1>5, <1>6, <1>7, <1>8, <1>9, <1>10, <1>11 DEF System

LEMMA ForkRunStep ==
  ASSUME System, NEW p \in Procs, ForkRun(p)
  PROVE  System' /\ CountMoves(p)
<1>1. PICK np : np = th[p].np
  OBVIOUS
<1>2. PICK r : r = [th[p] EXCEPT !.pc = "ret"]
  OBVIOUS
<1>3. /\ th[p] \in Thread /\ th[p].pc = "fork_run" /\ state[p] = "RUNNABLE"
      /\ th[p].num \in Calls
      /\ np \in Procs /\ state[np] = "USED" /\ pages[np] = PagesPerProc
      /\ trace_mask[np] = asked[np]
  BY <1>1 DEF System, SystemTypeOK, ThreadOK, ForkOK, ForkRun, At, Forking, Copied
<1>4. r \in Thread /\ r.pc = "ret" /\ r.num = th[p].num
  BY <1>2, <1>3 DEF Thread, Pcs
<1>5. Moves(p, r)
  BY <1>2 DEF ForkRun, GoTo, Moves, System, SystemTypeOK
<1>6. th'[p] = r
  BY <1>4, <1>5, OneThread DEF System
<1>7. state' = [state EXCEPT ![np] = "RUNNABLE"]
      /\ UNCHANGED <<parent, trace_mask, pages, nfree, kmem_lock, asked>>
  BY <1>1 DEF ForkRun
<1>8. ThreadOK(p)'
  BY <1>3, <1>4, <1>6, <1>7 DEF ThreadOK, At, System, SystemTypeOK
<1>9. np # p /\ At(np, "user")
  BY <1>3 DEF System, ThreadOK
<1>10. \A q \in Procs : q # p /\ (th[q].pc \in Forking \/ At(q, "wait_free")) => th[q].np # np
  <2>1. ASSUME NEW q \in Procs, q # p, th[q].pc \in Forking PROVE th[q].np # np
    BY <1>1, <1>3, <2>1 DEF System, ChildrenDiffer, Forking
  <2>2. ASSUME NEW q \in Procs, At(q, "wait_free") PROVE th[q].np # np
    BY <1>3, <2>2 DEF System, ForkOK
  <2> QED BY <2>1, <2>2
<1>11. parent' \in [Procs -> Procs \cup {Nobody}] /\ ~At(p, "kavail_walk")
  BY <1>3, <1>7 DEF System, SystemTypeOK, At
<1> QED BY <1>3, <1>4, <1>5, <1>7, <1>8, <1>9, <1>10, <1>11, StateStep

LEMMA ExitStep ==
  ASSUME System, NEW p \in Procs, Exit(p)
  PROVE  System' /\ CountMoves(p)
<1>1. Moves(p, User) /\ User \in Thread /\ User.pc = "user"
  BY UserFacts DEF Exit, Moves
<1>2. th'[p] = User
  BY <1>1, OneThread DEF System
<1>3. ThreadOK(p)'
  BY <1>2, UserFacts DEF ThreadOK, At
<1>4. state[p] = "RUNNABLE" /\ ~At(p, "kavail_walk")
  BY DEF System, ThreadOK, Exit, At
<1>5. \A q \in Procs : q # p /\ (th[q].pc \in Forking \/ At(q, "wait_free")) => th[q].np # p
  BY <1>4 DEF System, ForkOK
<1>6. parent' \in [Procs -> Procs \cup {Nobody}]
  BY SlotFacts DEF Exit, System, SystemTypeOK
<1>7. state' = [state EXCEPT ![p] = "ZOMBIE"]
      /\ UNCHANGED <<trace_mask, pages, nfree, kmem_lock, asked>>
  BY DEF Exit
<1> QED BY <1>1, <1>3, <1>4, <1>5, <1>6, <1>7, StateStep

LEMMA FreeprocDoneStep ==
  ASSUME System, NEW p \in Procs, FreeprocDone(p)
  PROVE  System' /\ CountMoves(p)
<1>1. PICK np : np = th[p].np
  OBVIOUS
<1>2. PICK r : r = [th[p] EXCEPT !.pc = "ret"]
  OBVIOUS
<1>3. /\ th[p] \in Thread /\ th[p].pc \in {"fork_free", "wait_free"} /\ state[p] = "RUNNABLE"
      /\ th[p].num \in Calls
      /\ np \in Procs /\ state[np] \in {"USED", "ZOMBIE"} /\ pages[np] = 0
  BY <1>1 DEF System, SystemTypeOK, ThreadOK, ForkOK, FreeprocDone, At, Forking
<1>4. r \in Thread /\ r.pc = "ret" /\ r.num = th[p].num
  BY <1>2, <1>3 DEF Thread, Pcs
<1>5. Moves(p, r)
  BY <1>2 DEF FreeprocDone, GoTo, Moves, System, SystemTypeOK
<1>6. th'[p] = r
  BY <1>4, <1>5, OneThread DEF System
<1>7. /\ state' = [state EXCEPT ![np] = "UNUSED"]
      /\ parent' = [parent EXCEPT ![np] = Nobody]
      /\ UNCHANGED <<trace_mask, pages, nfree, kmem_lock, asked>>
  BY <1>1 DEF FreeprocDone
<1>8. np # p /\ At(np, "user")
  BY <1>3 DEF System, ThreadOK
<1>9. ThreadOK(p)'
  BY <1>3, <1>4, <1>6, <1>7, <1>8 DEF ThreadOK, At, System, SystemTypeOK
<1>10. \A q \in Procs : q # p /\ (th[q].pc \in Forking \/ At(q, "wait_free")) => th[q].np # np
  <2>1. CASE At(p, "fork_free")
    <3>1. th[p].pc \in Forking /\ state[np] = "USED"
      BY <1>1, <2>1 DEF System, ForkOK, At, Forking
    <3>2. ASSUME NEW q \in Procs, q # p, th[q].pc \in Forking PROVE th[q].np # np
      BY <1>1, <3>1, <3>2 DEF System, ChildrenDiffer
    <3>3. ASSUME NEW q \in Procs, At(q, "wait_free") PROVE th[q].np # np
      BY <3>1, <3>3 DEF System, ForkOK
    <3> QED BY <3>2, <3>3
  <2>2. CASE At(p, "wait_free")
    <3>1. state[np] = "ZOMBIE"
      BY <1>1, <2>2 DEF System, ForkOK
    <3>2. ASSUME NEW q \in Procs, th[q].pc \in Forking PROVE th[q].np # np
      BY <3>1, <3>2 DEF System, ForkOK
    <3>3. ASSUME NEW q \in Procs, q # p PROVE ~At(q, "wait_free")
      BY <2>2, <3>3 DEF System, OneReaper
    <3> QED BY <3>2, <3>3
  <2> QED BY <1>3, <2>1, <2>2 DEF At
<1>11. parent' \in [Procs -> Procs \cup {Nobody}] /\ ~At(p, "kavail_walk")
  BY <1>3, <1>7 DEF System, SystemTypeOK, At
<1> QED BY <1>3, <1>4, <1>5, <1>7, <1>8, <1>9, <1>10, <1>11, StateStep

-----------------------------------------------------------------------------
LEMMA HandlerStep ==
  ASSUME IInv, NEW p \in Procs, Handler(p) \/ Return(p)
  PROVE  System' /\ CountMoves(p)
<1>1. System
  BY DEF IInv
<1>2. CASE Handler(p)
  <2>1. CASE \E num \in Calls : Enter(p, num)
    BY <1>1, <2>1, EnterStep
  <2>2. CASE KavailStart(p) \/ KavailWalk(p) \/ KavailDone(p)
    BY <1>1, <2>2, KavailStartStep, KavailWalkStep, KavailDoneStep
  <2>3. CASE ForkPage(p) \/ FreeprocPage(p)
    BY <1>1, <2>3, PageSteps
  <2>4. CASE CountDone(p) \/ ForkNoSlot(p) \/ ForkNoPage(p) \/ WaitNoChild(p)
    BY <1>1, <2>4, PlainSteps
  <2> QED BY <1>1, <1>2, <2>1, <2>2, <2>3, <2>4, SysTraceStep, CountStep, ForkAllocStep,
             ForkCopyStep, ForkParentStep, ForkRunStep, ExitStep, WaitStep,
             FreeprocDoneStep DEF Handler
<1>3. CASE Return(p)
  BY <1>1, <1>3, ReturnStep
<1> QED BY <1>2, <1>3

(* What a counting thread q has seen, and what it could have seen.         *)
Bounded(watched, seen, n, known) ==
  n \in Cardinality(watched \cap 1..(seen - 1))..Cardinality(known \cap 1..(seen - 1))

LEMMA BoundedMonotone ==
  ASSUME NEW A \in SUBSET Procs, NEW B \in SUBSET A, NEW E \in SUBSET Procs, NEW D \in SUBSET E,
         NEW i \in 1..(NPROC + 1), NEW n \in 0..NPROC, Bounded(A, i, n, D)
  PROVE  Bounded(B, i, n, E)
<1> DEFINE a == Cardinality(A \cap 1..(i - 1))
           b == Cardinality(B \cap 1..(i - 1))
           d == Cardinality(D \cap 1..(i - 1))
           e == Cardinality(E \cap 1..(i - 1))
<1>1. B \in SUBSET Procs /\ D \in SUBSET Procs
  OBVIOUS
<1>2. a \in Nat /\ b \in Nat /\ d \in Nat /\ e \in Nat
  BY <1>1, SeenFacts
<1>3. B \cap 1..(i - 1) \in SUBSET (A \cap 1..(i - 1)) /\ IsFiniteSet(A \cap 1..(i - 1))
  BY SeenFacts
<1>4. b <= a
  BY <1>3, FS_Subset
<1>5. D \cap 1..(i - 1) \in SUBSET (E \cap 1..(i - 1)) /\ IsFiniteSet(E \cap 1..(i - 1))
  BY SeenFacts
<1>6. d <= e
  BY <1>5, FS_Subset
<1>7. n \in a..d
  BY DEF Bounded
<1> HIDE DEF a, b, d, e
<1>8. n \in b..e
  BY <1>2, <1>4, <1>6, <1>7, SlotFacts
<1> QED BY <1>8 DEF Bounded, b, e

(* One more slot is seen.                                                  *)
LEMMA BoundedCounts ==
  ASSUME NEW A \in SUBSET Procs, NEW B \in SUBSET Procs, NEW E \in SUBSET Procs,
         A \subseteq B, B \subseteq E,
         NEW i \in 1..NPROC, NEW n \in 0..NPROC, Bounded(A, i, n, E)
  PROVE  Bounded(A, i + 1, IF i \in B THEN n + 1 ELSE n, E)
<1> DEFINE a == Cardinality(A \cap 1..(i - 1))
           e == Cardinality(E \cap 1..(i - 1))
           more == IF i \in B THEN n + 1 ELSE n
<1>1. i \in Nat \ {0} /\ i \in 1..(NPROC + 1) /\ i + 1 \in 1..(NPROC + 1) /\ n \in Nat
      /\ (i + 1) - 1 = i
  BY SlotFacts
<1>2. IsFiniteSet(A \cap 1..(i - 1)) /\ IsFiniteSet(E \cap 1..(i - 1)) /\ a \in Nat /\ e \in Nat
  BY <1>1, SeenFacts
<1>3. 1..i = (1..(i - 1)) \cup {i} /\ i \notin 1..(i - 1)
  BY <1>1
<1>4. ASSUME NEW S \in SUBSET Procs
      PROVE  S \cap 1..i = IF i \in S THEN (S \cap 1..(i - 1)) \cup {i} ELSE S \cap 1..(i - 1)
  BY <1>3
<1>5. Cardinality(A \cap 1..i) = IF i \in A THEN a + 1 ELSE a
  <2>1. A \cap 1..i = IF i \in A THEN (A \cap 1..(i - 1)) \cup {i} ELSE A \cap 1..(i - 1)
    BY <1>4
  <2>2. i \notin A \cap 1..(i - 1)
    BY <1>3
  <2> QED BY <1>2, <2>1, <2>2, FS_AddElement
<1>6. Cardinality(E \cap 1..i) = IF i \in E THEN e + 1 ELSE e
  <2>1. E \cap 1..i = IF i \in E THEN (E \cap 1..(i - 1)) \cup {i} ELSE E \cap 1..(i - 1)
    BY <1>4
  <2>2. i \notin E \cap 1..(i - 1)
    BY <1>3
  <2> QED BY <1>2, <2>1, <2>2, FS_AddElement
<1>7. n \in a..e
  BY DEF Bounded
<1> HIDE DEF a, e
<1>8. (i \in A => i \in B) /\ (i \in B => i \in E)
  OBVIOUS
<1>9. more \in (IF i \in A THEN a + 1 ELSE a)..(IF i \in E THEN e + 1 ELSE e)
  BY <1>1, <1>2, <1>7, <1>8
<1>10. more \in Cardinality(A \cap 1..i)..Cardinality(E \cap 1..i)
  BY <1>5, <1>6, <1>9
<1> QED BY <1>1, <1>10 DEF Bounded

LEMMA HistoryStep ==
  ASSUME IInv, NEW p \in Procs, System', CountMoves(p),
         always' = [q \in Procs |-> Watch(q, always[q], always[q] \cap InUse')],
         ever' = [q \in Procs |-> Watch(q, ever[q], ever[q] \cup InUse')],
         last' \in {NoLine} \cup [who : Procs, num : Calls, line : BOOLEAN]
  PROVE  History'
<1>1. InUse \in SUBSET Procs /\ InUse' \in SUBSET Procs
  BY DEF InUse
<1>2. always \in [Procs -> SUBSET Procs] /\ ever \in [Procs -> SUBSET Procs]
  BY DEF IInv, History
<1>3. ASSUME NEW q \in Procs, th'[q].pc # "count"
      PROVE  always'[q] = {} /\ ever'[q] = {}
  BY <1>3 DEF Watch
<1>4. ASSUME NEW q \in Procs, th'[q].pc = "count", ~At(q, "count")
      PROVE  always'[q] = InUse' /\ ever'[q] = InUse'
  BY <1>4 DEF Watch
<1>5. ASSUME NEW q \in Procs, th'[q].pc = "count", At(q, "count")
      PROVE  always'[q] = always[q] \cap InUse' /\ ever'[q] = ever[q] \cup InUse'
  BY <1>5 DEF Watch
<1>6. always' \in [Procs -> SUBSET Procs] /\ ever' \in [Procs -> SUBSET Procs]
  <2>1. ASSUME NEW q \in Procs PROVE always'[q] \in SUBSET Procs /\ ever'[q] \in SUBSET Procs
    <3>1. CASE th'[q].pc # "count"
      BY <1>3, <3>1
    <3>2. CASE th'[q].pc = "count" /\ ~At(q, "count")
      BY <1>1, <1>4, <3>2
    <3>3. CASE th'[q].pc = "count" /\ At(q, "count")
      <4>1. always[q] \in SUBSET Procs /\ ever[q] \in SUBSET Procs
        BY <1>2
      <4> QED BY <1>1, <1>5, <3>3, <4>1
    <3> QED BY <3>1, <3>2, <3>3
  <2>2. always' = [q \in Procs |-> always'[q]] /\ ever' = [q \in Procs |-> ever'[q]]
    OBVIOUS
  <2> QED BY <2>1, <2>2
<1>7. WatchOK'
  <2>1. ASSUME NEW q \in Procs, th'[q].pc = "count"
        PROVE  always'[q] \subseteq InUse' /\ InUse' \subseteq ever'[q]
    BY ZenonT(60), <1>4, <1>5, <2>1
  <2> QED BY <2>1 DEF WatchOK, At
<1>8. ASSUME NEW q \in Procs, th'[q].pc = "count"
      PROVE  Bounded(always'[q], th'[q].i, th'[q].nproc, ever'[q])
  <2>1. th[q] \in Thread /\ th'[q] \in Thread
    BY DEF IInv, System, SystemTypeOK
  <2>2. th[q].i \in 1..(NPROC + 1) /\ th[q].nproc \in 0..NPROC
    BY <2>1 DEF Thread
  <2>3. At(q, "count") => Bounded(always[q], th[q].i, th[q].nproc, ever[q])
    BY DEF IInv, History, NprocBounded, Bounded
  <2>4. CASE At(q, "count") /\ th'[q] = th[q]
    <3>1. PICK A, B, D, E : /\ A = always[q] /\ B = always'[q]
                            /\ D = ever[q] /\ E = ever'[q]
      OBVIOUS
    <3>2. PICK i, n : i = th[q].i /\ n = th[q].nproc
      OBVIOUS
    <3>3. /\ A \in SUBSET Procs /\ B \in SUBSET A
          /\ E \in SUBSET Procs /\ D \in SUBSET E
      BY <1>1, <1>2, <1>5, <1>8, <2>4, <3>1
    <3>4. i \in 1..(NPROC + 1) /\ n \in 0..NPROC /\ Bounded(A, i, n, D)
      BY <2>2, <2>3, <2>4, <3>1, <3>2
    <3>5. Bounded(B, i, n, E)
      BY <3>3, <3>4, BoundedMonotone
    <3>6. th'[q].i = i /\ th'[q].nproc = n
      BY <2>4, <3>2
    <3> QED BY <3>1, <3>5, <3>6
  <2>5. CASE ~At(q, "count") /\ th'[q].i = 1 /\ th'[q].nproc = 0
    <3>1. \A S : S \cap 1..(1 - 1) = {}
      OBVIOUS
    <3>2. Cardinality({}) = 0 /\ 0 \in 0..0
      BY FS_EmptySet
    <3> QED BY <2>5, <3>1, <3>2 DEF Bounded
  <2>6. CASE q = p /\ Count(p)
    <3>1. At(q, "count") /\ InUse' = InUse
      BY <2>6 DEF Count, InUse
    <3>2. always[q] \subseteq InUse /\ InUse \subseteq ever[q]
      BY <3>1 DEF IInv, History, WatchOK
    <3>3. always'[q] = always[q] /\ ever'[q] = ever[q]
      BY ZenonT(60), <1>5, <1>8, <3>1, <3>2
    <3>4. th[q].i \in 1..NPROC
      BY <2>2, <2>6, SlotFacts DEF Count
    <3>5. th[q].i \in Procs
      BY <3>4 DEF Procs
    <3>6. th' = [th EXCEPT ![q].i = @ + 1,
                           ![q].nproc = IF Counts(th[q].i) THEN @ + 1 ELSE @]
      BY <2>6 DEF Count
    <3>7. th'[q].i = th[q].i + 1
          /\ th'[q].nproc = IF Counts(th[q].i) THEN th[q].nproc + 1 ELSE th[q].nproc
      BY <2>1, <3>6 DEF IInv, System, SystemTypeOK, Thread
    <3>8. Counts(th[q].i) <=> th[q].i \in InUse
      BY <3>5 DEF Counts, InUse
    <3>9. always[q] \in SUBSET Procs /\ ever[q] \in SUBSET Procs
      BY <1>2
    <3>10. Bounded(always[q], th[q].i + 1,
                   IF th[q].i \in InUse THEN th[q].nproc + 1 ELSE th[q].nproc, ever[q])
      BY <1>1, <2>2, <2>3, <3>1, <3>2, <3>4, <3>9, BoundedCounts
    <3> QED BY <3>3, <3>7, <3>8, <3>10
  <2> QED BY <1>8, <2>4, <2>5, <2>6 DEF CountMoves
<1>9. NprocBounded'
  BY <1>8 DEF NprocBounded, Bounded, At
<1> QED BY <1>6, <1>7, <1>9 DEF History

LEMMA IInvInit == Init => IInv
<1> SUFFICES ASSUME Init PROVE IInv
  OBVIOUS
<1>1. th = [p \in Procs |-> User] /\ \A p \in Procs : th[p] = User
  BY DEF Init
<1>2. SystemTypeOK
  <2>1. nfree \in 0..NPages
    BY SizesAssumption DEF Init
  <2>2. pages \in [Procs -> 0..PagesPerProc]
    BY SlotFacts DEF Init
  <2>3. th \in [Procs -> Thread]
    BY <1>1, UserFacts
  <2> QED BY <2>1, <2>2, <2>3 DEF Init, SystemTypeOK, Nobody
<1>3. \A p \in Procs : ThreadOK(p) /\ ForkOK(p)
  BY <1>1, UserFacts DEF ThreadOK, ForkOK, At, Forking, Copied
<1>4. ChildrenDiffer /\ OneReaper
  BY <1>1, UserFacts DEF ChildrenDiffer, OneReaper, At, Forking
<1>5. MaskKept
  BY DEF Init, MaskKept
<1>6. LockHeld /\ FreememExact /\ WatchOK /\ NprocBounded
  BY <1>1, UserFacts, SlotFacts DEF LockHeld, FreememExact, WatchOK, NprocBounded, At, Init
<1>7. PagesConserved
  <2>1. Held = {<<1, k>> : k \in 1..PagesPerProc}
    BY SlotFacts DEF Held, Init
  <2>2. Cardinality(Held) = PagesPerProc
    <3> DEFINE pair == [k \in 1..PagesPerProc |-> <<1, k>>]
    <3>1. pair \in Bijection(1..PagesPerProc, Held)
      BY <2>1 DEF Bijection, Injection, Surjection, IsInjective
    <3>2. ExistsBijection(1..PagesPerProc, Held)
      BY <3>1 DEF ExistsBijection
    <3>3. IsFiniteSet(1..PagesPerProc) /\ Cardinality(1..PagesPerProc) = PagesPerProc
      BY SlotFacts, SizesAssumption, FS_Interval
    <3> QED BY <3>2, <3>3, FS_Bijection
  <2>3. nfree + PagesPerProc = NPages
    BY SlotFacts DEF Init
  <2> QED BY <2>2, <2>3 DEF PagesConserved, Init
<1>8. always \in [Procs -> SUBSET Procs] /\ ever \in [Procs -> SUBSET Procs] /\ last = NoLine
  BY DEF Init
<1> QED BY <1>2, <1>3, <1>4, <1>5, <1>6, <1>7, <1>8 DEF IInv, System, History

LEMMA IInvNext ==
  ASSUME IInv, [Next]_vars
  PROVE  IInv'
<1>1. CASE UNCHANGED vars
  <2>1. System'
    BY <1>1 DEF vars, IInv, System, SystemTypeOK, ThreadOK, ForkOK, ChildrenDiffer, OneReaper,
       MaskKept, LockHeld, PagesConserved, Held, FreememExact, At
  <2>2. History'
    BY <1>1 DEF vars, IInv, History, WatchOK, InUse, NprocBounded, At
  <2> QED BY <2>1, <2>2 DEF IInv
<1>2. CASE Next
  <2>1. PICK p \in Procs :
          /\ \/ Handler(p) /\ last' = NoLine
             \/ Return(p)
          /\ always' = [q \in Procs |-> Watch(q, always[q], always[q] \cap InUse')]
          /\ ever' = [q \in Procs |-> Watch(q, ever[q], ever[q] \cup InUse')]
    BY <1>2 DEF Next
  <2>2. System' /\ CountMoves(p)
    BY <2>1, HandlerStep
  <2>3. last' \in {NoLine} \cup [who : Procs, num : Calls, line : BOOLEAN]
    <3>1. CASE Return(p)
      BY <3>1 DEF Return, Printed, IInv, System, ThreadOK, At
    <3> QED BY <2>1, <3>1
  <2> QED BY <2>1, <2>2, <2>3, HistoryStep DEF IInv
<1> QED BY <1>1, <1>2

-----------------------------------------------------------------------------
(* The inductive invariant holds in every reachable state.                 *)
THEOREM Invariance == Spec => []IInv
BY IInvInit, IInvNext, PTL DEF Spec

(* fork, its failure and wait give and take every page once: none is lost, *)
(* and an unused slot has none.                                            *)
THEOREM NoPageLost == Spec => []PagesInv
<1>1. IInv => PagesInv
  BY TypeFacts DEF PagesInv, IInv, System
<1> QED BY <1>1, Invariance, PTL

(* kavail counts the free list as it is.                                   *)
THEOREM FreememIsExact == Spec => []FreememExact
<1>1. IInv => FreememExact
  BY DEF IInv, System
<1> QED BY <1>1, Invariance, PTL

(* proc_count, without a lock, misses nobody who stays and counts nobody   *)
(* who was never there.                                                    *)
THEOREM NprocIsBounded == Spec => []NprocBounded
<1>1. IInv => NprocBounded
  BY DEF IInv, History
<1> QED BY <1>1, Invariance, PTL

(* syscall() prints a line for exactly the calls asked for by trace.       *)
THEOREM TracesAreExact == Spec => []TracedAsAsked
<1> DEFINE Exact == IInv /\ TracedAsAsked
<1>1. Init => Exact
  BY IInvInit DEF Init, TracedAsAsked
<1>2. Exact /\ [Next]_vars => Exact'
  <2> SUFFICES ASSUME Exact, [Next]_vars PROVE TracedAsAsked'
    BY IInvNext
  <2>1. CASE UNCHANGED vars
    BY <2>1 DEF vars, TracedAsAsked
  <2>2. ASSUME NEW p \in Procs, Handler(p), last' = NoLine PROVE TracedAsAsked'
    BY <2>2 DEF TracedAsAsked
  <2>3. ASSUME NEW p \in Procs, Return(p) PROVE TracedAsAsked'
    <3>1. trace_mask[p] = asked[p]
      BY <2>3 DEF IInv, System, ThreadOK, MaskKept, Return, At
    <3>2. last'.who = p /\ last'.num = th[p].num /\ last'.line = (th[p].num \in trace_mask[p])
          /\ asked' = asked
      BY <2>3 DEF Return, Printed
    <3> QED BY <3>1, <3>2 DEF TracedAsAsked
  <2> QED BY <2>1, <2>2, <2>3 DEF Next
<1>3. Exact => TracedAsAsked
  OBVIOUS
<1> HIDE DEF Exact
<1> QED BY <1>1, <1>2, <1>3, PTL DEF Spec
=============================================================================
