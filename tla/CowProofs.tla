----------------------------- MODULE CowProofs -----------------------------
(***************************************************************************)
(* Proofs about Cow, for any number of processes that fits in a count, any *)
(* number of frames, pages and harts: at every point of every operation    *)
(* the counts, the free list and the page tables agree.                    *)
(*                                                                         *)
(* The second half is about what Cow promises to the processes when no     *)
(* system call writes to user memory (copyout loses pages: run cow_hole).  *)
(* On any number of harts no page below p->sz is missing, so fork never    *)
(* panics.  On one hart every process has a memory of its own: Cow         *)
(* implements AddressSpaces.  On two it does not (run cow_smp_isolation).  *)
(***************************************************************************)
EXTENDS Cow, FiniteSetTheorems, TLAPS

USE RcMaxAssumption, FramesAssumption, SizesAssumption, ProcsAssumption

-----------------------------------------------------------------------------
(* Kmem: the arithmetic of a count in a char, and what the two operations  *)
(* on the linked list do to what is on it.                                 *)

(* A count that fits in a signed char is stored as it is.                  *)
LEMMA SignedCharFits ==
  ASSUME NEW n \in 0..RcMax
  PROVE  SignedChar(n) = n
BY DEF SignedChar

(* ... and read back from an unsigned char as it is.                       *)
LEMMA UnsignedCharFits ==
  ASSUME NEW n \in 0..RcMax
  PROVE  UnsignedChar(n) = n
BY DEF UnsignedChar

InList(f, s) == \E i \in DOMAIN s : s[i] = f
NoDuplicates(s) == \A i, j \in DOMAIN s : s[i] = s[j] => i = j

(* What is on the list when its head has left it.                          *)
LEMMA TailList ==
  ASSUME NEW s \in Seq(Frames), s # <<>>, NoDuplicates(s)
  PROVE  /\ Head(s) \in Frames
         /\ InList(Head(s), s)
         /\ Tail(s) \in Seq(Frames)
         /\ NoDuplicates(Tail(s))
         /\ \A f \in Frames : InList(f, Tail(s)) <=> InList(f, s) /\ f # Head(s)
<1>1. Head(s) \in Frames /\ Tail(s) \in Seq(Frames) /\ Head(s) = s[1] /\ Len(s) \in Nat \ {0}
  OBVIOUS
<1>2. DOMAIN s = 1..Len(s) /\ DOMAIN Tail(s) = 1..(Len(s) - 1)
  OBVIOUS
<1>3. \A i \in 1..(Len(s) - 1) : Tail(s)[i] = s[i + 1]
  OBVIOUS
<1>4. NoDuplicates(Tail(s))
  BY <1>1, <1>2, <1>3 DEF NoDuplicates
<1>5. ASSUME NEW f \in Frames
      PROVE  InList(f, Tail(s)) <=> InList(f, s) /\ f # Head(s)
  <2>1. ASSUME InList(f, Tail(s)) PROVE InList(f, s) /\ f # Head(s)
    BY <1>1, <1>2, <1>3, <2>1 DEF InList, NoDuplicates
  <2>2. ASSUME InList(f, s), f # Head(s) PROVE InList(f, Tail(s))
    <3>1. PICK i \in 1..Len(s) : s[i] = f
      BY <1>2, <2>2 DEF InList
    <3>2. i - 1 \in 1..(Len(s) - 1) /\ Tail(s)[i - 1] = f
      BY <1>1, <1>3, <2>2, <3>1
    <3> QED BY <1>2, <3>2 DEF InList
  <2> QED BY <2>1, <2>2
<1>6. InList(Head(s), s)
  BY <1>1, <1>2 DEF InList
<1> QED BY <1>1, <1>4, <1>5, <1>6

(* What is on the list when a page has been put at its head.               *)
LEMMA ConsList ==
  ASSUME NEW s \in Seq(Frames), NoDuplicates(s), NEW g \in Frames, ~InList(g, s)
  PROVE  /\ <<g>> \o s \in Seq(Frames)
         /\ NoDuplicates(<<g>> \o s)
         /\ \A f \in Frames : InList(f, <<g>> \o s) <=> InList(f, s) \/ f = g
<1> DEFINE c == <<g>> \o s
<1>1. c \in Seq(Frames) /\ Len(c) = Len(s) + 1 /\ Len(s) \in Nat
  OBVIOUS
<1>2. DOMAIN s = 1..Len(s) /\ DOMAIN c = 1..(Len(s) + 1)
  BY <1>1
<1>3. c[1] = g /\ \A i \in 1..Len(s) : c[i + 1] = s[i]
  OBVIOUS
<1>4. \A i \in 2..(Len(s) + 1) : i - 1 \in 1..Len(s) /\ c[i] = s[i - 1]
  BY <1>1, <1>3
<1>5. DOMAIN c = {1} \cup 2..(Len(s) + 1) /\ 1 \in DOMAIN c
  BY <1>1, <1>2
<1> HIDE DEF c
<1>6. ASSUME NEW i \in DOMAIN c, NEW j \in DOMAIN c, c[i] = c[j] PROVE i = j
  <2>1. CASE i = 1 /\ j = 1
    BY <2>1
  <2>2. CASE i = 1 /\ j \in 2..(Len(s) + 1)
    BY <2>2, <1>2, <1>3, <1>4, <1>6 DEF InList
  <2>3. CASE j = 1 /\ i \in 2..(Len(s) + 1)
    BY <2>3, <1>2, <1>3, <1>4, <1>6 DEF InList
  <2>4. CASE i \in 2..(Len(s) + 1) /\ j \in 2..(Len(s) + 1)
    <3>1. s[i - 1] = s[j - 1] /\ i - 1 \in DOMAIN s /\ j - 1 \in DOMAIN s
      BY <2>4, <1>2, <1>4, <1>6
    <3>2. i - 1 = j - 1
      BY <3>1 DEF NoDuplicates
    <3> QED BY <2>4, <3>2, <1>1
  <2> QED BY <1>5, <2>1, <2>2, <2>3, <2>4
<1>7. NoDuplicates(c)
  BY <1>6 DEF NoDuplicates
<1>8. ASSUME NEW f \in Frames PROVE InList(f, c) <=> InList(f, s) \/ f = g
  <2>1. ASSUME InList(f, c) PROVE InList(f, s) \/ f = g
    <3>1. PICK i \in DOMAIN c : c[i] = f
      BY <2>1 DEF InList
    <3> QED BY <3>1, <1>2, <1>3, <1>4, <1>5 DEF InList
  <2>2. ASSUME InList(f, s) PROVE InList(f, c)
    <3>1. PICK i \in 1..Len(s) : s[i] = f
      BY <2>2, <1>2 DEF InList
    <3>2. i + 1 \in DOMAIN c /\ c[i + 1] = f
      BY <3>1, <1>1, <1>2, <1>3
    <3> QED BY <3>2 DEF InList
  <2>3. ASSUME f = g PROVE InList(f, c)
    BY <2>3, <1>3, <1>5 DEF InList
  <2> QED BY <2>1, <2>2, <2>3
<1> QED BY <1>1, <1>7, <1>8 DEF c

-----------------------------------------------------------------------------

-----------------------------------------------------------------------------
(* The inductive invariant.  Beside what is to be proved, it says for each *)
(* place in the code what the thread that is there knows of its locals, of *)
(* the page table it works on, and of the page it has in hand.             *)

QuietPcs == {"user", "killed", "cow", "cow_copy", "copyout", "uvmalloc"}
Freeing(p, kret) == th[p].pc \in {"kfree", "kfree_push"} /\ th[p].kret = kret
Unmapper(p) == th[p].pc = "unmap" \/ Freeing(p, "unmap")
Enlarging(q) == "uvmalloc" \in {th[q].pc, th[q].kret, th[q].ret}

NoPages(q, from, to) == \A w \in VPages : from <= w /\ w < to => ~Valid(pt[q][w])

(* Only init, when it reaps, is ever outside user mode and not live.       *)
Alive(p) ==
  th[p].pc # "user" =>
    IF p \in Procs THEN st[p] = "live" ELSE th[p].ret = "uvmfree"

ShapeOK(p) ==
  /\ th[p].pc \in QuietPcs \cup {"uvmcopy", "kfree"} => th[p].ret = "none"
  /\ th[p].pc \in QuietPcs \cup {"uvmcopy"} => th[p].kret = "none"
  /\ th[p].pc \in QuietPcs => th[p].tgt = NoProc
  /\ th[p].pc = "kfree" => th[p].kret \in {"uvmcopy", "uvmalloc"}
  /\ th[p].pc = "kfree_push" => th[p].kret # "none"

(* cow() works on a page below p->sz, also while it is not mapped.         *)
CowOK(p) ==
  /\ th[p].pc = "cow" => th[p].lo \in VPages
  /\ th[p].pc = "cow_copy" =>
       /\ th[p].new \in Frames /\ th[p].pa \in Frames
       /\ th[p].lo \in VPages /\ th[p].lo < sz[p]
       /\ ~Valid(pt[p][th[p].lo])

(* The child of fork() has the pages below the cursor and no others.       *)
CopyOK(p) ==
  th[p].pc = "uvmcopy" =>
    /\ th[p].tgt \in Procs /\ st[th[p].tgt] = "embryo"
    /\ th[p].v <= th[p].end /\ th[p].end = sz[p]
    /\ NoPages(th[p].tgt, th[p].v, MaxSz)

CopyFailOK(p) ==
  Freeing(p, "uvmcopy") =>
    /\ th[p].tgt \in Procs /\ st[th[p].tgt] = "embryo" /\ th[p].ret = "none"
    /\ th[p].v \in VPages /\ th[p].pa \in Frames /\ pt[p][th[p].v].pa = th[p].pa
    /\ NoPages(th[p].tgt, th[p].v, MaxSz)

(* sbrk() has not mapped the pages from the cursor on.                     *)
GrowOK(p) ==
  /\ th[p].pc = "uvmalloc" \/ Freeing(p, "uvmalloc") =>
       /\ sz[p] <= th[p].v /\ th[p].v <= th[p].end
       /\ NoPages(p, th[p].v, MaxSz)
  /\ Freeing(p, "uvmalloc") =>
       th[p].pa \in Frames /\ th[p].tgt = NoProc /\ th[p].ret = "none"

(* What each caller of uvmunmap knows of the range it has given.           *)
RetOK(p) ==
  \/ /\ th[p].ret = "cow" /\ th[p].tgt = p
     /\ th[p].end = th[p].lo + 1 /\ th[p].end <= sz[p] /\ th[p].pa \in Frames
  \/ th[p].ret = "sbrk" /\ th[p].tgt = p /\ th[p].end = sz[p]
  \/ /\ th[p].ret = "uvmalloc" /\ th[p].tgt = p /\ th[p].lo = sz[p]
     /\ NoPages(p, th[p].end, MaxSz)
  \/ /\ th[p].ret = "uvmcopy" /\ st[th[p].tgt] = "embryo" /\ th[p].lo = 0
     /\ NoPages(th[p].tgt, th[p].end, MaxSz)
  \/ /\ th[p].ret = "uvmfree" /\ st[th[p].tgt] = "zombie" /\ th[p].lo = 0
     /\ th[p].end = sz[th[p].tgt]

(* uvmunmap has cleared the PTEs below the cursor.                         *)
UnmapOK(p) ==
  Unmapper(p) =>
    /\ th[p].kret = "unmap"
    /\ th[p].tgt \in Procs
    /\ th[p].lo <= th[p].v /\ th[p].v <= th[p].end
    /\ NoPages(th[p].tgt, th[p].lo, th[p].v)
    /\ th[p].pc = "kfree_push" => th[p].v < th[p].end /\ Valid(TargetPte(p))
    /\ RetOK(p)

(* A page that kalloc has just returned to p, or that kfree is about to    *)
(* put on the free list, has one reference, the one of p.                  *)
OwnFrame(p, f) ==
  \/ th[p].pc = "cow_copy" /\ th[p].new = f
  \/ Freeing(p, "uvmalloc") /\ th[p].pa = f
  \/ th[p].pc = "kfree_push" /\ KfreePa(p) = f

OwnOK(p) == \A f \in Frames : OwnFrame(p, f) => mem_rc[f] = 1

ThreadOK(p) ==
  /\ Alive(p) /\ ShapeOK(p)
  /\ CowOK(p) /\ CopyOK(p) /\ CopyFailOK(p) /\ GrowOK(p) /\ UnmapOK(p)
  /\ OwnOK(p)

(* No page is mapped beyond p->sz, except while sbrk() makes it larger.    *)
Extent(q) ==
  /\ st[q] = "unused" => NoPages(q, 0, MaxSz)
  /\ st[q] \in {"live", "zombie"} /\ ~Enlarging(q) => NoPages(q, sz[q], MaxSz)

(* A page is writable for its only owner.                                  *)
WritableOne ==
  \A q \in Procs, v \in VPages :
    pt[q][v].w => Valid(pt[q][v]) /\ mem_rc[pt[q][v].pa] = 1

(* Sharers have a page at the same address: that is why there are never    *)
(* more references than processes.                                         *)
SameAddress ==
  \A q, r \in Procs, v, w \in VPages :
    Valid(pt[q][v]) /\ pt[q][v].pa = pt[r][w].pa => v = w

(* Two threads never work on the page table of the same process.           *)
TargetsDiffer ==
  \A p, r \in Threads : p # r /\ th[p].tgt # NoProc => th[p].tgt # th[r].tgt

IInv ==
  /\ TypeOK /\ RcExact /\ FreelistExact
  /\ WritableOne /\ SameAddress /\ TargetsDiffer
  /\ \A p \in Threads : ThreadOK(p)
  /\ \A q \in Procs : Extent(q)
  /\ CountsNeverPanic

-----------------------------------------------------------------------------
(* Counting references.                                                    *)

LEMMA MappingsDef ==
  ASSUME NEW f, NEW q \in Procs, NEW v \in VPages
  PROVE  <<q, v>> \in Mappings(f) <=> pt[q][v].pa = f
BY DEF Mappings

LEMMA RefsFinite ==
  ASSUME NEW f
  PROVE  IsFiniteSet(Mappings(f)) /\ IsFiniteSet(Holders(f))
<1>0. IsFiniteSet(VPages)
  BY FS_Interval DEF VPages
<1>1. IsFiniteSet(Procs \X VPages)
  BY <1>0, FS_Product
<1>2. Mappings(f) \subseteq Procs \X VPages /\ Holders(f) \subseteq Procs
  BY DEF Mappings, Holders
<1> QED BY <1>1, <1>2, FS_Subset

(* A page with one reference has only that one.                            *)
LEMMA SoleReference ==
  ASSUME RcExact, NEW f \in Frames, mem_rc[f] = 1
  PROVE  /\ \A m \in Mappings(f) : Mappings(f) = {m} /\ Holders(f) = {}
         /\ \A p \in Holders(f) : Holders(f) = {p} /\ Mappings(f) = {}
<1> DEFINE M == Mappings(f)
           H == Holders(f)
<1>1. IsFiniteSet(M) /\ IsFiniteSet(H)
  BY RefsFinite
<1>2. Cardinality(M) \in Nat /\ Cardinality(H) \in Nat /\ Cardinality(M) + Cardinality(H) = 1
  BY <1>1, FS_CardinalityType DEF RcExact
<1>3. (Cardinality(M) = 0 <=> M = {}) /\ (Cardinality(H) = 0 <=> H = {})
  BY <1>1, FS_EmptySet
<1>4. Cardinality(M) = 1 => \E m : M = {m}
  BY <1>1, FS_Singleton, Zenon
<1>5. Cardinality(H) = 1 => \E p : H = {p}
  BY <1>1, FS_Singleton, Zenon
<1>6. (Cardinality(M) = 1 /\ Cardinality(H) = 0) \/ (Cardinality(M) = 0 /\ Cardinality(H) = 1)
  BY <1>2
<1> QED BY <1>3, <1>4, <1>5, <1>6

(* A page with a reference has a count that is not bad.                    *)
LEMMA ReferencedIsNotBad ==
  ASSUME TypeOK, RcExact, NEW f \in Frames,
         (\E q \in Procs, v \in VPages : pt[q][v].pa = f) \/ \E p \in Procs : InHand(p, f)
  PROVE  mem_rc[f] \in 1..RcMax
<1>1. IsFiniteSet(Mappings(f)) /\ IsFiniteSet(Holders(f))
  BY RefsFinite
<1>2. Cardinality(Mappings(f)) \in Nat /\ Cardinality(Holders(f)) \in Nat
  BY <1>1, FS_CardinalityType
<1>3. Mappings(f) # {} \/ Holders(f) # {}
  <2>1. ASSUME NEW q \in Procs, NEW v \in VPages, pt[q][v].pa = f
        PROVE  Mappings(f) # {}
    BY <2>1, MappingsDef
  <2>2. ASSUME NEW p \in Procs, InHand(p, f)
        PROVE  Holders(f) # {}
    BY <2>2 DEF Holders
  <2> QED BY <2>1, <2>2
<1>4. Cardinality(Mappings(f)) # 0 \/ Cardinality(Holders(f)) # 0
  BY <1>1, <1>3, FS_EmptySet
<1>5. mem_rc[f] \in 0..RcMax /\ mem_rc[f] = Cardinality(Mappings(f)) + Cardinality(Holders(f))
  BY DEF TypeOK, RcExact
<1> QED BY <1>2, <1>4, <1>5

(* A page without references is neither mapped nor in hand.                *)
LEMMA Unreferenced ==
  ASSUME RcExact, NEW f \in Frames, mem_rc[f] = 0
  PROVE  Mappings(f) = {} /\ Holders(f) = {}
<1>1. IsFiniteSet(Mappings(f)) /\ IsFiniteSet(Holders(f))
  BY RefsFinite
<1>2. Cardinality(Mappings(f)) \in Nat /\ Cardinality(Holders(f)) \in Nat
  BY <1>1, FS_CardinalityType
<1>3. Cardinality(Mappings(f)) = 0 /\ Cardinality(Holders(f)) = 0
  BY <1>2 DEF RcExact
<1> QED BY <1>1, <1>3, FS_EmptySet

(* What a write of one PTE does to the mappings of a page.                 *)
LEMMA PteWritten ==
  ASSUME TypeOK, NEW q \in Procs, NEW v \in VPages, NEW e,
         pt' = [pt EXCEPT ![q][v] = e], NEW f
  PROVE  Mappings(f)' = IF e.pa = f THEN Mappings(f) \cup {<<q, v>>}
                                    ELSE Mappings(f) \ {<<q, v>>}
<1>1. pt \in [Procs -> [VPages -> PteType]]
  BY DEF TypeOK
<1>2. \A m \in Procs \X VPages :
         pt'[m[1]][m[2]] = IF m = <<q, v>> THEN e ELSE pt[m[1]][m[2]]
  BY <1>1
<1>3. <<q, v>> \in Procs \X VPages
  OBVIOUS
<1> QED BY <1>2, <1>3 DEF Mappings

(* What a step of thread p does to the holders of a page.                  *)
LEMMA ThreadMoved ==
  ASSUME TypeOK, NEW p \in Procs, \A r \in Procs \ {p} : th'[r] = th[r], NEW f
  PROVE  Holders(f)' = IF InHand(p, f)' THEN Holders(f) \cup {p} ELSE Holders(f) \ {p}
<1>1. \A r \in Procs \ {p} : InHand(r, f)' <=> InHand(r, f)
  BY DEF InHand
<1> QED BY <1>1 DEF Holders

(* init never holds a page.                                                *)
LEMMA InitMoved ==
  ASSUME \A r \in Procs : th'[r] = th[r], NEW f
  PROVE  Holders(f)' = Holders(f)
BY DEF Holders, InHand

-----------------------------------------------------------------------------
(* What one thread knows, a step of another one does not change.           *)

(* A step that leaves the locals of r, the processes r works for and the   *)
(* pages r has for itself as they are keeps what r knows.                  *)
LEMMA OtherThread ==
  ASSUME IInv, NEW r \in Threads, th'[r] = th[r],
         th[r].pc # "user" =>
           /\ \A q \in Procs \cap {r, th[r].tgt} :
                pt'[q] = pt[q] /\ sz'[q] = sz[q] /\ st'[q] = st[q]
           /\ \A f \in Frames : OwnFrame(r, f) => mem_rc'[f] = mem_rc[f]
  PROVE  ThreadOK(r)'
<1>1. ThreadOK(r)
  BY DEF IInv
<1>2. Alive(r)' /\ ShapeOK(r)'
  BY <1>1 DEF ThreadOK, Alive, ShapeOK
<1>3. CASE th[r].pc = "user"
  <2>1. th[r].kret = "none"
    BY <1>1, <1>3 DEF ThreadOK, ShapeOK, QuietPcs
  <2> QED BY <1>2, <1>3, <2>1 DEF ThreadOK, CowOK, CopyOK, CopyFailOK, GrowOK, UnmapOK, OwnOK,
          OwnFrame, Freeing, Unmapper
<1>4. CASE th[r].pc # "user"
  <2>1. \A q \in Procs \cap {r, th[r].tgt} : pt'[q] = pt[q] /\ sz'[q] = sz[q] /\ st'[q] = st[q]
    BY <1>4
  <2>2. r \in Procs \/ th[r].ret = "uvmfree"
    BY <1>1, <1>4 DEF ThreadOK, Alive
  <2>3. CowOK(r)' /\ GrowOK(r)'
    BY <1>1, <2>1, <2>2 DEF ThreadOK, ShapeOK, CowOK, GrowOK, QuietPcs, Freeing, NoPages
  <2>4. CopyOK(r)' /\ CopyFailOK(r)'
    BY <1>1, <2>1, <2>2 DEF ThreadOK, ShapeOK, CopyOK, CopyFailOK, Freeing, NoPages
  <2>5. RetOK(r)' /\ th[r].tgt \in Procs <=> RetOK(r) /\ th[r].tgt \in Procs
    BY <2>1, <2>2 DEF RetOK, NoPages
  <2>6. UnmapOK(r)'
    BY <1>1, <2>1, <2>5 DEF ThreadOK, UnmapOK, Unmapper, Freeing, NoPages, TargetPte
  <2>7. \A f \in Frames : OwnFrame(r, f)' <=> OwnFrame(r, f)
    <3>1. th[r].pc = "kfree_push" => KfreePa(r)' = KfreePa(r)
      BY <1>1, <2>1 DEF ThreadOK, UnmapOK, Unmapper, Freeing, KfreePa, TargetPte
    <3> QED BY <3>1 DEF OwnFrame, Freeing
  <2>8. OwnOK(r)'
    BY <1>1, <1>4, <2>7 DEF ThreadOK, OwnOK
  <2> QED BY <1>2, <2>3, <2>4, <2>6, <2>8 DEF ThreadOK
<1> QED BY <1>3, <1>4

(* The processes that two threads work for are different ones.             *)
LEMMA Disjoint ==
  ASSUME IInv, NEW p \in Threads, NEW r \in Threads \ {p},
         p \in Procs => st[p] = "live", th[r].pc # "user"
  PROVE  {r, th[r].tgt} \cap {p, th[p].tgt} \cap Procs = {}
<1>1. ThreadOK(p) /\ ThreadOK(r)
  BY DEF IInv
<1>2. ASSUME NEW s \in Threads, ThreadOK(s), th[s].tgt \in Procs, th[s].tgt # s
      PROVE  st[th[s].tgt] # "live"
  BY SMTT(30), <1>2 DEF ThreadOK, ShapeOK, CopyOK, CopyFailOK, GrowOK, UnmapOK, RetOK, Freeing,
     Unmapper, QuietPcs, Pcs, IInv, TypeOK, Locals
<1>3. r \in Procs => st[r] = "live"
  BY <1>1 DEF ThreadOK, Alive
<1>4. th[p].tgt # th[r].tgt \/ th[p].tgt = NoProc
  BY DEF IInv, TargetsDiffer
<1>5. th[p].tgt \in Procs => th[p].tgt # r
  BY <1>1, <1>2, <1>3
<1>6. th[r].tgt \in Procs => th[r].tgt # p
  BY <1>1, <1>2
<1> QED BY <1>4, <1>5, <1>6

(* Nobody else refers to a page that a thread has for itself.              *)
LEMMA OwnIsOwn ==
  ASSUME IInv, NEW r \in Threads, NEW f \in Frames, OwnFrame(r, f)
  PROVE  /\ mem_rc[f] = 1
         /\ \A p \in Procs \ {r} : ~InHand(p, f)
         /\ \A q \in Procs, v \in VPages : pt[q][v].pa = f => q = th[r].tgt
<1>1. ThreadOK(r) /\ RcExact
  BY DEF IInv
<1>2. mem_rc[f] = 1
  BY <1>1 DEF ThreadOK, OwnOK
<1>3. CASE InHand(r, f) /\ r \in Procs
  <2>1. r \in Holders(f)
    BY <1>3 DEF Holders
  <2>2. Holders(f) = {r} /\ Mappings(f) = {}
    BY <1>1, <1>2, <2>1, SoleReference
  <2> QED BY <1>2, <2>2, MappingsDef DEF Holders
<1>4. CASE ~(InHand(r, f) /\ r \in Procs)
  <2>1. th[r].pc = "kfree_push" /\ th[r].kret = "unmap"
    BY <1>1, <1>4 DEF OwnFrame, InHand, Freeing, ThreadOK, ShapeOK, Alive, CopyFailOK, GrowOK,
       KfreePa, QuietPcs, IInv, TypeOK, Locals
  <2>2. th[r].tgt \in Procs /\ th[r].v \in VPages /\ pt[th[r].tgt][th[r].v].pa = f
    BY <1>1, <2>1 DEF OwnFrame, ThreadOK, UnmapOK, Unmapper, Freeing, KfreePa, TargetPte, VPages,
       IInv, TypeOK, Locals
  <2>3. <<th[r].tgt, th[r].v>> \in Mappings(f)
    BY <2>2, MappingsDef
  <2>4. Mappings(f) = {<<th[r].tgt, th[r].v>>} /\ Holders(f) = {}
    BY <1>1, <1>2, <2>3, SoleReference
  <2> QED BY <1>2, <2>4, MappingsDef DEF Holders
<1> QED BY <1>3, <1>4

-----------------------------------------------------------------------------
(* Steps that touch neither a count nor a PTE.                             *)

(* A step of p that may also change the size and the state of the          *)
(* processes in D, which nobody else works for.                            *)
LEMMA QuietStep ==
  ASSUME IInv, NEW p \in Threads, NEW t \in Locals, NEW D \in SUBSET Procs,
         th' = [th EXCEPT ![p] = t],
         UNCHANGED <<freelist, mem_rc, pt, panicked>>,
         mem' \in [Frames -> Data \cup {JunkFree, JunkAlloc}],
         parent' \in [Procs -> Threads],
         sz' \in [Procs -> 0..MaxSz],
         st' \in [Procs -> {"unused", "embryo", "live", "zombie"}],
         \A q \in Procs \ D : st'[q] = st[q] /\ sz'[q] = sz[q],
         \A r \in Threads \ {p} : th[r].pc # "user" => r \notin D /\ th[r].tgt \notin D,
         p \in Procs => \A f \in Frames : InHand(p, f)' <=> InHand(p, f),
         t.tgt # NoProc => \A r \in Threads \ {p} : th[r].tgt # t.tgt,
         ThreadOK(p)',
         \A q \in Procs \cap (D \cup {p}) : Extent(q)'
  PROVE  IInv'
<1>1. TypeOK'
  BY DEF IInv, TypeOK
<1>2. \A r \in Threads : th'[r] = IF r = p THEN t ELSE th[r]
  BY DEF IInv, TypeOK
<1>3. \A f \in Frames : Mappings(f)' = Mappings(f)
  BY DEF Mappings
<1>4. \A f \in Frames : Holders(f)' = Holders(f)
  BY <1>2 DEF Holders, InHand
<1>5. RcExact'
  BY <1>3, <1>4 DEF IInv, RcExact
<1>6. FreelistExact' /\ WritableOne' /\ SameAddress' /\ CountsNeverPanic'
  <2>1. FreelistExact'
    BY DEF IInv, FreelistExact
  <2>2. WritableOne'
    BY DEF IInv, WritableOne
  <2>3. SameAddress'
    BY DEF IInv, SameAddress
  <2>4. CountsNeverPanic'
    BY DEF IInv, CountsNeverPanic
  <2> QED BY <2>1, <2>2, <2>3, <2>4
<1>7. TargetsDiffer'
  BY <1>2 DEF IInv, TargetsDiffer
<1>8. ASSUME NEW r \in Threads PROVE ThreadOK(r)'
  BY <1>2, OtherThread
<1>9. ASSUME NEW q \in Procs PROVE Extent(q)'
  <2>1. CASE q \in D \cup {p}
    BY <2>1
  <2>2. CASE q \notin D \cup {p}
    BY <1>2, <2>2 DEF IInv, Extent, Enlarging, NoPages, Threads
  <2> QED BY <2>1, <2>2
<1> QED BY <1>1, <1>5, <1>6, <1>7, <1>8, <1>9 DEF IInv

(* The special case of a step that only moves p along.                     *)
LEMMA LocalStep ==
  ASSUME IInv, NEW p \in Threads, NEW t \in Locals,
         th' = [th EXCEPT ![p] = t],
         UNCHANGED <<freelist, mem_rc, pt, sz, st, parent, panicked>>,
         mem' \in [Frames -> Data \cup {JunkFree, JunkAlloc}],
         p \in Procs => \A f \in Frames : InHand(p, f)' <=> InHand(p, f),
         t.tgt # NoProc => t.tgt = th[p].tgt \/ \A r \in Threads \ {p} : th[r].tgt # t.tgt,
         ThreadOK(p)',
         p \in Procs => Extent(p)'
  PROVE  IInv'
<1>1. t.tgt # NoProc => \A r \in Threads \ {p} : th[r].tgt # t.tgt
  BY DEF IInv, TargetsDiffer
<1>2. /\ sz \in [Procs -> 0..MaxSz] /\ parent \in [Procs -> Threads]
      /\ st \in [Procs -> {"unused", "embryo", "live", "zombie"}]
  BY DEF IInv, TypeOK
<1>3. {} \in SUBSET Procs /\ \A q \in Procs \ {} : st'[q] = st[q] /\ sz'[q] = sz[q]
  OBVIOUS
<1>4. \A r \in Threads \ {p} : th[r].pc # "user" => r \notin {} /\ th[r].tgt \notin {}
  OBVIOUS
<1>5. \A q \in Procs \cap ({} \cup {p}) : Extent(q)'
  OBVIOUS
<1>6. sz' = sz /\ st' = st /\ parent' = parent
  OBVIOUS
<1> QED BY <1>1, <1>2, <1>3, <1>4, <1>5, <1>6, QuietStep

(* A thread in user mode, on its way there, or about to look at a PTE has  *)
(* nothing in hand and relies on nothing.                                  *)
LEMMA RestingThread ==
  ASSUME NEW p \in Threads,
         th'[p].pc \in {"user", "killed", "cow", "copyout"},
         th'[p].ret = "none", th'[p].kret = "none", th'[p].tgt = NoProc,
         th'[p].pc # "user" => p \in Procs /\ st'[p] = "live",
         th'[p].pc = "cow" => th'[p].lo \in VPages
  PROVE  ThreadOK(p)' /\ ~Enlarging(p)' /\ \A f : ~InHand(p, f)'
BY DEF ThreadOK, Alive, ShapeOK, CowOK, CopyOK, CopyFailOK, GrowOK, UnmapOK, OwnOK, OwnFrame,
   Freeing, Unmapper, Enlarging, InHand, QuietPcs

(* The size of a process that is not growing bounds what it maps, before   *)
(* and after a step that does not touch its memory.                        *)
LEMMA ExtentStays ==
  ASSUME IInv, NEW q \in Procs, ~Enlarging(q) \/ Enlarging(q)',
         pt'[q] = pt[q], sz'[q] = sz[q], st'[q] = st[q]
  PROVE  Extent(q)'
BY DEF IInv, Extent, NoPages

LEMMA UserIsResting ==
  ASSUME IInv, NEW p \in Threads, th[p].pc = "user" \/ th[p].pc \in {"killed", "cow", "copyout"}
  PROVE  /\ th[p].ret = "none" /\ th[p].kret = "none" /\ th[p].tgt = NoProc
         /\ ~Enlarging(p) /\ \A f : ~InHand(p, f)
BY DEF IInv, ThreadOK, ShapeOK, Enlarging, InHand, QuietPcs

(* User has the type of a thread's locals.                                 *)
LEMMA UserType == User \in Locals
BY DEF User, Locals, Pcs

(* Stores in user mode, the two ways into cow() and the write of copyout.  *)
LEMMA StoreStep ==
  ASSUME IInv, NEW p \in Procs, NEW v \in VPages, NEW d \in Data, Store(p, v, d)
  PROVE  IInv'
<1>1. th[p].pc = "user" /\ th' = [th EXCEPT ![p] = th[p]] /\ th[p] \in Locals /\ th'[p] = th[p]
  BY DEF Store, InUser, IInv, TypeOK, Threads
<1>2. p \in Threads
  BY DEF Threads
<1>3. ThreadOK(p)' /\ Extent(p)' /\ \A f : InHand(p, f)' <=> InHand(p, f)
  BY <1>1, <1>2, UserIsResting, RestingThread, ExtentStays DEF Store
<1>4. mem' \in [Frames -> Data \cup {JunkFree, JunkAlloc}]
  BY DEF Store, IInv, TypeOK
<1> QED BY <1>1, <1>2, <1>3, <1>4, LocalStep DEF Store

LEMMA EnterCowStep ==
  ASSUME IInv, NEW p \in Procs, NEW v \in VPages, StoreFault(p, v) \/ Copyout(p, v)
  PROVE  IInv'
<1>1. PICK t \in Locals :
        /\ th' = [th EXCEPT ![p] = t]
        /\ t.pc \in {"cow", "copyout"} /\ t.lo = v
        /\ t.ret = "none" /\ t.kret = "none" /\ t.tgt = NoProc
  <2>1. ASSUME NEW pc \in {"cow", "copyout"}, NEW c \in {"fault", "copyout"}
        PROVE  LET t == [User EXCEPT !.pc = pc, !.caller = c, !.lo = v] IN
               /\ t \in Locals /\ t.pc = pc /\ t.lo = v
               /\ t.ret = "none" /\ t.kret = "none" /\ t.tgt = NoProc
    <3>1. v \in 0..MaxSz
      BY DEF VPages
    <3>2. [User EXCEPT !.pc = pc, !.caller = c, !.lo = v] \in Locals
      BY <3>1, UserType DEF Locals, Pcs
    <3>3. LET t == [User EXCEPT !.pc = pc, !.caller = c, !.lo = v] IN
          t.pc = pc /\ t.lo = v
      BY DEF User
    <3>4. LET t == [User EXCEPT !.pc = pc, !.caller = c, !.lo = v] IN
          t.ret = "none" /\ t.kret = "none" /\ t.tgt = NoProc
      BY DEF User
    <3> QED BY <3>2, <3>3, <3>4
  <2> QED BY <2>1 DEF StoreFault, Copyout, GoTo
<1>2. /\ th[p].pc = "user" /\ st[p] = "live" /\ p \in Threads
      /\ UNCHANGED <<freelist, mem_rc, mem, pt, sz, st, parent, panicked>>
  BY DEF StoreFault, Copyout, InUser, Threads
<1>3. th'[p] = t
  BY <1>1, <1>2 DEF IInv, TypeOK
<1>4. ThreadOK(p)' /\ Extent(p)' /\ \A f : InHand(p, f)' <=> InHand(p, f)
  BY <1>1, <1>2, <1>3, UserIsResting, RestingThread, ExtentStays
<1>5. mem' \in [Frames -> Data \cup {JunkFree, JunkAlloc}]
  BY <1>2 DEF IInv, TypeOK
<1> QED BY <1>1, <1>2, <1>4, <1>5, LocalStep

(* A thread with nothing in hand comes to rest.                            *)
LEMMA RestStep ==
  ASSUME IInv, NEW p \in Procs, st[p] = "live", NEW t \in Locals,
         t.pc \in {"user", "killed", "cow", "copyout"}, t.pc = "cow" => t.lo \in VPages,
         t.ret = "none", t.kret = "none", t.tgt = NoProc,
         th' = [th EXCEPT ![p] = t],
         UNCHANGED <<freelist, mem_rc, pt, sz, st, parent, panicked>>,
         mem' \in [Frames -> Data \cup {JunkFree, JunkAlloc}],
         \A f \in Frames : ~InHand(p, f),
         ~Enlarging(p) \/ NoPages(p, sz[p], MaxSz)
  PROVE  IInv'
<1>1. p \in Threads /\ th'[p] = t
  BY DEF IInv, TypeOK, Threads
<1>2. ThreadOK(p)' /\ ~Enlarging(p)' /\ \A f \in Frames : InHand(p, f)' <=> InHand(p, f)
  BY <1>1, RestingThread
<1>3. Extent(p)'
  BY <1>2, ExtentStays DEF Extent, NoPages
<1> QED BY <1>1, <1>2, <1>3, LocalStep

LEMMA UserLocals ==
  ASSUME NEW pc \in Pcs, NEW c \in {"none", "fault", "copyout"}, NEW lo \in 0..MaxSz
  PROVE  /\ [User EXCEPT !.pc = pc] \in Locals
         /\ [User EXCEPT !.pc = pc, !.caller = c, !.lo = lo] \in Locals
BY UserType DEF Locals

LEMMA CopyoutWriteStep ==
  ASSUME IInv, NEW p \in Procs, NEW d \in Data, CopyoutWrite(p, d)
  PROVE  IInv'
<1>1. th[p].pc = "copyout" /\ p \in Threads /\ th' = [th EXCEPT ![p] = User]
  BY DEF CopyoutWrite, GoTo, Threads
<1>2. st[p] = "live"
  BY <1>1 DEF IInv, ThreadOK, Alive
<1>3. mem' \in [Frames -> Data \cup {JunkFree, JunkAlloc}]
  BY DEF CopyoutWrite, IInv, TypeOK
<1>4. User.pc = "user" /\ User.ret = "none" /\ User.kret = "none" /\ User.tgt = NoProc
  BY DEF User
<1> QED BY <1>1, <1>2, <1>3, <1>4, UserType, UserIsResting, RestStep DEF CopyoutWrite

(* cow() returns 0: to user mode, or to usertrap, which kills the process. *)
LEMMA CowReturns0Step ==
  ASSUME IInv, NEW p \in Procs, st[p] = "live", CowReturns0(p),
         UNCHANGED <<freelist, mem_rc, mem, pt, sz, st, parent, panicked>>,
         \A f \in Frames : ~InHand(p, f), ~Enlarging(p)
  PROVE  IInv'
<1>1. mem' \in [Frames -> Data \cup {JunkFree, JunkAlloc}]
  BY DEF IInv, TypeOK
<1>2. User.pc = "user" /\ User.ret = "none" /\ User.kret = "none" /\ User.tgt = NoProc
  BY DEF User
<1>3. CASE th[p].caller = "fault"
  <2> DEFINE t == [User EXCEPT !.pc = "killed"]
  <2>1. t \in Locals
    BY UserLocals DEF Pcs
  <2>2. t.pc = "killed" /\ t.ret = "none" /\ t.kret = "none" /\ t.tgt = NoProc
    BY DEF User
  <2>3. th' = [th EXCEPT ![p] = t]
    BY <1>3 DEF CowReturns0, GoTo
  <2> HIDE DEF t
  <2> QED BY <1>1, <2>1, <2>2, <2>3, RestStep
<1>4. CASE th[p].caller # "fault"
  <2>1. th' = [th EXCEPT ![p] = User]
    BY <1>4 DEF CowReturns0, GoTo
  <2> QED BY <1>1, <1>2, <2>1, UserType, RestStep
<1> QED BY <1>3, <1>4

LEMMA CowRefuseStep ==
  ASSUME IInv, NEW p \in Procs, CowRefuse(p)
  PROVE  IInv'
<1>1. th[p].pc = "cow" /\ p \in Threads
  BY DEF CowRefuse, Threads
<1>2. st[p] = "live"
  BY <1>1 DEF IInv, ThreadOK, Alive
<1> QED BY <1>1, <1>2, UserIsResting, CowReturns0Step DEF CowRefuse

(* A thread in uvmunmap has nothing in hand: what it frees is still mapped. *)
LEMMA UnmappingThread ==
  ASSUME IInv, NEW p \in Threads, th[p].pc = "unmap"
  PROVE  /\ UnmapOK(p) /\ th[p].kret = "unmap"
         /\ th[p].tgt \in Procs
         /\ p \in Procs => st[p] = "live"
         /\ \A f : ~InHand(p, f)
         /\ th[p].ret # "none"
         /\ Enlarging(p) <=> th[p].ret = "uvmalloc"
BY DEF IInv, ThreadOK, Alive, UnmapOK, Unmapper, InHand, RetOK, Enlarging

LEMMA CowNoMemoryStep ==
  ASSUME IInv, NEW p \in Procs, CowNoMemory(p)
  PROVE  IInv'
<1>1. th[p].pc = "unmap" /\ th[p].ret = "cow" /\ p \in Threads
  BY DEF CowNoMemory, Unmapped, Threads
<1> QED BY <1>1, UnmappingThread, CowReturns0Step DEF CowNoMemory, FreelistEmpty

LEMMA GrowFailedStep ==
  ASSUME IInv, NEW p \in Procs, GrowFailed(p)
  PROVE  IInv'
<1>1. /\ th[p].pc = "unmap" /\ th[p].ret = "uvmalloc" /\ th[p].v = th[p].end /\ p \in Threads
      /\ th' = [th EXCEPT ![p] = User]
  BY DEF GrowFailed, Unmapped, Threads, GoTo
<1>2. /\ UnmapOK(p) /\ st[p] = "live" /\ \A f : ~InHand(p, f)
  BY <1>1, UnmappingThread
<1>3. NoPages(p, sz[p], MaxSz)
  <2>1. RetOK(p) /\ NoPages(th[p].tgt, th[p].lo, th[p].v)
    BY <1>1, <1>2 DEF UnmapOK, Unmapper
  <2>2. th[p].tgt = p /\ th[p].lo = sz[p] /\ NoPages(p, th[p].end, MaxSz)
    BY <1>1, <2>1 DEF RetOK
  <2>3. sz[p] \in Int /\ th[p].end \in Int
    BY <1>1 DEF IInv, TypeOK, Locals
  <2> QED BY <1>1, <2>1, <2>2, <2>3 DEF NoPages, VPages
<1>4. mem' \in [Frames -> Data \cup {JunkFree, JunkAlloc}]
  BY DEF GrowFailed, IInv, TypeOK
<1>5. User.pc = "user" /\ User.ret = "none" /\ User.kret = "none" /\ User.tgt = NoProc
  BY DEF User
<1> QED BY <1>1, <1>2, <1>3, <1>4, <1>5, UserType, RestStep DEF GrowFailed

-----------------------------------------------------------------------------
(* uvmunmap, as far as it only reads.                                      *)

(* What is to be shown of a thread that enters uvmunmap.                   *)
LEMMA UnmapBegins ==
  ASSUME NEW p \in Threads,
         th'[p].pc = "unmap", th'[p].kret = "unmap", th'[p].tgt \in Procs,
         th'[p].lo \in Nat, th'[p].v = th'[p].lo, th'[p].end \in Nat, th'[p].lo <= th'[p].end,
         IF p \in Procs THEN st'[p] = "live" ELSE th'[p].ret = "uvmfree",
         RetOK(p)'
  PROVE  ThreadOK(p)' /\ \A f : ~InHand(p, f)'
BY DEF ThreadOK, Alive, ShapeOK, CowOK, CopyOK, CopyFailOK, GrowOK, UnmapOK, OwnOK, OwnFrame,
   Freeing, Unmapper, InHand, QuietPcs, NoPages, VPages

(* A thread with nothing in hand enters uvmunmap.                          *)
LEMMA UnmapBeginsStep ==
  ASSUME IInv, NEW p \in Threads, NEW t \in Locals,
         th' = [th EXCEPT ![p] = t],
         t.pc = "unmap", t.kret = "unmap", t.tgt \in Procs, t.v = t.lo, t.lo <= t.end,
         UNCHANGED <<freelist, mem_rc, mem, pt, sz, st, parent, panicked>>,
         \A f : ~InHand(p, f),
         IF p \in Procs THEN st[p] = "live" ELSE t.ret = "uvmfree",
         \A r \in Threads \ {p} : th[r].tgt # t.tgt,
         RetOK(p)',
         p \in Procs => ~Enlarging(p) \/ t.ret = "uvmalloc"
  PROVE  IInv'
<1>1. th'[p] = t
  BY DEF IInv, TypeOK
<1>2. t.lo \in Nat /\ t.end \in Nat
  BY DEF Locals
<1>3. ThreadOK(p)' /\ \A f : ~InHand(p, f)'
  BY <1>1, <1>2, UnmapBegins
<1>4. p \in Procs => Extent(p)'
  BY <1>1, ExtentStays DEF Enlarging
<1>5. mem' \in [Frames -> Data \cup {JunkFree, JunkAlloc}]
  BY DEF IInv, TypeOK
<1> QED BY <1>3, <1>4, <1>5, LocalStep

(* A live process that nobody works for but itself is nobody's target.     *)
LEMMA NobodysTarget ==
  ASSUME IInv, NEW p \in Procs, st[p] = "live", NEW r \in Threads \ {p}
  PROVE  th[r].tgt # p
<1>1. p \in Threads /\ p # NoProc
  BY DEF Threads
<1>2. CASE th[r].pc = "user"
  BY <1>1, <1>2, UserIsResting
<1>3. CASE th[r].pc # "user"
  BY <1>1, <1>3, Disjoint
<1> QED BY <1>2, <1>3

LEMMA CowLetGoStep ==
  ASSUME IInv, NEW p \in Procs, CowLetGo(p)
  PROVE  IInv'
<1>1. th[p].pc = "cow" /\ p \in Threads /\ IsCowPage(p)
  BY DEF CowLetGo, Threads
<1> DEFINE v == th[p].lo
           a == pt[p][v].pa
           b == [th[p] EXCEPT !.pa = a]
<1>2. st[p] = "live" /\ v \in VPages /\ ~Enlarging(p) /\ \A f : ~InHand(p, f)
  BY <1>1, UserIsResting DEF IInv, ThreadOK, Alive, CowOK
<1>3. a \in Frames
  BY <1>1, <1>2 DEF IsCowPage, FaultPte, Valid, IInv, TypeOK, PteType
<1>4. ~(ReadRc(a) <= 0)
  <2>1. mem_rc[a] \in 1..RcMax
    BY <1>2, <1>3, ReferencedIsNotBad DEF IInv
  <2>2. ReadRc(a) = mem_rc[a]
    BY <2>1, UnsignedCharFits DEF ReadRc
  <2> QED BY <2>1, <2>2
<1>5. /\ th' = [th EXCEPT ![p] = Unmapping(b, p, v, v + 1, "cow")]
      /\ UNCHANGED <<freelist, mem_rc, mem, pt, sz, st, parent, panicked>>
  BY <1>4 DEF CowLetGo, GoTo, FaultPte
<1>6. b \in Locals /\ b.pa = a
  <2>1. th[p] \in Locals
    BY <1>1 DEF IInv, TypeOK
  <2> QED BY <1>3, <2>1 DEF Locals
<1>7. v < sz[p] /\ v \in 0..MaxSz /\ v + 1 \in 0..MaxSz /\ sz[p] \in 0..MaxSz
  <2>1. NoPages(p, sz[p], MaxSz)
    BY <1>2 DEF IInv, Extent
  <2>2. Valid(pt[p][v])
    BY <1>1 DEF IsCowPage, FaultPte
  <2>3. sz[p] \in 0..MaxSz
    BY DEF IInv, TypeOK
  <2> HIDE DEF v
  <2> QED BY <1>2, <2>1, <2>2, <2>3 DEF NoPages, VPages
<1> HIDE DEF b, v, a
<1>8. PICK t \in Locals : t = Unmapping(b, p, v, v + 1, "cow")
  BY <1>6, <1>7 DEF Unmapping, Locals, Pcs
<1>9. /\ t.pc = "unmap" /\ t.kret = "unmap" /\ t.ret = "cow" /\ t.tgt = p
      /\ t.v = t.lo /\ t.lo = v /\ t.end = v + 1 /\ t.pa = a
  BY <1>6, <1>8 DEF Unmapping, Locals
<1>10. th' = [th EXCEPT ![p] = t] /\ th'[p] = t
  BY <1>1, <1>5, <1>8 DEF IInv, TypeOK
<1>11. RetOK(p)'
  BY <1>3, <1>5, <1>7, <1>9, <1>10 DEF RetOK
<1>12. \A r \in Threads \ {p} : th[r].tgt # p
  BY <1>2, NobodysTarget
<1>13. t.lo <= t.end
  BY <1>7, <1>9
<1> QED BY <1>1, <1>2, <1>5, <1>9, <1>10, <1>11, <1>12, <1>13, UnmapBeginsStep

LEMMA ShrinkStep ==
  ASSUME IInv, NEW p \in Procs, NEW n \in 0..MaxSz, Shrink(p, n)
  PROVE  IInv'
<1>1. /\ th[p].pc = "user" /\ st[p] = "live" /\ p \in Threads /\ n < sz[p] /\ sz[p] \in 0..MaxSz
      /\ th' = [th EXCEPT ![p] = Unmapping(User, p, n, sz[p], "sbrk")]
      /\ UNCHANGED <<freelist, mem_rc, mem, pt, sz, st, parent, panicked>>
  BY DEF Shrink, InUser, GoTo, Threads, IInv, TypeOK
<1>2. PICK t \in Locals : t = Unmapping(User, p, n, sz[p], "sbrk")
  BY ZenonT(60), <1>1, UserType DEF Unmapping, Locals, Pcs
<1>3. /\ t.pc = "unmap" /\ t.kret = "unmap" /\ t.ret = "sbrk" /\ t.tgt = p
      /\ t.v = t.lo /\ t.lo = n /\ t.end = sz[p]
  BY <1>2, UserType DEF Unmapping, Locals
<1>4. th' = [th EXCEPT ![p] = t] /\ th'[p] = t
  BY <1>1, <1>2 DEF IInv, TypeOK
<1>5. RetOK(p)'
  BY <1>1, <1>3, <1>4 DEF RetOK
<1>6. \A r \in Threads \ {p} : th[r].tgt # p
  BY <1>1, NobodysTarget
<1>7. t.lo <= t.end
  BY <1>1, <1>3
<1>8. ~Enlarging(p) /\ \A f : ~InHand(p, f)
  BY <1>1, UserIsResting
<1> QED BY <1>1, <1>3, <1>4, <1>5, <1>6, <1>7, <1>8, UnmapBeginsStep

LEMMA UvmallocNoMemoryStep ==
  ASSUME IInv, NEW p \in Procs, UvmallocNoMemory(p)
  PROVE  IInv'
<1>1. /\ th[p].pc = "uvmalloc" /\ p \in Threads
      /\ sz[p] \in 0..MaxSz /\ th[p] \in Locals /\ th[p].v \in 0..MaxSz
      /\ th' = [th EXCEPT ![p] = Unmapping(th[p], p, sz[p], th[p].v, "uvmalloc")]
      /\ UNCHANGED <<freelist, mem_rc, mem, pt, sz, st, parent, panicked>>
  BY DEF UvmallocNoMemory, FreelistEmpty, Growing, GoTo, Threads, IInv, TypeOK, Locals
<1>2. st[p] = "live" /\ sz[p] <= th[p].v /\ NoPages(p, th[p].v, MaxSz)
  BY <1>1 DEF IInv, ThreadOK, Alive, GrowOK
<1>3. PICK t \in Locals : t = Unmapping(th[p], p, sz[p], th[p].v, "uvmalloc")
  BY <1>1 DEF Unmapping, Locals, Pcs
<1>4. /\ t.pc = "unmap" /\ t.kret = "unmap" /\ t.ret = "uvmalloc" /\ t.tgt = p
      /\ t.v = t.lo /\ t.lo = sz[p] /\ t.end = th[p].v
  BY <1>1, <1>3 DEF Unmapping, Locals
<1>5. th' = [th EXCEPT ![p] = t] /\ th'[p] = t
  BY <1>1, <1>3 DEF IInv, TypeOK
<1>6. RetOK(p)'
  BY <1>1, <1>2, <1>4, <1>5 DEF RetOK, NoPages
<1>7. \A r \in Threads \ {p} : th[r].tgt # p
  BY <1>2, NobodysTarget
<1>8. t.lo <= t.end
  BY <1>2, <1>4
<1>9. \A f : ~InHand(p, f)
  BY <1>1 DEF InHand
<1> QED BY <1>1, <1>2, <1>4, <1>5, <1>6, <1>7, <1>8, <1>9, UnmapBeginsStep

(* wait() takes a zombie that nobody else works on: wait_lock.             *)
LEMMA WaitBeginsStep ==
  ASSUME IInv, NEW p \in Threads, NEW c \in Procs, Wait(p, c)
  PROVE  IInv'
<1>1. /\ th[p].pc = "user" /\ (p \in Procs => st[p] = "live")
      /\ st[c] = "zombie" /\ \A q \in Threads : th[q].ret # "uvmfree"
      /\ th' = [th EXCEPT ![p] = Unmapping(User, c, 0, sz[c], "uvmfree")]
      /\ UNCHANGED <<freelist, mem_rc, mem, pt, sz, st, parent, panicked>>
  BY DEF Wait, InUser, WaitLockFree, GoTo
<1>2. sz[c] \in 0..MaxSz /\ 0 \in 0..MaxSz
  BY DEF IInv, TypeOK
<1>3. PICK t \in Locals : t = Unmapping(User, c, 0, sz[c], "uvmfree")
  BY <1>2, UserType DEF Unmapping, Locals, Pcs
<1>4. /\ t.pc = "unmap" /\ t.kret = "unmap" /\ t.ret = "uvmfree" /\ t.tgt = c
      /\ t.v = t.lo /\ t.lo = 0 /\ t.end = sz[c]
  BY <1>3, UserType DEF Unmapping, Locals
<1>5. th' = [th EXCEPT ![p] = t] /\ th'[p] = t
  BY <1>1, <1>3 DEF IInv, TypeOK
<1>6. RetOK(p)'
  BY <1>1, <1>4, <1>5 DEF RetOK, NoPages
<1>7. ASSUME NEW r \in Threads PROVE th[r].tgt # c
  <2>1. ThreadOK(r) /\ th[r].ret # "uvmfree" /\ th[r] \in Locals
    BY <1>1 DEF IInv, TypeOK
  <2>2. r \in Procs /\ th[r].pc # "user" => st[r] = "live"
    BY <2>1 DEF ThreadOK, Alive
  <2> QED BY <1>1, <2>1, <2>2 DEF ThreadOK, ShapeOK, CopyOK, CopyFailOK, GrowOK, UnmapOK, RetOK,
          Freeing, Unmapper, QuietPcs, Pcs, Locals, Threads
<1>8. t.lo <= t.end
  BY <1>2, <1>4
<1>9. ~Enlarging(p) /\ \A f : ~InHand(p, f)
  BY <1>1, UserIsResting
<1>10. IF p \in Procs THEN st[p] = "live" ELSE t.ret = "uvmfree"
  BY <1>1, <1>4
<1>11. t.tgt \in Procs /\ \A r \in Threads \ {p} : th[r].tgt # t.tgt
  BY <1>4, <1>7
<1> QED BY <1>1, <1>4, <1>5, <1>6, <1>8, <1>9, <1>10, <1>11, UnmapBeginsStep

LEMMA GrowStep ==
  ASSUME IInv, NEW p \in Procs, NEW n \in 0..MaxSz, Grow(p, n)
  PROVE  IInv'
<1>1. /\ th[p].pc = "user" /\ st[p] = "live" /\ p \in Threads
      /\ sz[p] \in 0..MaxSz /\ sz[p] < n
      /\ th' = [th EXCEPT ![p] = [User EXCEPT !.pc = "uvmalloc", !.v = sz[p],
                                              !.lo = sz[p], !.end = n]]
      /\ UNCHANGED <<freelist, mem_rc, mem, pt, sz, st, parent, panicked>>
  BY DEF Grow, InUser, GoTo, Threads, IInv, TypeOK
<1>2. PICK t \in Locals :
        t = [User EXCEPT !.pc = "uvmalloc", !.v = sz[p], !.lo = sz[p], !.end = n]
  BY <1>1, UserType DEF Locals, Pcs
<1>3. /\ t.pc = "uvmalloc" /\ t.kret = "none" /\ t.ret = "none" /\ t.tgt = NoProc
      /\ t.v = sz[p] /\ t.end = n
  BY <1>2 DEF User
<1>4. th' = [th EXCEPT ![p] = t] /\ th'[p] = t
  BY <1>1, <1>2 DEF IInv, TypeOK
<1>5. ~Enlarging(p) /\ \A f : ~InHand(p, f)
  BY <1>1, UserIsResting
<1>6. NoPages(p, sz[p], MaxSz)
  BY <1>1, <1>5 DEF IInv, Extent
<1>7. ThreadOK(p)' /\ \A f : ~InHand(p, f)'
  <2>1. GrowOK(p)'
    BY <1>1, <1>3, <1>4, <1>6 DEF GrowOK, NoPages, Freeing
  <2> QED BY <1>1, <1>3, <1>4, <2>1
     DEF ThreadOK, Alive, ShapeOK, CowOK, CopyOK, CopyFailOK, UnmapOK, OwnOK, OwnFrame,
         Freeing, Unmapper, InHand, QuietPcs
<1>8. Extent(p)'
  BY <1>1, <1>5, ExtentStays
<1>9. mem' \in [Frames -> Data \cup {JunkFree, JunkAlloc}]
  BY <1>1 DEF IInv, TypeOK
<1> QED BY <1>1, <1>3, <1>4, <1>5, <1>7, <1>8, <1>9, LocalStep

LEMMA UnmapSkipStep ==
  ASSUME IInv, NEW p \in Threads, UnmapSkip(p)
  PROVE  IInv'
<1>1. /\ th[p].pc = "unmap" /\ th[p].v < th[p].end /\ ~Valid(TargetPte(p))
      /\ th' = [th EXCEPT ![p] = [th[p] EXCEPT !.v = @ + 1]]
      /\ UNCHANGED <<freelist, mem_rc, mem, pt, sz, st, parent, panicked>>
  BY DEF UnmapSkip, Unmaps, GoTo
<1>2. /\ th[p] \in Locals /\ th[p].v \in 0..MaxSz /\ th[p].end \in 0..MaxSz
      /\ th[p].lo \in 0..MaxSz /\ th[p].v + 1 \in 0..MaxSz
  <2>1. th[p] \in Locals
    BY DEF IInv, TypeOK
  <2>2. /\ th[p].v \in 0..MaxSz /\ th[p].end \in 0..MaxSz /\ th[p].lo \in 0..MaxSz
    BY <2>1 DEF Locals
  <2> QED BY <1>1, <2>1, <2>2
<1>3. PICK t \in Locals : t = [th[p] EXCEPT !.v = @ + 1]
  BY <1>1, <1>2 DEF Locals
<1>4. t.v = th[p].v + 1
  BY <1>2, <1>3 DEF Locals
<1>5. /\ t.pc = "unmap" /\ t.kret = th[p].kret /\ t.ret = th[p].ret /\ t.tgt = th[p].tgt
      /\ t.lo = th[p].lo /\ t.end = th[p].end /\ t.pa = th[p].pa
  BY <1>1, <1>2, <1>3 DEF Locals
<1>6. th' = [th EXCEPT ![p] = t] /\ th'[p] = t
  BY <1>1, <1>3 DEF IInv, TypeOK
<1>7. UnmapOK(p) /\ th[p].kret = "unmap" /\ th[p].ret # "none" /\ \A f : ~InHand(p, f)
  BY <1>1, UnmappingThread
<1>8. UnmapOK(p)'
  <2>1. RetOK(p)'
    BY <1>1, <1>5, <1>6, <1>7 DEF UnmapOK, Unmapper, RetOK, NoPages
  <2>2. NoPages(th[p].tgt, th[p].lo, th[p].v + 1)
    BY <1>1, <1>2, <1>7 DEF UnmapOK, Unmapper, NoPages, TargetPte, VPages
  <2> QED BY <1>1, <1>2, <1>4, <1>5, <1>6, <1>7, <2>1, <2>2 DEF UnmapOK, Unmapper, NoPages
<1>9. ThreadOK(p)' /\ \A f : ~InHand(p, f)'
  <2>1. Alive(p)
    BY DEF IInv, ThreadOK
  <2> QED BY <1>1, <1>5, <1>6, <1>7, <1>8, <2>1
     DEF ThreadOK, Alive, ShapeOK, CowOK, CopyOK, CopyFailOK, GrowOK, OwnOK, OwnFrame,
         Freeing, InHand, QuietPcs
<1>10. p \in Procs => Extent(p)'
  BY <1>1, <1>5, <1>6, ExtentStays DEF Enlarging
<1>11. mem' \in [Frames -> Data \cup {JunkFree, JunkAlloc}]
  BY <1>1 DEF IInv, TypeOK
<1> QED BY <1>1, <1>5, <1>6, <1>7, <1>9, <1>10, <1>11, LocalStep

-----------------------------------------------------------------------------
(* kfree.                                                                  *)

(* The page that is freed is still referred to: it is mapped at the cursor *)
(* of uvmunmap, or it is the page that an error path has in hand.          *)
LEMMA FreedIsReferenced ==
  ASSUME IInv, NEW p \in Threads, Kfrees(p) \/ th[p].pc = "kfree_push"
  PROVE  /\ KfreePa(p) \in Frames /\ mem_rc[KfreePa(p)] \in 1..RcMax
         /\ p \in Procs => st[p] = "live"
         /\ \/ /\ th[p].kret = "unmap" /\ UnmapOK(p)
               /\ th[p].tgt \in Procs /\ th[p].v \in VPages /\ th[p].v < th[p].end
               /\ pt[th[p].tgt][th[p].v].pa = KfreePa(p)
               /\ \A f : ~InHand(p, f)
            \/ /\ th[p].kret \in {"uvmcopy", "uvmalloc"} /\ p \in Procs
               /\ \A f : InHand(p, f) <=> f = KfreePa(p)
<1>1. ThreadOK(p) /\ th[p] \in Locals /\ th[p].end \in 0..MaxSz /\ th[p].v \in 0..MaxSz
  BY DEF IInv, TypeOK, Locals
<1>2. th[p].pc \in {"unmap", "kfree", "kfree_push"}
  BY DEF Kfrees, Unmaps
<1>3. p \in Procs => st[p] = "live"
  BY <1>1, <1>2 DEF ThreadOK, Alive
<1>4. CASE th[p].kret = "unmap"
  <2>1. Unmapper(p) /\ th[p].pc # "kfree"
    BY <1>1, <1>2, <1>4 DEF Unmapper, Freeing, ThreadOK, ShapeOK
  <2>2. UnmapOK(p) /\ th[p].tgt \in Procs /\ th[p].v < th[p].end /\ Valid(TargetPte(p))
    BY <1>1, <2>1 DEF ThreadOK, UnmapOK, Kfrees, Unmaps
  <2>3. th[p].v \in VPages
    BY <1>1, <2>2 DEF VPages
  <2>4. KfreePa(p) = pt[th[p].tgt][th[p].v].pa /\ KfreePa(p) \in Frames
    BY <1>4, <2>2, <2>3 DEF KfreePa, TargetPte, Valid, IInv, TypeOK, PteType
  <2>5. mem_rc[KfreePa(p)] \in 1..RcMax
    BY <2>2, <2>3, <2>4, ReferencedIsNotBad DEF IInv
  <2>6. \A f : ~InHand(p, f)
    BY <1>4 DEF InHand, IInv, ThreadOK, ShapeOK, QuietPcs
  <2> QED BY <1>3, <1>4, <2>2, <2>3, <2>4, <2>5, <2>6
<1>5. CASE th[p].kret # "unmap"
  <2>1. th[p].pc # "unmap"
    BY <1>1, <1>5 DEF ThreadOK, UnmapOK, Unmapper
  <2>2. th[p].kret \in {"uvmcopy", "uvmalloc"} /\ KfreePa(p) = th[p].pa
    BY <1>1, <1>2, <1>5, <2>1 DEF ThreadOK, ShapeOK, Locals, KfreePa
  <2>3. th[p].pa \in Frames /\ th[p].ret = "none"
    BY <1>1, <1>2, <2>1, <2>2 DEF ThreadOK, CopyFailOK, GrowOK, Freeing
  <2>4. p \in Procs
    BY <1>1, <1>2, <2>3 DEF ThreadOK, Alive, Threads
  <2>5. \A f : InHand(p, f) <=> f = KfreePa(p)
    BY <1>2, <2>1, <2>2 DEF InHand
  <2>6. mem_rc[KfreePa(p)] \in 1..RcMax
    BY <2>2, <2>3, <2>4, <2>5, ReferencedIsNotBad DEF IInv
  <2> QED BY <1>3, <2>2, <2>3, <2>4, <2>5, <2>6
<1> QED BY <1>4, <1>5

LEMMA KfreeLastStep ==
  ASSUME IInv, NEW p \in Threads, KfreeLast(p)
  PROVE  IInv'
<1>1. Kfrees(p)
  BY DEF KfreeLast
<1>2. KfreePa(p) \in Frames /\ mem_rc[KfreePa(p)] \in 1..RcMax
  BY <1>1, FreedIsReferenced
<1>3. /\ mem_rc[KfreePa(p)] = 1
      /\ mem' = [mem EXCEPT ![KfreePa(p)] = JunkFree]
      /\ th' = [th EXCEPT ![p] = [th[p] EXCEPT !.pc = "kfree_push"]]
      /\ UNCHANGED <<freelist, mem_rc, pt, sz, st, parent, panicked>>
  BY <1>2 DEF KfreeLast, Shared, BadRc, Fill, GoTo
<1>4. th[p] \in Locals /\ ThreadOK(p)
  BY DEF IInv, TypeOK
<1>5. PICK t \in Locals : t = [th[p] EXCEPT !.pc = "kfree_push"]
  BY <1>4 DEF Locals, Pcs
<1>6. /\ t.pc = "kfree_push" /\ t.kret = th[p].kret /\ t.ret = th[p].ret /\ t.tgt = th[p].tgt
      /\ t.lo = th[p].lo /\ t.end = th[p].end /\ t.v = th[p].v /\ t.pa = th[p].pa
  BY <1>4, <1>5 DEF Locals
<1>7. th' = [th EXCEPT ![p] = t] /\ th'[p] = t
  BY <1>3, <1>5 DEF IInv, TypeOK
<1>8. th[p].pc \in {"unmap", "kfree"} /\ th[p].kret # "none"
  BY <1>1, <1>4 DEF Kfrees, Unmaps, ThreadOK, ShapeOK, UnmapOK, Unmapper
<1>9. \A f : InHand(p, f)' <=> InHand(p, f)
  <2>1. th[p].pc = "unmap" => th[p].kret = "unmap"
    BY <1>4 DEF ThreadOK, UnmapOK, Unmapper
  <2> QED BY <1>6, <1>7, <1>8, <2>1 DEF InHand
<1>10. KfreePa(p)' = KfreePa(p)
  BY <1>3, <1>6, <1>7 DEF KfreePa, TargetPte
<1>11. OwnOK(p)'
  BY <1>3, <1>6, <1>7, <1>10 DEF OwnOK, OwnFrame, Freeing, KfreePa
<1>12. UnmapOK(p)'
  <2> SUFFICES ASSUME th[p].kret = "unmap" PROVE UnmapOK(p)'
    BY <1>6, <1>7 DEF UnmapOK, Unmapper, Freeing
  <2>1. th[p].pc = "unmap" /\ th[p].v < th[p].end /\ Valid(TargetPte(p)) /\ UnmapOK(p)
    BY <1>1, <1>4, <1>8 DEF Kfrees, Unmaps, ThreadOK, ShapeOK
  <2>2. RetOK(p)'
    BY <1>3, <1>6, <1>7, <2>1 DEF UnmapOK, Unmapper, RetOK, NoPages
  <2> QED BY <1>3, <1>6, <1>7, <2>1, <2>2 DEF UnmapOK, Unmapper, NoPages, TargetPte
<1>13. CopyFailOK(p)' /\ GrowOK(p)'
  <2>1. \A kret \in {"uvmcopy", "uvmalloc"} : Freeing(p, kret)' => Freeing(p, kret)
    BY <1>4, <1>6, <1>7, <1>8 DEF Freeing, ThreadOK, UnmapOK, Unmapper
  <2>2. CopyFailOK(p)'
    BY <1>3, <1>4, <1>6, <1>7, <2>1 DEF ThreadOK, CopyFailOK, NoPages
  <2>3. GrowOK(p)'
    BY <1>3, <1>4, <1>6, <1>7, <2>1 DEF ThreadOK, GrowOK, NoPages
  <2> QED BY <2>2, <2>3
<1>14. Alive(p)' /\ ShapeOK(p)' /\ CowOK(p)' /\ CopyOK(p)'
  BY <1>3, <1>4, <1>6, <1>7, <1>8 DEF ThreadOK, Alive, ShapeOK, CowOK, CopyOK, QuietPcs
<1>15. ThreadOK(p)'
  BY <1>11, <1>12, <1>13, <1>14 DEF ThreadOK
<1>16. p \in Procs => Extent(p)'
  BY <1>3, <1>4, <1>6, <1>7, <1>8, ExtentStays DEF Enlarging
<1>17. mem' \in [Frames -> Data \cup {JunkFree, JunkAlloc}]
  BY <1>3 DEF IInv, TypeOK
<1> QED BY <1>3, <1>6, <1>7, <1>9, <1>15, <1>16, <1>17, LocalStep

-----------------------------------------------------------------------------
(* The steps that change the size or the state of a process.               *)

LEMMA DoneStep ==
  ASSUME IInv, NEW p \in Threads, NEW D \in SUBSET Procs,
         th' = [th EXCEPT ![p] = User],
         UNCHANGED <<freelist, mem_rc, mem, pt, panicked>>,
         parent' \in [Procs -> Threads],
         sz' \in [Procs -> 0..MaxSz],
         st' \in [Procs -> {"unused", "embryo", "live", "zombie"}],
         \A q \in Procs \ D : st'[q] = st[q] /\ sz'[q] = sz[q],
         \A r \in Threads \ {p} : th[r].pc # "user" => r \notin D /\ th[r].tgt \notin D,
         \A f : ~InHand(p, f),
         \A q \in Procs \cap (D \cup {p}) : Extent(q)'
  PROVE  IInv'
<1>1. th'[p] = User
  BY DEF IInv, TypeOK
<1>2. User.pc = "user" /\ User.ret = "none" /\ User.kret = "none" /\ User.tgt = NoProc
  BY DEF User
<1>3. ThreadOK(p)' /\ \A f : InHand(p, f)' <=> InHand(p, f)
  BY <1>1, <1>2, RestingThread
<1>4. mem' \in [Frames -> Data \cup {JunkFree, JunkAlloc}]
  BY DEF IInv, TypeOK
<1> QED BY <1>2, <1>3, <1>4, UserType, QuietStep

(* The process that p works for, its own or the one it targets, is nobody  *)
(* else's.                                                                 *)
LEMMA MyOwn ==
  ASSUME IInv, NEW p \in Threads, p \in Procs => st[p] = "live",
         NEW q \in {p, th[p].tgt} \cap Procs, NEW r \in Threads \ {p}, th[r].pc # "user"
  PROVE  r # q /\ th[r].tgt # q
BY Disjoint

LEMMA GrowDoneStep ==
  ASSUME IInv, NEW p \in Procs, GrowDone(p)
  PROVE  IInv'
<1>1. /\ th[p].pc = "uvmalloc" /\ th[p].v = th[p].end /\ p \in Threads
      /\ sz' = [sz EXCEPT ![p] = th[p].end]
      /\ th' = [th EXCEPT ![p] = User]
      /\ UNCHANGED <<freelist, mem_rc, mem, pt, st, parent, panicked>>
  BY DEF GrowDone, GoTo, Threads
<1>2. st[p] = "live" /\ NoPages(p, th[p].v, MaxSz)
  BY <1>1 DEF IInv, ThreadOK, Alive, GrowOK
<1>3. \A f : ~InHand(p, f)
  BY <1>1 DEF InHand
<1>4. sz' \in [Procs -> 0..MaxSz] /\ sz'[p] = th[p].end
  BY <1>1 DEF IInv, TypeOK, Locals
<1>5. Extent(p)'
  BY <1>1, <1>2, <1>4 DEF Extent, NoPages
<1>6. \A r \in Threads \ {p} : th[r].pc # "user" => r \notin {p} /\ th[r].tgt \notin {p}
  BY <1>1, <1>2, MyOwn
<1>7. parent' \in [Procs -> Threads] /\ st' \in [Procs -> {"unused", "embryo", "live", "zombie"}]
  BY <1>1 DEF IInv, TypeOK
<1>8. \A q \in Procs \ {p} : st'[q] = st[q] /\ sz'[q] = sz[q]
  BY <1>1 DEF IInv, TypeOK
<1>9. {p} \in SUBSET Procs /\ \A q \in Procs \cap ({p} \cup {p}) : Extent(q)'
  BY <1>5
<1> QED BY <1>1, <1>3, <1>4, <1>6, <1>7, <1>8, <1>9, DoneStep

LEMMA ShrinkDoneStep ==
  ASSUME IInv, NEW p \in Procs, ShrinkDone(p)
  PROVE  IInv'
<1>1. /\ th[p].pc = "unmap" /\ th[p].ret = "sbrk" /\ th[p].v = th[p].end /\ p \in Threads
      /\ sz' = [sz EXCEPT ![p] = th[p].lo]
      /\ th' = [th EXCEPT ![p] = User]
      /\ UNCHANGED <<freelist, mem_rc, mem, pt, st, parent, panicked>>
  BY DEF ShrinkDone, Unmapped, GoTo, Threads
<1>2. st[p] = "live" /\ UnmapOK(p) /\ ~Enlarging(p) /\ \A f : ~InHand(p, f)
  BY <1>1, UnmappingThread
<1>3. NoPages(p, th[p].lo, sz[p]) /\ NoPages(p, sz[p], MaxSz)
  <2>1. RetOK(p) /\ NoPages(th[p].tgt, th[p].lo, th[p].v)
    BY <1>1, <1>2 DEF UnmapOK, Unmapper
  <2> QED BY <1>1, <1>2, <2>1 DEF RetOK, IInv, Extent
<1>4. sz' \in [Procs -> 0..MaxSz] /\ sz'[p] = th[p].lo
  BY <1>1 DEF IInv, TypeOK, Locals
<1>5. Extent(p)'
  <2>1. sz[p] \in 0..MaxSz /\ th[p].lo \in 0..MaxSz
    BY <1>1 DEF IInv, TypeOK, Locals
  <2> QED BY <1>1, <1>2, <1>3, <1>4, <2>1 DEF Extent, NoPages, VPages
<1>6. \A r \in Threads \ {p} : th[r].pc # "user" => r \notin {p} /\ th[r].tgt \notin {p}
  BY <1>1, <1>2, MyOwn
<1>7. parent' \in [Procs -> Threads] /\ st' \in [Procs -> {"unused", "embryo", "live", "zombie"}]
  BY <1>1 DEF IInv, TypeOK
<1>8. \A q \in Procs \ {p} : st'[q] = st[q] /\ sz'[q] = sz[q]
  BY <1>1 DEF IInv, TypeOK
<1>9. {p} \in SUBSET Procs /\ \A q \in Procs \cap ({p} \cup {p}) : Extent(q)'
  BY <1>5
<1> QED BY <1>1, <1>2, <1>4, <1>6, <1>7, <1>8, <1>9, DoneStep

LEMMA ExitStep ==
  ASSUME IInv, NEW p \in Procs, Exit(p)
  PROVE  IInv'
<1>1. /\ th[p].pc \in {"user", "killed"} /\ p \in Threads
      /\ th[p].pc = "user" => st[p] = "live"
      /\ st' = [st EXCEPT ![p] = "zombie"]
      /\ parent' = [q \in Procs |-> IF parent[q] = p THEN InitProc ELSE parent[q]]
      /\ th' = [th EXCEPT ![p] = User]
      /\ UNCHANGED <<freelist, mem_rc, mem, pt, sz, panicked>>
  BY DEF Exit, InUser, GoTo, Threads
<1>2. st[p] = "live" /\ ~Enlarging(p) /\ \A f : ~InHand(p, f)
  BY <1>1, UserIsResting DEF IInv, ThreadOK, Alive
<1>3. Extent(p)'
  BY <1>1, <1>2 DEF IInv, TypeOK, Extent, NoPages
<1>4. \A r \in Threads \ {p} : th[r].pc # "user" => r \notin {p} /\ th[r].tgt \notin {p}
  BY <1>1, <1>2, MyOwn
<1>5. /\ parent' \in [Procs -> Threads] /\ sz' \in [Procs -> 0..MaxSz]
      /\ st' \in [Procs -> {"unused", "embryo", "live", "zombie"}]
  BY <1>1 DEF IInv, TypeOK, Threads
<1>6. \A q \in Procs \ {p} : st'[q] = st[q] /\ sz'[q] = sz[q]
  BY <1>1 DEF IInv, TypeOK
<1>7. {p} \in SUBSET Procs /\ \A q \in Procs \cap ({p} \cup {p}) : Extent(q)'
  BY <1>3
<1> QED BY <1>1, <1>2, <1>4, <1>5, <1>6, <1>7, DoneStep

(* An unused slot is nobody's target.                                      *)
LEMMA ForkBeginsStep ==
  ASSUME IInv, NEW p \in Procs, NEW c \in Procs, Fork(p, c)
  PROVE  IInv'
<1>1. /\ th[p].pc = "user" /\ st[p] = "live" /\ st[c] = "unused" /\ p \in Threads
      /\ st' = [st EXCEPT ![c] = "embryo"]
      /\ th' = [th EXCEPT ![p] = [User EXCEPT !.pc = "uvmcopy", !.tgt = c, !.end = sz[p]]]
      /\ UNCHANGED <<freelist, mem_rc, mem, pt, sz, parent, panicked>>
  BY DEF Fork, InUser, GoTo, Threads
<1>2. sz[p] \in 0..MaxSz
  BY DEF IInv, TypeOK
<1>3. PICK t \in Locals : t = [User EXCEPT !.pc = "uvmcopy", !.tgt = c, !.end = sz[p]]
  BY <1>2, UserType DEF Locals, Pcs
<1>4. /\ t.pc = "uvmcopy" /\ t.kret = "none" /\ t.ret = "none" /\ t.tgt = c
      /\ t.v = 0 /\ t.end = sz[p]
  BY <1>3 DEF User
<1>5. th' = [th EXCEPT ![p] = t] /\ th'[p] = t
  BY <1>1, <1>3 DEF IInv, TypeOK
<1>6. ASSUME NEW r \in Threads
      PROVE  th[r].tgt # c /\ (th[r].pc # "user" => r # c)
  <2>1. ThreadOK(r) /\ th[r] \in Locals /\ (r = c => r \in Procs)
    BY DEF IInv, TypeOK
  <2> QED BY <1>1, <2>1 DEF ThreadOK, Alive, ShapeOK, CopyOK, CopyFailOK, GrowOK, UnmapOK, RetOK,
          Freeing, Unmapper, QuietPcs, Pcs, Locals, Threads
<1>7. /\ st' \in [Procs -> {"unused", "embryo", "live", "zombie"}]
      /\ st'[c] = "embryo" /\ st'[p] = "live"
      /\ \A q \in Procs \ {c} : st'[q] = st[q] /\ sz'[q] = sz[q]
  BY <1>1 DEF IInv, TypeOK
<1>8. \A w \in VPages : ~Valid(pt[c][w])
  BY <1>1 DEF IInv, Extent, NoPages, VPages
<1>9. ~Enlarging(p) /\ \A f : ~InHand(p, f)
  BY <1>1, UserIsResting
<1>10. ThreadOK(p)' /\ \A f : ~InHand(p, f)'
  <2>1. CopyOK(p)'
    <3>1. \A w \in VPages : ~Valid(pt'[c][w])
      BY <1>1, <1>8
    <3>2. sz'[p] = sz[p] /\ st'[c] = "embryo" /\ 0 <= sz[p]
      BY <1>1, <1>2, <1>7
    <3> QED BY <1>4, <1>5, <3>1, <3>2 DEF CopyOK, NoPages, Valid
  <2> QED BY <1>1, <1>4, <1>5, <1>7, <2>1
     DEF ThreadOK, Alive, ShapeOK, CowOK, CopyFailOK, GrowOK, UnmapOK, OwnOK, OwnFrame,
         Freeing, Unmapper, InHand, QuietPcs
<1>11. Extent(p)' /\ Extent(c)'
  <2>1. Extent(p)'
    BY <1>1, <1>7, <1>9, ExtentStays
  <2> QED BY <1>7, <2>1 DEF Extent
<1>12. /\ mem' \in [Frames -> Data \cup {JunkFree, JunkAlloc}]
       /\ parent' \in [Procs -> Threads] /\ sz' \in [Procs -> 0..MaxSz]
  BY <1>1 DEF IInv, TypeOK
<1>13. PICK D \in SUBSET Procs : D = {c}
  OBVIOUS
<1>14. \A r \in Threads \ {p} : th[r].pc # "user" => r \notin D /\ th[r].tgt \notin D
  BY <1>6, <1>13
<1>15. \A r \in Threads \ {p} : th[r].tgt # t.tgt
  BY <1>4, <1>6
<1>16. /\ UNCHANGED <<freelist, mem_rc, pt, panicked>>
       /\ \A f \in Frames : InHand(p, f)' <=> InHand(p, f)
  BY <1>1, <1>9, <1>10
<1>17. /\ \A q \in Procs \ D : st'[q] = st[q] /\ sz'[q] = sz[q]
       /\ \A q \in Procs \cap (D \cup {p}) : Extent(q)'
  BY <1>7, <1>11, <1>13
<1> QED BY ZenonT(60), <1>1, <1>5, <1>7, <1>10, <1>12, <1>14, <1>15, <1>16, <1>17, QuietStep

LEMMA ForkDoneStep ==
  ASSUME IInv, NEW p \in Procs, ForkDone(p)
  PROVE  IInv'
<1>0. PICK c : c = th[p].tgt
  OBVIOUS
<1>1. /\ th[p].pc = "uvmcopy" /\ th[p].v = th[p].end /\ p \in Threads
      /\ st' = [st EXCEPT ![c] = "live"]
      /\ sz' = [sz EXCEPT ![c] = sz[p]]
      /\ parent' = [parent EXCEPT ![c] = p]
      /\ th' = [th EXCEPT ![p] = User]
      /\ UNCHANGED <<freelist, mem_rc, mem, pt, panicked>>
  BY <1>0 DEF ForkDone, GoTo, Threads
<1>2. /\ st[p] = "live" /\ c \in Procs /\ st[c] = "embryo" /\ th[p].end = sz[p]
      /\ NoPages(c, th[p].v, MaxSz) /\ th[p].ret = "none" /\ th[p].kret = "none"
  BY <1>0, <1>1 DEF IInv, ThreadOK, Alive, CopyOK, ShapeOK
<1>3. /\ sz' \in [Procs -> 0..MaxSz] /\ sz'[c] = sz[p]
      /\ st' \in [Procs -> {"unused", "embryo", "live", "zombie"}] /\ st'[c] = "live"
      /\ parent' \in [Procs -> Threads]
  BY <1>1, <1>2 DEF IInv, TypeOK
<1>4. Extent(c)'
  BY <1>1, <1>2, <1>3 DEF Extent, NoPages
<1>5. \A q \in Procs \ {c} : st'[q] = st[q] /\ sz'[q] = sz[q]
  BY <1>1 DEF IInv, TypeOK
<1>6. Extent(p)'
  BY <1>1, <1>2, <1>5, ExtentStays DEF Enlarging
<1>7. \A r \in Threads \ {p} : th[r].pc # "user" => r \notin {c} /\ th[r].tgt \notin {c}
  BY <1>0, <1>1, <1>2, MyOwn
<1>8. \A f : ~InHand(p, f)
  BY <1>1 DEF InHand
<1>9. {c} \in SUBSET Procs /\ \A q \in Procs \cap ({c} \cup {p}) : Extent(q)'
  BY <1>2, <1>4, <1>6
<1> QED BY <1>1, <1>3, <1>5, <1>7, <1>8, <1>9, DoneStep

(* freeproc() never finds a page that is still mapped.                     *)
LEMMA FreeProcStep ==
  ASSUME IInv, NEW p \in Threads, NEW ret \in {"uvmcopy", "uvmfree"},
         Unmapped(p, ret), FreeProc(p, th[p].tgt)
  PROVE  IInv'
<1>0. PICK q : q = th[p].tgt
  OBVIOUS
<1>1. th[p].pc = "unmap" /\ th[p].v = th[p].end /\ th[p].ret = ret
  BY DEF Unmapped
<1>2. UnmapOK(p) /\ q \in Procs /\ (p \in Procs => st[p] = "live") /\ \A f : ~InHand(p, f)
  BY <1>0, <1>1, UnmappingThread
<1>3. \A w \in VPages : ~Valid(pt[q][w])
  <2>1. RetOK(p) /\ NoPages(q, th[p].lo, th[p].v)
    BY <1>0, <1>1, <1>2 DEF UnmapOK, Unmapper
  <2>2. th[p].lo = 0 /\ th[p].end \in 0..MaxSz
    BY <1>1, <2>1 DEF RetOK, IInv, TypeOK, Locals
  <2>3. NoPages(q, th[p].end, MaxSz)
    <3>1. CASE ret = "uvmcopy"
      BY <1>0, <1>1, <2>1, <3>1 DEF RetOK
    <3>2. CASE ret = "uvmfree"
      <4>1. st[q] = "zombie" /\ th[p].end = sz[q]
        BY <1>0, <1>1, <2>1, <3>2 DEF RetOK
      <4>2. th[q].pc = "user"
        BY <1>2, <4>1 DEF IInv, ThreadOK, Alive, Threads
      <4>3. ~Enlarging(q)
        BY <1>2, <4>2, UserIsResting DEF Threads
      <4> QED BY <1>2, <4>1, <4>3 DEF IInv, Extent
    <3> QED BY <3>1, <3>2
  <2> QED BY <1>1, <2>1, <2>2, <2>3 DEF NoPages, VPages
<1>4. /\ st' = [st EXCEPT ![q] = "unused"]
      /\ sz' = [sz EXCEPT ![q] = 0]
      /\ parent' = [parent EXCEPT ![q] = InitProc]
      /\ th' = [th EXCEPT ![p] = User]
      /\ UNCHANGED <<freelist, mem_rc, mem, pt, panicked>>
  BY <1>0, <1>3 DEF FreeProc, GoTo
<1>5. q # p
  BY <1>0, <1>1, <1>2 DEF UnmapOK, Unmapper, RetOK
<1>6. \A r \in Threads \ {p} : th[r].pc # "user" => r \notin {q} /\ th[r].tgt \notin {q}
  BY <1>0, <1>2, MyOwn
<1>7. /\ sz' \in [Procs -> 0..MaxSz]
      /\ st' \in [Procs -> {"unused", "embryo", "live", "zombie"}] /\ st'[q] = "unused"
      /\ parent' \in [Procs -> Threads]
  BY <1>2, <1>4 DEF IInv, TypeOK, Threads
<1>8. Extent(q)'
  BY <1>3, <1>4, <1>7 DEF Extent, NoPages
<1>9. \A r \in Procs \ {q} : st'[r] = st[r] /\ sz'[r] = sz[r]
  BY <1>4 DEF IInv, TypeOK
<1>10. p \in Procs => Extent(p)'
  <2>1. ~Enlarging(p)
    BY <1>1, <1>2 DEF UnmapOK, Unmapper, Enlarging
  <2> QED BY <1>4, <1>5, <1>9, <2>1, ExtentStays
<1>11. {q} \in SUBSET Procs /\ \A r \in Procs \cap ({q} \cup {p}) : Extent(r)'
  BY <1>2, <1>8, <1>10
<1> QED BY <1>2, <1>4, <1>6, <1>7, <1>9, <1>11, DoneStep

-----------------------------------------------------------------------------
(* The steps that change a count or a PTE.                                 *)

LEMMA FreelistAsList ==
  FreelistExact <=>
    NoDuplicates(freelist) /\ \A f \in Frames : InList(f, freelist) <=> mem_rc[f] = 0
BY DEF FreelistExact, NoDuplicates, InList

(* kalloc() takes a page that nobody refers to.                            *)
LEMMA Popped ==
  ASSUME IInv, NEW f, PopFrame(f)
  PROVE  /\ f \in Frames /\ mem_rc[f] = 0 /\ Mappings(f) = {} /\ Holders(f) = {}
         /\ \A r \in Threads : ~OwnFrame(r, f)
         /\ freelist' \in Seq(Frames) /\ FreelistExact'
         /\ mem_rc' \in [Frames -> 0..RcMax] /\ mem_rc'[f] = 1
         /\ \A g \in Frames \ {f} : mem_rc'[g] = mem_rc[g]
<1>1. /\ freelist # <<>> /\ f = Head(freelist) /\ freelist' = Tail(freelist)
      /\ mem_rc' = [mem_rc EXCEPT ![f] = 1]
  BY DEF PopFrame
<1>2. /\ freelist \in Seq(Frames) /\ NoDuplicates(freelist)
      /\ \A g \in Frames : InList(g, freelist) <=> mem_rc[g] = 0
      /\ mem_rc \in [Frames -> 0..RcMax] /\ RcExact
  BY FreelistAsList DEF IInv, TypeOK
<1>3. /\ f \in Frames /\ InList(f, freelist)
      /\ freelist' \in Seq(Frames) /\ NoDuplicates(freelist')
      /\ \A g \in Frames : InList(g, freelist') <=> InList(g, freelist) /\ g # f
  BY <1>1, <1>2, TailList
<1>4. mem_rc[f] = 0
  BY <1>2, <1>3
<1>5. /\ mem_rc' \in [Frames -> 0..RcMax] /\ mem_rc'[f] = 1
      /\ \A g \in Frames \ {f} : mem_rc'[g] = mem_rc[g]
  BY <1>1, <1>2, <1>3
<1>6. FreelistExact'
  <2>1. \A g \in Frames : InList(g, freelist') <=> mem_rc'[g] = 0
    BY <1>2, <1>3, <1>5
  <2> QED BY <1>3, <2>1 DEF FreelistExact, NoDuplicates, InList
<1>7. \A r \in Threads : ~OwnFrame(r, f)
  BY <1>3, <1>4, OwnIsOwn
<1> QED BY <1>2, <1>3, <1>4, <1>5, <1>6, <1>7, Unreferenced

(* kfree() puts a page that was on no list on the list.                    *)
LEMMA Pushed ==
  ASSUME IInv, NEW f \in Frames, mem_rc[f] # 0, PushFrame(f)
  PROVE  /\ freelist' \in Seq(Frames) /\ FreelistExact'
         /\ mem_rc' \in [Frames -> 0..RcMax] /\ mem_rc'[f] = 0
         /\ \A g \in Frames \ {f} : mem_rc'[g] = mem_rc[g]
<1>1. freelist' = <<f>> \o freelist /\ mem_rc' = [mem_rc EXCEPT ![f] = 0]
  BY DEF PushFrame
<1>2. /\ freelist \in Seq(Frames) /\ NoDuplicates(freelist)
      /\ \A g \in Frames : InList(g, freelist) <=> mem_rc[g] = 0
      /\ mem_rc \in [Frames -> 0..RcMax]
  BY FreelistAsList DEF IInv, TypeOK
<1>3. /\ freelist' \in Seq(Frames) /\ NoDuplicates(freelist')
      /\ \A g \in Frames : InList(g, freelist') <=> InList(g, freelist) \/ g = f
  BY <1>1, <1>2, ConsList
<1>4. /\ mem_rc' \in [Frames -> 0..RcMax] /\ mem_rc'[f] = 0
      /\ \A g \in Frames \ {f} : mem_rc'[g] = mem_rc[g]
  BY <1>1, <1>2
<1>5. \A g \in Frames : InList(g, freelist') <=> mem_rc'[g] = 0
  BY <1>2, <1>3, <1>4
<1> QED BY <1>3, <1>4, <1>5 DEF FreelistExact, NoDuplicates, InList

(* What is to be shown of a step of p that changes references to f only.   *)
LEMMA CountedStep ==
  ASSUME IInv, NEW p \in Threads, p \in Procs => st[p] = "live",
         NEW t \in Locals, th' = [th EXCEPT ![p] = t],
         \/ t.tgt \in {NoProc, th[p].tgt}
         \/ \A r \in Threads \ {p} : th[r].tgt # t.tgt,
         UNCHANGED <<sz, st, parent, panicked>>,
         freelist' \in Seq(Frames), mem_rc' \in [Frames -> 0..RcMax],
         mem' \in [Frames -> Data \cup {JunkFree, JunkAlloc}],
         pt' \in [Procs -> [VPages -> PteType]],
         NEW f \in Frames,
         \A g \in Frames \ {f} : mem_rc'[g] = mem_rc[g] /\ Mappings(g)' = Mappings(g)
                                 /\ Holders(g)' = Holders(g),
         mem_rc'[f] = Cardinality(Mappings(f)') + Cardinality(Holders(f)'),
         \A q \in Procs \ {p, th[p].tgt} : pt'[q] = pt[q],
         \A r \in Threads \ {p} : OwnFrame(r, f) => mem_rc'[f] = mem_rc[f],
         FreelistExact', WritableOne', SameAddress', ThreadOK(p)',
         \A q \in Procs \cap {p, th[p].tgt} : Extent(q)'
  PROVE  IInv'
<1>1. TypeOK'
  BY DEF IInv, TypeOK
<1>2. \A r \in Threads : th'[r] = IF r = p THEN t ELSE th[r]
  BY DEF IInv, TypeOK
<1>3. RcExact'
  BY DEF IInv, RcExact
<1>4. TargetsDiffer'
  BY <1>2 DEF IInv, TargetsDiffer
<1>5. CountsNeverPanic'
  BY DEF IInv, CountsNeverPanic
<1>6. ASSUME NEW r \in Threads PROVE ThreadOK(r)'
  <2>1. CASE r = p
    BY <2>1
  <2>2. CASE r # p
    <3>1. th'[r] = th[r]
      BY <1>2, <2>2
    <3>2. ASSUME th[r].pc # "user", NEW q \in Procs \cap {r, th[r].tgt}
          PROVE  pt'[q] = pt[q] /\ sz'[q] = sz[q] /\ st'[q] = st[q]
      BY <2>2, <3>2, Disjoint
    <3>3. \A g \in Frames : OwnFrame(r, g) => mem_rc'[g] = mem_rc[g]
      BY <2>2
    <3> QED BY <3>1, <3>2, <3>3, OtherThread
  <2> QED BY <2>1, <2>2
<1>7. ASSUME NEW q \in Procs PROVE Extent(q)'
  <2>1. CASE q \in {p, th[p].tgt}
    BY <2>1
  <2>2. CASE q \notin {p, th[p].tgt}
    <3>1. Enlarging(q)' <=> Enlarging(q)
      BY <1>2, <2>2 DEF Enlarging, Threads
    <3> QED BY <2>2, <3>1, ExtentStays
  <2> QED BY <2>1, <2>2
<1> QED BY <1>1, <1>3, <1>4, <1>5, <1>6, <1>7 DEF IInv

(* What the PTEs that the code writes are.                                 *)
LEMMA MarkedPte ==
  ASSUME NEW e \in PteType
  PROVE  /\ MarkWritable(e) \in PteType /\ MarkWritable(e).pa = e.pa
         /\ MarkCow(e) \in PteType /\ MarkCow(e).pa = e.pa /\ ~MarkCow(e).w
<1>1. MarkWritable(e) \in PteType /\ MarkWritable(e).pa = e.pa
  BY DEF MarkWritable, PteType
<1>2. ASSUME NEW c, c = [e EXCEPT !.w = FALSE, !.cow = TRUE]
      PROVE  c \in PteType /\ c.pa = e.pa /\ c.w = FALSE
  BY <1>2 DEF PteType
<1>3. MarkCow(e) = [e EXCEPT !.w = FALSE, !.cow = TRUE] \/ (~e.w /\ MarkCow(e) = e)
  BY Zenon DEF MarkCow
<1>4. CASE MarkCow(e) = [e EXCEPT !.w = FALSE, !.cow = TRUE]
  BY <1>1, <1>2, <1>4
<1>5. CASE ~e.w /\ MarkCow(e) = e
  BY <1>1, <1>5, Zenon
<1> QED BY <1>3, <1>4, <1>5

LEMMA NewPte ==
  ASSUME NEW f \in Frames
  PROVE  FreshPte(f) \in PteType /\ FreshPte(f).pa = f /\ FreshPte(f).w
<1>1. FreshPte(f) \in PteType /\ FreshPte(f).pa = f
  BY DEF FreshPte, PteType
<1>2. FreshPte(f).w
  BY DEF FreshPte
<1> QED BY <1>1, <1>2

LEMMA ClearPte == NoPte \in PteType /\ NoPte.pa = NoFrame /\ ~NoPte.w
<1>1. NoPte \in PteType /\ NoPte.pa = NoFrame
  BY DEF NoPte, PteType
<1>2. ~NoPte.w
  BY DEF NoPte
<1> QED BY <1>1, <1>2

(* A write of a PTE that leaves the address alone maps and unmaps nothing. *)
LEMMA SamePa ==
  ASSUME TypeOK, NEW q \in Procs, NEW v \in VPages, NEW e \in PteType,
         pt' = [pt EXCEPT ![q][v] = e], e.pa = pt[q][v].pa
  PROVE  /\ pt' \in [Procs -> [VPages -> PteType]]
         /\ \A f : Mappings(f)' = Mappings(f)
         /\ \A r \in Procs, w \in VPages : pt'[r][w].pa = pt[r][w].pa
         /\ \A r \in Procs, w \in VPages : <<r, w>> # <<q, v>> => pt'[r][w] = pt[r][w]
         /\ pt'[q][v] = e
<1>1. pt \in [Procs -> [VPages -> PteType]]
  BY DEF TypeOK
<1>2. \A r \in Procs, w \in VPages :
        pt'[r][w] = IF r = q /\ w = v THEN e ELSE pt[r][w]
  BY <1>1
<1>3. \A r \in Procs, w \in VPages : pt'[r][w].pa = pt[r][w].pa
  BY <1>2
<1>4. \A f : Mappings(f)' = Mappings(f)
  BY <1>3 DEF Mappings
<1>5. pt' \in [Procs -> [VPages -> PteType]]
  BY <1>1
<1> QED BY <1>2, <1>3, <1>4, <1>5

(* cow() returns to the user store or to copyout.                          *)
LEMMA CowReturnsAs ==
  ASSUME IInv, NEW p \in Procs, CowReturns(p)
  PROVE  \E t \in Locals :
           /\ th' = [th EXCEPT ![p] = t] /\ th'[p] = t
           /\ t.pc \in {"user", "copyout"}
           /\ t.ret = "none" /\ t.kret = "none" /\ t.tgt = NoProc
<1>1. th \in [Threads -> Locals] /\ p \in Threads /\ th[p].lo \in 0..MaxSz
  BY DEF IInv, TypeOK, Threads, Locals
<1>2. CASE th[p].caller = "fault"
  <2>1. th' = [th EXCEPT ![p] = User]
    BY <1>2 DEF CowReturns, GoTo
  <2>2. User.pc = "user" /\ User.ret = "none" /\ User.kret = "none" /\ User.tgt = NoProc
    BY DEF User
  <2> QED BY <1>1, <2>1, <2>2, UserType
<1>3. CASE th[p].caller # "fault"
  <2>1. PICK t : t = [User EXCEPT !.pc = "copyout", !.caller = "copyout", !.lo = th[p].lo]
    OBVIOUS
  <2>2. th' = [th EXCEPT ![p] = t]
    BY <1>3, <2>1 DEF CowReturns, GoTo
  <2>3. t \in Locals
    BY <1>1, <2>1, UserType DEF Locals, Pcs
  <2>4. t.pc = "copyout" /\ t.ret = "none" /\ t.kret = "none" /\ t.tgt = NoProc
    BY <2>1 DEF User
  <2> QED BY <1>1, <2>2, <2>3, <2>4
<1> QED BY <1>2, <1>3

(* The last reference becomes writable again.                              *)
LEMMA CowInPlaceStep ==
  ASSUME IInv, NEW p \in Procs, CowInPlace(p)
  PROVE  IInv'
<1>1. /\ th[p].pc = "cow" /\ p \in Threads /\ IsCowPage(p) /\ ReadRc(FaultPte(p).pa) = 1
      /\ pt' = [pt EXCEPT ![p][th[p].lo] = MarkWritable(@)] /\ CowReturns(p)
      /\ UNCHANGED <<freelist, mem_rc, mem, sz, st, parent, panicked>>
  BY DEF CowInPlace, Threads
<1>2. PICK v \in VPages : v = th[p].lo
  BY <1>1 DEF IInv, ThreadOK, CowOK
<1>3. st[p] = "live" /\ ~Enlarging(p) /\ (\A f : ~InHand(p, f)) /\ th[p].tgt = NoProc
  BY <1>1, UserIsResting DEF IInv, ThreadOK, Alive
<1>4. PICK f \in Frames : f = pt[p][v].pa
  BY <1>1, <1>2 DEF IsCowPage, FaultPte, Valid, IInv, TypeOK, PteType
<1>5. mem_rc[f] = 1
  <2>1. mem_rc[f] \in 1..RcMax
    BY <1>4, ReferencedIsNotBad DEF IInv
  <2>2. ReadRc(f) = mem_rc[f]
    BY <2>1, UnsignedCharFits DEF ReadRc
  <2> QED BY <1>1, <1>2, <1>4, <2>2 DEF FaultPte
<1>6. PICK e \in PteType : e = MarkWritable(pt[p][v])
  <2>1. pt[p][v] \in PteType
    BY DEF IInv, TypeOK
  <2> QED BY <2>1, MarkedPte
<1>7. e.pa = f
  <2>1. pt[p][v] \in PteType
    BY DEF IInv, TypeOK
  <2> QED BY <1>4, <1>6, <2>1, MarkedPte
<1>8. pt' = [pt EXCEPT ![p][v] = e]
  BY <1>1, <1>2, <1>6
<1>9. /\ pt' \in [Procs -> [VPages -> PteType]]
      /\ \A g : Mappings(g)' = Mappings(g)
      /\ \A r \in Procs, w \in VPages : pt'[r][w].pa = pt[r][w].pa
      /\ \A r \in Procs, w \in VPages : <<r, w>> # <<p, v>> => pt'[r][w] = pt[r][w]
      /\ pt'[p][v] = e
  BY ZenonT(60), <1>4, <1>7, <1>8, SamePa DEF IInv
<1>10. PICK t \in Locals :
         /\ th' = [th EXCEPT ![p] = t] /\ th'[p] = t
         /\ t.pc \in {"user", "copyout"}
         /\ t.ret = "none" /\ t.kret = "none" /\ t.tgt = NoProc
  BY <1>1, CowReturnsAs
<1>11. ThreadOK(p)' /\ ~Enlarging(p)' /\ \A g : ~InHand(p, g)'
  BY <1>1, <1>3, <1>10, RestingThread
<1>12. \A g \in Frames : Holders(g)' = Holders(g)
  <2>1. \A r \in Procs : r # p => th'[r] = th[r]
    BY <1>10 DEF IInv, TypeOK, Threads
  <2> QED BY <1>3, <1>11, <2>1 DEF Holders, InHand
<1>13. WritableOne'
  <2> SUFFICES ASSUME NEW r \in Procs, NEW w \in VPages, pt'[r][w].w
               PROVE  Valid(pt'[r][w]) /\ mem_rc[pt'[r][w].pa] = 1
    BY <1>1 DEF WritableOne, Valid
  <2>1. CASE <<r, w>> = <<p, v>>
    BY <1>5, <1>7, <1>9, <2>1 DEF Valid
  <2>2. CASE <<r, w>> # <<p, v>>
    BY <1>9, <2>2 DEF IInv, WritableOne
  <2> QED BY <2>1, <2>2
<1>14. SameAddress'
  BY <1>9 DEF IInv, SameAddress, Valid
<1>15. FreelistExact'
  BY <1>1 DEF IInv, FreelistExact
<1>16. Extent(p)'
  BY <1>1, <1>3, <1>9 DEF IInv, Extent, NoPages, Valid
<1>17. /\ freelist' \in Seq(Frames) /\ mem_rc' \in [Frames -> 0..RcMax]
       /\ mem' \in [Frames -> Data \cup {JunkFree, JunkAlloc}]
  BY <1>1 DEF IInv, TypeOK
<1>18. /\ \A g \in Frames \ {f} : mem_rc'[g] = mem_rc[g] /\ Mappings(g)' = Mappings(g)
                                 /\ Holders(g)' = Holders(g)
       /\ mem_rc'[f] = Cardinality(Mappings(f)') + Cardinality(Holders(f)')
  BY <1>1, <1>9, <1>12 DEF IInv, RcExact
<1>19. \A q \in Procs \ {p, th[p].tgt} : pt'[q] = pt[q]
  BY <1>8 DEF IInv, TypeOK
<1>20. \A q \in Procs \cap {p, th[p].tgt} : Extent(q)'
  BY <1>3, <1>16
<1> QED BY <1>1, <1>3, <1>9, <1>10, <1>11, <1>13, <1>14, <1>15, <1>17, <1>18, <1>19, <1>20,
        CountedStep

(* The copy: the new page passes from the hand of cow() into the PTE.      *)
LEMMA CowCopyStep ==
  ASSUME IInv, NEW p \in Procs, CowCopy(p)
  PROVE  IInv'
<1>1. /\ th[p].pc = "cow_copy" /\ p \in Threads /\ CowReturns(p)
      /\ mem' = [mem EXCEPT ![th[p].new] = mem[th[p].pa]]
      /\ pt' = [pt EXCEPT ![p][th[p].lo] =
                  IF ReadRc(th[p].pa) = 1 THEN MarkWritable(FreshPte(th[p].new))
                                          ELSE FreshPte(th[p].new)]
      /\ UNCHANGED <<freelist, mem_rc, sz, st, parent, panicked>>
  BY DEF CowCopy, Threads
<1>2. /\ th[p].new \in Frames /\ th[p].pa \in Frames /\ th[p].lo \in VPages
      /\ th[p].lo < sz[p] /\ ~Valid(pt[p][th[p].lo])
      /\ st[p] = "live" /\ th[p].ret = "none" /\ th[p].kret = "none" /\ th[p].tgt = NoProc
  BY <1>1 DEF IInv, ThreadOK, Alive, CowOK, ShapeOK, QuietPcs
<1>3. PICK f \in Frames : f = th[p].new
  BY <1>2
<1>4. PICK v \in VPages : v = th[p].lo
  BY <1>2
<1>5. PICK e \in PteType : e.pa = f /\ pt' = [pt EXCEPT ![p][v] = e]
  <2>1. /\ MarkWritable(FreshPte(f)) \in PteType /\ MarkWritable(FreshPte(f)).pa = f
        /\ FreshPte(f) \in PteType /\ FreshPte(f).pa = f
    BY NewPte, MarkedPte
  <2> QED BY <1>1, <1>3, <1>4, <2>1
<1>6. /\ mem_rc[f] = 1 /\ Holders(f) = {p} /\ Mappings(f) = {}
  <2>1. OwnFrame(p, f) /\ p \in Holders(f)
    BY <1>1, <1>3 DEF OwnFrame, InHand, Holders
  <2> QED BY <1>1, <2>1, OwnIsOwn, SoleReference DEF IInv
<1>7. /\ pt' \in [Procs -> [VPages -> PteType]]
      /\ \A r \in Procs, w \in VPages : pt'[r][w] = IF r = p /\ w = v THEN e ELSE pt[r][w]
  BY <1>5 DEF IInv, TypeOK
<1>8. /\ Mappings(f)' = {<<p, v>>}
      /\ \A g \in Frames \ {f} : Mappings(g)' = Mappings(g)
  <2>1. Mappings(f)' = {<<p, v>>}
    <3>1. Mappings(f)' = Mappings(f) \cup {<<p, v>>}
      BY <1>5, PteWritten DEF IInv
    <3> QED BY <1>6, <3>1
  <2>2. ASSUME NEW g \in Frames \ {f} PROVE Mappings(g)' = Mappings(g)
    <3>1. Mappings(g)' = Mappings(g) \ {<<p, v>>}
      BY <1>5, PteWritten DEF IInv
    <3>2. <<p, v>> \notin Mappings(g)
      BY <1>2, <1>4, MappingsDef DEF Valid
    <3> QED BY <3>1, <3>2
  <2> QED BY <2>1, <2>2
<1>9. PICK t \in Locals :
        /\ th' = [th EXCEPT ![p] = t] /\ th'[p] = t
        /\ t.pc \in {"user", "copyout"}
        /\ t.ret = "none" /\ t.kret = "none" /\ t.tgt = NoProc
  BY <1>1, CowReturnsAs
<1>10. ThreadOK(p)' /\ ~Enlarging(p)' /\ \A g : ~InHand(p, g)'
  BY <1>1, <1>2, <1>9, RestingThread
<1>11. /\ Holders(f)' = {}
       /\ \A g \in Frames \ {f} : Holders(g)' = Holders(g)
  <2>1. \A r \in Procs \ {p} : th'[r] = th[r]
    BY <1>9 DEF IInv, TypeOK, Threads
  <2>2. \A g : Holders(g)' = Holders(g) \ {p}
    BY <1>10, <2>1, ThreadMoved DEF IInv
  <2>3. \A g \in Frames \ {f} : p \notin Holders(g)
    BY <1>1, <1>3 DEF Holders, InHand
  <2> QED BY <1>6, <2>2, <2>3
<1>12. mem_rc'[f] = Cardinality(Mappings(f)') + Cardinality(Holders(f)')
  <2>1. Cardinality(Mappings(f)') = 1 /\ Cardinality(Holders(f)') = 0
    BY <1>8, <1>11, FS_EmptySet, FS_Singleton
  <2> QED BY <1>1, <1>6, <2>1
<1>13. \A r \in Procs, w \in VPages : pt[r][w].pa # f
  BY <1>6, MappingsDef
<1>14. WritableOne'
  <2> SUFFICES ASSUME NEW r \in Procs, NEW w \in VPages, pt'[r][w].w
               PROVE  Valid(pt'[r][w]) /\ mem_rc[pt'[r][w].pa] = 1
    BY <1>1 DEF WritableOne, Valid
  <2>1. CASE r = p /\ w = v
    BY <1>5, <1>6, <1>7, <2>1 DEF Valid
  <2>2. CASE ~(r = p /\ w = v)
    BY <1>7, <2>2 DEF IInv, WritableOne
  <2> QED BY <2>1, <2>2
<1>15. SameAddress'
  BY <1>5, <1>7, <1>13 DEF IInv, SameAddress, Valid
<1>16. FreelistExact'
  BY <1>1 DEF IInv, FreelistExact
<1>17. Extent(p)'
  <2>1. ~Enlarging(p)
    BY <1>1, <1>2 DEF Enlarging
  <2>2. NoPages(p, sz[p], MaxSz) /\ sz[p] \in 0..MaxSz
    BY <1>2, <2>1 DEF IInv, Extent, TypeOK
  <2> QED BY <1>1, <1>2, <1>4, <1>7, <2>2 DEF Extent, NoPages, Valid, VPages
<1>18. /\ freelist' \in Seq(Frames) /\ mem_rc' \in [Frames -> 0..RcMax]
       /\ mem' \in [Frames -> Data \cup {JunkFree, JunkAlloc}]
  BY <1>1, <1>2 DEF IInv, TypeOK
<1>19. /\ \A q \in Procs \ {p, th[p].tgt} : pt'[q] = pt[q]
       /\ \A g \in Frames \ {f} : mem_rc'[g] = mem_rc[g] /\ Mappings(g)' = Mappings(g)
                                 /\ Holders(g)' = Holders(g)
  BY <1>1, <1>5, <1>8, <1>11 DEF IInv, TypeOK
<1>20. \A q \in Procs \cap {p, th[p].tgt} : Extent(q)'
  BY <1>2, <1>17
<1> QED BY <1>1, <1>2, <1>7, <1>9, <1>10, <1>12, <1>14, <1>15, <1>16, <1>18, <1>19, <1>20,
        CountedStep

(* kalloc() in cow(): the new page is in hand.                             *)
LEMMA CowAllocStep ==
  ASSUME IInv, NEW p \in Procs, NEW f \in Frames, CowAlloc(p, f)
  PROVE  IInv'
<1>1. /\ th[p].pc = "unmap" /\ th[p].v = th[p].end /\ th[p].ret = "cow" /\ p \in Threads
      /\ PopFrame(f) /\ mem' = [mem EXCEPT ![f] = JunkAlloc]
      /\ th' = [th EXCEPT ![p] = [User EXCEPT !.pc = "cow_copy", !.caller = th[p].caller,
                                              !.lo = th[p].lo, !.pa = th[p].pa, !.new = f]]
      /\ UNCHANGED <<pt, sz, st, parent, panicked>>
  BY DEF CowAlloc, Unmapped, Fill, GoTo, Threads
<1>2. /\ mem_rc[f] = 0 /\ Mappings(f) = {} /\ Holders(f) = {}
      /\ \A r \in Threads : ~OwnFrame(r, f)
      /\ freelist' \in Seq(Frames) /\ FreelistExact'
      /\ mem_rc' \in [Frames -> 0..RcMax] /\ mem_rc'[f] = 1
      /\ \A g \in Frames \ {f} : mem_rc'[g] = mem_rc[g]
  BY <1>1, Popped
<1>3. UnmapOK(p) /\ st[p] = "live" /\ ~Enlarging(p) /\ \A g : ~InHand(p, g)
  BY <1>1, UnmappingThread
<1>4. /\ th[p].tgt = p /\ th[p].pa \in Frames /\ th[p].lo \in VPages /\ th[p].lo < sz[p]
      /\ ~Valid(pt[p][th[p].lo])
  <2>1. /\ th[p].tgt = p /\ th[p].end = th[p].lo + 1 /\ th[p].end <= sz[p] /\ th[p].pa \in Frames
        /\ NoPages(p, th[p].lo, th[p].v)
    BY <1>1, <1>3 DEF UnmapOK, Unmapper, RetOK
  <2>2. th[p].lo \in 0..MaxSz /\ sz[p] \in 0..MaxSz
    BY <1>1 DEF IInv, TypeOK, Locals
  <2>3. th[p].lo \in VPages /\ th[p].lo < sz[p]
    BY <2>1, <2>2 DEF VPages
  <2> QED BY <1>1, <2>1, <2>2, <2>3 DEF NoPages
<1>5. th[p] \in Locals /\ th[p].lo \in 0..MaxSz /\ th[p].caller \in {"none", "fault", "copyout"}
  BY <1>1 DEF IInv, TypeOK, Locals
<1>6. PICK t \in Locals :
        t = [User EXCEPT !.pc = "cow_copy", !.caller = th[p].caller,
                         !.lo = th[p].lo, !.pa = th[p].pa, !.new = f]
  <2>0. [User EXCEPT !.pc = "cow_copy", !.caller = th[p].caller, !.lo = th[p].lo] \in Locals
    <3>1. ASSUME NEW c \in {"none", "fault", "copyout"}, NEW lo \in 0..MaxSz
          PROVE  [User EXCEPT !.pc = "cow_copy", !.caller = c, !.lo = lo] \in Locals
      BY UserType DEF Locals, Pcs
    <3> QED BY <1>5, <3>1
  <2>1. PICK b \in Locals :
          b = [User EXCEPT !.pc = "cow_copy", !.caller = th[p].caller, !.lo = th[p].lo]
    BY <2>0
  <2>2. [b EXCEPT !.pa = th[p].pa, !.new = f] \in Locals
    BY <1>4 DEF Locals
  <2> QED BY <2>1, <2>2
<1>7. /\ t.pc = "cow_copy" /\ t.lo = th[p].lo /\ t.pa = th[p].pa /\ t.new = f
      /\ t.ret = "none" /\ t.kret = "none" /\ t.tgt = NoProc
  BY <1>6 DEF User
<1>8. th' = [th EXCEPT ![p] = t] /\ th'[p] = t
  BY <1>1, <1>6 DEF IInv, TypeOK
<1>9. \A g : InHand(p, g)' <=> g = f
  BY <1>7, <1>8 DEF InHand
<1>10. /\ \A g : Mappings(g)' = Mappings(g)
       /\ Holders(f)' = {p}
       /\ \A g \in Frames \ {f} : Holders(g)' = Holders(g)
  <2>1. \A g : Mappings(g)' = Mappings(g)
    BY <1>1 DEF Mappings
  <2>2. \A r \in Procs \ {p} : th'[r] = th[r]
    BY <1>8 DEF IInv, TypeOK, Threads
  <2>3. Holders(f)' = Holders(f) \cup {p}
    BY <1>9, <2>2, ThreadMoved DEF IInv
  <2>4. \A g \in Frames \ {f} : Holders(g)' = Holders(g) \ {p}
    BY <1>9, <2>2, ThreadMoved DEF IInv
  <2>5. \A g : p \notin Holders(g)
    BY <1>3 DEF Holders
  <2>6. Holders(f)' = {p}
    BY <1>2, <2>3
  <2>7. \A g \in Frames \ {f} : Holders(g)' = Holders(g)
    BY <2>4, <2>5
  <2> QED BY <2>1, <2>6, <2>7
<1>11. mem_rc'[f] = Cardinality(Mappings(f)') + Cardinality(Holders(f)')
  <2>1. Cardinality(Mappings(f)') = 0 /\ Cardinality(Holders(f)') = 1
    BY <1>2, <1>10, FS_EmptySet, FS_Singleton
  <2> QED BY <1>2, <2>1
<1>12. WritableOne' /\ SameAddress'
  <2>1. \A q \in Procs, v \in VPages : pt[q][v].pa # f
    BY <1>2, MappingsDef
  <2>2. \A q \in Procs, v \in VPages : pt[q][v].pa \in Frames \cup {NoFrame}
    BY DEF IInv, TypeOK, PteType
  <2>3. WritableOne'
    BY <1>1, <1>2, <2>1, <2>2 DEF IInv, WritableOne, Valid
  <2>4. SameAddress'
    BY <1>1 DEF IInv, SameAddress, Valid
  <2> QED BY <2>3, <2>4
<1>13. ThreadOK(p)'
  <2>1. OwnOK(p)'
    BY <1>2, <1>7, <1>8 DEF OwnOK, OwnFrame, Freeing
  <2>2. CowOK(p)'
    BY <1>1, <1>4, <1>7, <1>8 DEF CowOK, Valid
  <2> QED BY <1>1, <1>3, <1>7, <1>8, <2>1, <2>2
     DEF ThreadOK, Alive, ShapeOK, CopyOK, CopyFailOK, GrowOK, UnmapOK, Freeing, Unmapper, QuietPcs
<1>14. Extent(p)'
  BY <1>1, <1>3, ExtentStays
<1>15. /\ mem' \in [Frames -> Data \cup {JunkFree, JunkAlloc}]
       /\ pt' \in [Procs -> [VPages -> PteType]]
  BY <1>1 DEF IInv, TypeOK
<1>16. /\ \A q \in Procs \ {p, th[p].tgt} : pt'[q] = pt[q]
       /\ \A q \in Procs \cap {p, th[p].tgt} : Extent(q)'
       /\ \A g \in Frames \ {f} : mem_rc'[g] = mem_rc[g] /\ Mappings(g)' = Mappings(g)
                                 /\ Holders(g)' = Holders(g)
  BY <1>1, <1>2, <1>4, <1>10, <1>14
<1> QED BY <1>1, <1>2, <1>3, <1>7, <1>8, <1>11, <1>12, <1>13, <1>15, <1>16, CountedStep

(* kalloc() in uvmalloc(), and mappages().                                 *)
LEMMA UvmallocPageStep ==
  ASSUME IInv, NEW p \in Procs, NEW f \in Frames, UvmallocPage(p, f)
  PROVE  IInv'
<1>1. /\ th[p].pc = "uvmalloc" /\ th[p].v < th[p].end /\ p \in Threads
      /\ PopFrame(f) /\ mem' = [mem EXCEPT ![f] = Zero]
      /\ UNCHANGED <<sz, st, parent>>
  BY DEF UvmallocPage, Growing, Fill, Threads
<1>2. /\ mem_rc[f] = 0 /\ Mappings(f) = {} /\ Holders(f) = {}
      /\ \A r \in Threads : ~OwnFrame(r, f)
      /\ freelist' \in Seq(Frames) /\ FreelistExact'
      /\ mem_rc' \in [Frames -> 0..RcMax] /\ mem_rc'[f] = 1
      /\ \A g \in Frames \ {f} : mem_rc'[g] = mem_rc[g]
  BY <1>1, Popped
<1>3. /\ st[p] = "live" /\ th[p].ret = "none" /\ th[p].kret = "none" /\ th[p].tgt = NoProc
      /\ sz[p] <= th[p].v /\ NoPages(p, th[p].v, MaxSz)
      /\ th[p] \in Locals /\ th[p].v \in 0..MaxSz /\ th[p].end \in 0..MaxSz
      /\ sz[p] \in 0..MaxSz
  BY <1>1 DEF IInv, ThreadOK, Alive, ShapeOK, GrowOK, QuietPcs, TypeOK, Locals
<1>4. PICK v \in VPages : v = th[p].v
  BY <1>1, <1>3 DEF VPages
<1>5. ~Valid(pt[p][v])
  BY <1>3, <1>4 DEF NoPages, VPages
<1>6. /\ pt' = [pt EXCEPT ![p][v] = FreshPte(f)]
      /\ th' = [th EXCEPT ![p] = [th[p] EXCEPT !.v = @ + 1]]
      /\ UNCHANGED panicked
  BY <1>4, <1>5 DEF UvmallocPage, GoTo
<1>7. PICK e \in PteType : e = FreshPte(f) /\ e.pa = f
  BY NewPte
<1>8. th[p].v + 1 \in 0..MaxSz
  BY <1>1, <1>3
<1>9. PICK t \in Locals : t = [th[p] EXCEPT !.v = @ + 1]
  BY <1>3, <1>8 DEF Locals
<1>10. /\ t.pc = "uvmalloc" /\ t.ret = "none" /\ t.kret = "none" /\ t.tgt = NoProc
       /\ t.v = v + 1 /\ t.end = th[p].end
  BY <1>1, <1>3, <1>4, <1>9 DEF Locals
<1>11. th' = [th EXCEPT ![p] = t] /\ th'[p] = t
  BY <1>1, <1>6, <1>9 DEF IInv, TypeOK
<1>12. /\ pt' \in [Procs -> [VPages -> PteType]]
       /\ \A r \in Procs, w \in VPages : pt'[r][w] = IF r = p /\ w = v THEN e ELSE pt[r][w]
  BY <1>6, <1>7 DEF IInv, TypeOK
<1>13. /\ Mappings(f)' = {<<p, v>>}
       /\ \A g \in Frames \ {f} : Mappings(g)' = Mappings(g)
  <2>1. Mappings(f)' = Mappings(f) \cup {<<p, v>>}
    BY ZenonT(60), <1>6, <1>7, PteWritten DEF IInv
  <2>2. ASSUME NEW g \in Frames \ {f} PROVE Mappings(g)' = Mappings(g)
    <3>1. Mappings(g)' = Mappings(g) \ {<<p, v>>}
      BY ZenonT(60), <1>6, <1>7, PteWritten DEF IInv
    <3>2. <<p, v>> \notin Mappings(g)
      BY <1>5, MappingsDef DEF Valid
    <3> QED BY <3>1, <3>2
  <2> QED BY <1>2, <2>1, <2>2
<1>14. \A g : Holders(g)' = Holders(g)
  <2>1. \A r \in Procs \ {p} : th'[r] = th[r]
    BY <1>11 DEF IInv, TypeOK, Threads
  <2> QED BY <1>1, <1>10, <1>11, <2>1 DEF Holders, InHand
<1>15. mem_rc'[f] = Cardinality(Mappings(f)') + Cardinality(Holders(f)')
  <2>1. Cardinality(Mappings(f)') = 1 /\ Cardinality(Holders(f)') = 0
    BY <1>2, <1>13, <1>14, FS_EmptySet, FS_Singleton
  <2> QED BY <1>2, <2>1
<1>16. \A r \in Procs, w \in VPages : pt[r][w].pa # f /\ pt[r][w].pa \in Frames \cup {NoFrame}
  <2>1. \A r \in Procs, w \in VPages : pt[r][w].pa # f
    BY <1>2, MappingsDef
  <2>2. \A r \in Procs, w \in VPages : pt[r][w].pa \in Frames \cup {NoFrame}
    BY DEF IInv, TypeOK, PteType
  <2> QED BY <2>1, <2>2
<1>17. WritableOne'
  <2> SUFFICES ASSUME NEW r \in Procs, NEW w \in VPages, pt'[r][w].w
               PROVE  Valid(pt'[r][w]) /\ mem_rc'[pt'[r][w].pa] = 1
    BY DEF WritableOne, Valid
  <2>1. CASE r = p /\ w = v
    BY <1>2, <1>7, <1>12, <2>1 DEF Valid
  <2>2. CASE ~(r = p /\ w = v)
    BY <1>2, <1>12, <1>16, <2>2 DEF IInv, WritableOne, Valid
  <2> QED BY <2>1, <2>2
<1>18. SameAddress'
  BY <1>7, <1>12, <1>16 DEF IInv, SameAddress, Valid
<1>19. ThreadOK(p)' /\ Extent(p)'
  <2>1. \A w \in VPages : v + 1 <= w => ~Valid(pt'[p][w])
    BY <1>3, <1>4, <1>12 DEF NoPages, Valid, VPages
  <2>2. sz'[p] <= v + 1
    BY <1>1, <1>3, <1>4
  <2>3. GrowOK(p)'
    BY <1>1, <1>3, <1>4, <1>8, <1>10, <1>11, <2>1, <2>2 DEF GrowOK, Freeing, NoPages, Valid
  <2>4. Extent(p)'
    BY <1>1, <1>3, <1>10, <1>11 DEF Extent, Enlarging
  <2> QED BY <1>1, <1>3, <1>10, <1>11, <2>3, <2>4
     DEF ThreadOK, Alive, ShapeOK, CowOK, CopyOK, CopyFailOK, UnmapOK, OwnOK, OwnFrame,
         Freeing, Unmapper, QuietPcs
<1>20. mem' \in [Frames -> Data \cup {JunkFree, JunkAlloc}]
  BY <1>1, DataAssumption DEF IInv, TypeOK
<1>21. /\ \A q \in Procs \ {p, th[p].tgt} : pt'[q] = pt[q]
       /\ \A q \in Procs \cap {p, th[p].tgt} : Extent(q)'
       /\ \A g \in Frames \ {f} : mem_rc'[g] = mem_rc[g] /\ Mappings(g)' = Mappings(g)
                                 /\ Holders(g)' = Holders(g)
  BY <1>2, <1>3, <1>6, <1>13, <1>14, <1>19 DEF IInv, TypeOK
<1>22. UNCHANGED <<sz, st, parent, panicked>>
  BY <1>1, <1>6
<1> QED BY <1>1, <1>2, <1>3, <1>10, <1>11, <1>12, <1>15, <1>17, <1>18, <1>19, <1>20, <1>21,
        <1>22, CountedStep

(* mappages() fails in uvmalloc(): the new page is in hand.                *)
LEMMA UvmallocFailStep ==
  ASSUME IInv, NEW p \in Procs, NEW f \in Frames, UvmallocFail(p, f)
  PROVE  IInv'
<1>1. /\ th[p].pc = "uvmalloc" /\ th[p].v < th[p].end /\ p \in Threads
      /\ PopFrame(f) /\ mem' = [mem EXCEPT ![f] = Zero]
      /\ th' = [th EXCEPT ![p] = [th[p] EXCEPT !.pc = "kfree", !.pa = f, !.kret = "uvmalloc"]]
      /\ UNCHANGED <<pt, sz, st, parent, panicked>>
  BY DEF UvmallocFail, Growing, Fill, GoTo, Threads
<1>2. /\ mem_rc[f] = 0 /\ Mappings(f) = {} /\ Holders(f) = {}
      /\ \A r \in Threads : ~OwnFrame(r, f)
      /\ freelist' \in Seq(Frames) /\ FreelistExact'
      /\ mem_rc' \in [Frames -> 0..RcMax] /\ mem_rc'[f] = 1
      /\ \A g \in Frames \ {f} : mem_rc'[g] = mem_rc[g]
  BY <1>1, Popped
<1>3. /\ st[p] = "live" /\ th[p].ret = "none" /\ th[p].kret = "none" /\ th[p].tgt = NoProc
      /\ sz[p] <= th[p].v /\ NoPages(p, th[p].v, MaxSz)
      /\ th[p] \in Locals /\ th[p].v \in 0..MaxSz /\ th[p].end \in 0..MaxSz
  BY <1>1 DEF IInv, ThreadOK, Alive, ShapeOK, GrowOK, QuietPcs, TypeOK, Locals
<1>4. PICK t \in Locals : t = [th[p] EXCEPT !.pc = "kfree", !.pa = f, !.kret = "uvmalloc"]
  BY <1>3 DEF Locals, Pcs
<1>5. /\ t.pc = "kfree" /\ t.ret = "none" /\ t.kret = "uvmalloc" /\ t.tgt = NoProc
      /\ t.v = th[p].v /\ t.end = th[p].end /\ t.pa = f
  BY <1>3, <1>4 DEF Locals
<1>6. th' = [th EXCEPT ![p] = t] /\ th'[p] = t
  BY <1>1, <1>4 DEF IInv, TypeOK
<1>7. \A g : (InHand(p, g)' <=> g = f) /\ ~InHand(p, g)
  BY <1>1, <1>5, <1>6 DEF InHand
<1>8. /\ \A g : Mappings(g)' = Mappings(g)
      /\ Holders(f)' = {p}
      /\ \A g \in Frames \ {f} : Holders(g)' = Holders(g)
  <2>1. \A g : Mappings(g)' = Mappings(g)
    BY <1>1 DEF Mappings
  <2>2. \A r \in Procs \ {p} : th'[r] = th[r]
    BY <1>6 DEF IInv, TypeOK, Threads
  <2>3. Holders(f)' = Holders(f) \cup {p}
    BY <1>7, <2>2, ThreadMoved DEF IInv
  <2>4. \A g \in Frames \ {f} : Holders(g)' = Holders(g) \ {p}
    BY <1>7, <2>2, ThreadMoved DEF IInv
  <2>5. \A g : p \notin Holders(g)
    BY <1>7 DEF Holders
  <2>6. Holders(f)' = {p}
    BY <1>2, <2>3
  <2>7. \A g \in Frames \ {f} : Holders(g)' = Holders(g)
    BY <2>4, <2>5
  <2> QED BY <2>1, <2>6, <2>7
<1>9. mem_rc'[f] = Cardinality(Mappings(f)') + Cardinality(Holders(f)')
  <2>1. Cardinality(Mappings(f)') = 0 /\ Cardinality(Holders(f)') = 1
    BY <1>2, <1>8, FS_EmptySet, FS_Singleton
  <2> QED BY <1>2, <2>1
<1>10. WritableOne' /\ SameAddress'
  <2>1. \A q \in Procs, v \in VPages : pt[q][v].pa # f
    BY <1>2, MappingsDef
  <2>2. \A q \in Procs, v \in VPages : pt[q][v].pa \in Frames \cup {NoFrame}
    BY DEF IInv, TypeOK, PteType
  <2>3. WritableOne'
    BY <1>1, <1>2, <2>1, <2>2 DEF IInv, WritableOne, Valid
  <2>4. SameAddress'
    BY <1>1 DEF IInv, SameAddress, Valid
  <2> QED BY <2>3, <2>4
<1>11. ThreadOK(p)'
  <2>1. OwnOK(p)'
    BY <1>2, <1>5, <1>6 DEF OwnOK, OwnFrame, Freeing
  <2>2. GrowOK(p)'
    BY <1>1, <1>3, <1>5, <1>6 DEF GrowOK, Freeing, NoPages, IInv, ThreadOK
  <2> QED BY <1>1, <1>3, <1>5, <1>6, <2>1, <2>2
     DEF ThreadOK, Alive, ShapeOK, CowOK, CopyOK, CopyFailOK, UnmapOK, Freeing, Unmapper, QuietPcs
<1>12. Extent(p)'
  BY <1>1, <1>3, <1>5, <1>6 DEF Extent, Enlarging
<1>13. /\ mem' \in [Frames -> Data \cup {JunkFree, JunkAlloc}]
       /\ pt' \in [Procs -> [VPages -> PteType]]
  BY <1>1, DataAssumption DEF IInv, TypeOK
<1>14. /\ \A q \in Procs \ {p, th[p].tgt} : pt'[q] = pt[q]
       /\ \A q \in Procs \cap {p, th[p].tgt} : Extent(q)'
       /\ \A g \in Frames \ {f} : mem_rc'[g] = mem_rc[g] /\ Mappings(g)' = Mappings(g)
                                 /\ Holders(g)' = Holders(g)
  BY <1>1, <1>2, <1>3, <1>8, <1>12
<1> QED BY <1>1, <1>2, <1>3, <1>5, <1>6, <1>9, <1>10, <1>11, <1>13, <1>14, CountedStep

-----------------------------------------------------------------------------
(* fork.                                                                   *)

(* While the page at the cursor of uvmcopy is shared once more, every      *)
(* reference to it stands for a process of its own, and the child for none *)
(* of them: the count is below the number of processes.                    *)
LEMMA RoomForOne ==
  ASSUME IInv, NEW p \in Procs, th[p].pc = "uvmcopy",
         NEW v \in VPages, v = th[p].v, NEW f \in Frames, pt[p][v].pa = f
  PROVE  mem_rc[f] + 1 \in 0..RcMax
<1> DEFINE c == th[p].tgt
           A == {q \in Procs : pt[q][v].pa = f}
           B == Procs \ (A \cup {c})
           byMap == [m \in Mappings(f) |-> m[1]]
           byHolder == [r \in Holders(f) |-> th[r].tgt]
<1>1. p \in Threads /\ c \in Procs /\ NoPages(c, v, MaxSz)
  BY DEF IInv, ThreadOK, CopyOK, Threads
<1>2. IsFiniteSet(A) /\ IsFiniteSet(B) /\ IsFiniteSet(Mappings(f)) /\ IsFiniteSet(Holders(f))
  BY FS_Subset, RefsFinite
<1>3. byMap \in Injection(Mappings(f), A)
  <2>1. \A m \in Mappings(f) : m[1] \in Procs /\ m[2] = v /\ m = <<m[1], m[2]>> /\ pt[m[1]][v].pa = f
    BY DEF Mappings, IInv, SameAddress, Valid
  <2>2. byMap \in [Mappings(f) -> A]
    BY <2>1
  <2>3. \A m, n \in Mappings(f) : m[1] = n[1] => m = n
    BY <2>1
  <2> QED BY <2>2, <2>3 DEF Injection, IsInjective
<1>4. ASSUME NEW r \in Holders(f)
      PROVE  r # p /\ th[r].tgt \in Procs \ {c} /\ pt[th[r].tgt][v].pa # f
  <2>1. r \in Procs /\ r \in Threads /\ InHand(r, f) /\ ThreadOK(r) /\ r # p
    BY DEF Holders, InHand, Threads, IInv
  <2>2. ~OwnFrame(r, f) \/ th[r].tgt = p
    BY <2>1, OwnIsOwn
  <2>3. Freeing(r, "uvmcopy")
    BY <2>1, <2>2 DEF InHand, OwnFrame, Freeing, ThreadOK, ShapeOK, GrowOK, QuietPcs
  <2>4. /\ th[r].tgt \in Procs /\ th[r].v \in VPages /\ pt[r][th[r].v].pa = th[r].pa
        /\ th[r].pa = f /\ NoPages(th[r].tgt, th[r].v, MaxSz)
    BY <2>1, <2>3 DEF ThreadOK, CopyFailOK, InHand, Freeing
  <2>5. th[r].v = v
    BY <2>1, <2>4 DEF IInv, SameAddress, Valid
  <2>6. ~Valid(pt[th[r].tgt][v])
    BY <2>4, <2>5 DEF NoPages, VPages
  <2>7. th[r].tgt # c
    BY <1>1, <2>1, <2>4 DEF IInv, TargetsDiffer
  <2> QED BY <2>1, <2>4, <2>6, <2>7 DEF Valid
<1>5. byHolder \in Injection(Holders(f), B)
  <2>1. byHolder \in [Holders(f) -> B]
    BY <1>4
  <2>2. \A r, s \in Holders(f) : th[r].tgt = th[s].tgt => r = s
    BY <1>4 DEF IInv, TargetsDiffer, Holders, Threads
  <2> QED BY <2>1, <2>2 DEF Injection, IsInjective
<1> HIDE DEF byMap, byHolder
<1>6. Cardinality(Mappings(f)) <= Cardinality(A) /\ Cardinality(Holders(f)) <= Cardinality(B)
  <2>1. Cardinality(Mappings(f)) <= Cardinality(A)
    BY <1>2, <1>3, FS_Injection
  <2>2. Cardinality(Holders(f)) <= Cardinality(B)
    BY <1>2, <1>5, FS_Injection
  <2> QED BY <2>1, <2>2
<1>7. c \notin A
  BY <1>1 DEF NoPages, Valid, VPages
<1>8. Cardinality(A) + Cardinality(B) + 1 = Cardinality(Procs)
  <2>1. Cardinality(A \cup {c}) = Cardinality(A) + 1 /\ IsFiniteSet(A \cup {c})
    BY <1>2, <1>7, FS_AddElement
  <2>2. Cardinality(B) = Cardinality(Procs) - Cardinality(Procs \cap (A \cup {c}))
    BY FS_Difference
  <2>3. Procs \cap (A \cup {c}) = A \cup {c}
    BY <1>1
  <2>4. Cardinality(A) \in Nat /\ Cardinality(B) \in Nat /\ Cardinality(Procs) \in Nat
    BY <1>2, FS_CardinalityType
  <2> HIDE DEF A, B, c
  <2>5. Cardinality(B) = Cardinality(Procs) - (Cardinality(A) + 1)
    BY <2>1, <2>2, <2>3
  <2> QED BY <2>4, <2>5
<1>9. /\ Cardinality(A) \in Nat /\ Cardinality(B) \in Nat
      /\ Cardinality(Mappings(f)) \in Nat /\ Cardinality(Holders(f)) \in Nat
      /\ Cardinality(Procs) \in Nat
  BY <1>2, FS_CardinalityType
<1>10. mem_rc[f] = Cardinality(Mappings(f)) + Cardinality(Holders(f))
  BY DEF IInv, RcExact
<1> HIDE DEF A, B
<1> QED BY <1>6, <1>8, <1>9, <1>10

(* A page that is mapped has a reference, so cowalloc() does not panic.     *)
LEMMA ParentIsCounted ==
  ASSUME IInv, NEW p \in Procs, Copying(p), Valid(ParentPte(p))
  PROVE  ~BadRc(ParentPte(p).pa)
<1>1. PICK v \in VPages : v = th[p].v
  BY DEF Copying, Threads, IInv, TypeOK, Locals, VPages
<1>2. pt[p][v] \in PteType
  BY DEF IInv, TypeOK
<1>3. PICK f \in Frames : f = pt[p][v].pa
  BY <1>1, <1>2 DEF ParentPte, Valid, PteType
<1>4. mem_rc[f] \in 1..RcMax
  BY <1>3, ReferencedIsNotBad DEF IInv
<1> QED BY <1>1, <1>3, <1>4, RcMaxAssumption DEF BadRc, ParentPte

LEMMA UvmcopyPageGoesOn ==
  ASSUME IInv, NEW p \in Procs, UvmcopyPage(p)
  PROVE  /\ Copying(p) /\ Valid(ParentPte(p)) /\ AddRef(ParentPte(p).pa)
         /\ pt' = [pt EXCEPT ![p][th[p].v] = MarkCow(@),
                             ![th[p].tgt][th[p].v] = MarkCow(ParentPte(p))]
         /\ GoTo(p, [th[p] EXCEPT !.v = @ + 1])
         /\ UNCHANGED <<mem, sz, st, parent, panicked>>
<1>1. Copying(p) /\ Valid(ParentPte(p))
  BY DEF UvmcopyPage
<1>2. ~BadRc(ParentPte(p).pa)
  BY <1>1, ParentIsCounted
<1> QED BY <1>1, <1>2 DEF UvmcopyPage

LEMMA UvmcopyFailGoesOn ==
  ASSUME IInv, NEW p \in Procs, UvmcopyFail(p)
  PROVE  /\ Copying(p) /\ Valid(ParentPte(p)) /\ AddRef(ParentPte(p).pa)
         /\ pt' = [pt EXCEPT ![p][th[p].v] = MarkCow(@)]
         /\ GoTo(p, [th[p] EXCEPT !.pc = "kfree", !.pa = ParentPte(p).pa,
                                   !.kret = "uvmcopy"])
         /\ UNCHANGED <<mem, sz, st, parent, panicked>>
<1>1. Copying(p) /\ Valid(ParentPte(p))
  BY DEF UvmcopyFail
<1>2. ~BadRc(ParentPte(p).pa)
  BY <1>1, ParentIsCounted
<1> QED BY <1>1, <1>2 DEF UvmcopyFail

(* What the two error-free steps of the loop of uvmcopy start from.        *)
LEMMA Copies ==
  ASSUME IInv, NEW p \in Procs, Copying(p), Valid(ParentPte(p)), AddRef(ParentPte(p).pa)
  PROVE  /\ p \in Threads /\ th[p] \in Locals /\ th[p].v \in VPages
         /\ st[p] = "live" /\ th[p].ret = "none" /\ th[p].kret = "none"
         /\ th[p].tgt \in Procs \ {p} /\ st[th[p].tgt] = "embryo" /\ th[p].end = sz[p]
         /\ NoPages(th[p].tgt, th[p].v, MaxSz)
         /\ pt[p][th[p].v] \in PteType /\ pt[p][th[p].v].pa \in Frames
         /\ freelist' \in Seq(Frames) /\ FreelistExact'
         /\ mem_rc' \in [Frames -> 0..RcMax]
         /\ mem_rc'[pt[p][th[p].v].pa] = mem_rc[pt[p][th[p].v].pa] + 1
         /\ \A g \in Frames \ {pt[p][th[p].v].pa} : mem_rc'[g] = mem_rc[g]
         /\ \A q \in Procs, w \in VPages :
              pt[q][w].w /\ pt[q][w].pa = pt[p][th[p].v].pa => q = p /\ w = th[p].v
         /\ \A r \in Threads \ {p} : ~OwnFrame(r, pt[p][th[p].v].pa)
<1>1. /\ th[p].pc = "uvmcopy" /\ th[p].v < th[p].end /\ p \in Threads
      /\ th[p] \in Locals /\ th[p].v \in 0..MaxSz /\ th[p].end \in 0..MaxSz
  BY DEF Copying, Threads, IInv, TypeOK, Locals
<1>2. /\ st[p] = "live" /\ th[p].ret = "none" /\ th[p].kret = "none"
      /\ th[p].tgt \in Procs /\ st[th[p].tgt] = "embryo" /\ th[p].end = sz[p]
      /\ NoPages(th[p].tgt, th[p].v, MaxSz)
  BY <1>1 DEF IInv, ThreadOK, Alive, CopyOK, ShapeOK
<1>3. PICK v \in VPages : v = th[p].v
  BY <1>1 DEF VPages
<1>4. pt[p][v] \in PteType
  BY DEF IInv, TypeOK
<1>5. PICK f \in Frames : f = pt[p][v].pa
  BY <1>3, <1>4 DEF ParentPte, Valid, PteType
<1>6. mem_rc[f] \in 1..RcMax /\ mem_rc[f] + 1 \in 0..RcMax
  BY <1>1, <1>3, <1>5, ReferencedIsNotBad, RoomForOne DEF IInv
<1>7. /\ freelist' = freelist
      /\ mem_rc' = [mem_rc EXCEPT ![f] = mem_rc[f] + 1]
  BY <1>3, <1>5, <1>6, SignedCharFits DEF AddRef, ParentPte
<1>8. /\ mem_rc' \in [Frames -> 0..RcMax] /\ mem_rc'[f] = mem_rc[f] + 1
      /\ \A g \in Frames \ {f} : mem_rc'[g] = mem_rc[g]
      /\ freelist' \in Seq(Frames)
  BY <1>6, <1>7 DEF IInv, TypeOK
<1>9. FreelistExact'
  <2>1. \A g \in Frames : mem_rc'[g] = 0 <=> mem_rc[g] = 0
    BY <1>6, <1>8
  <2> QED BY <1>7, <2>1 DEF IInv, FreelistExact
<1>10. ASSUME NEW q \in Procs, NEW w \in VPages, pt[q][w].w, pt[q][w].pa = f
       PROVE  q = p /\ w = v
  <2>1. mem_rc[f] = 1
    BY <1>10 DEF IInv, WritableOne
  <2>2. <<p, v>> \in Mappings(f) /\ <<q, w>> \in Mappings(f)
    BY <1>5, <1>10, MappingsDef
  <2> QED BY <2>1, <2>2, SoleReference DEF IInv
<1>11. ASSUME NEW r \in Threads \ {p}, OwnFrame(r, f)
       PROVE  FALSE
  <2>1. th[r].tgt = p
    BY <1>5, <1>11, OwnIsOwn
  <2> QED BY <1>2, <2>1, NobodysTarget
<1>12. th[p].tgt # p
  BY <1>2
<1> QED BY <1>1, <1>2, <1>3, <1>4, <1>5, <1>8, <1>9, <1>10, <1>11, <1>12

LEMMA UvmcopyPageStep ==
  ASSUME IInv, NEW p \in Procs, UvmcopyPage(p)
  PROVE  IInv'
<1>a. Copying(p) /\ Valid(ParentPte(p)) /\ AddRef(ParentPte(p).pa)
  BY UvmcopyPageGoesOn
<1>0. PICK c \in Procs \ {p}, v \in VPages, f \in Frames :
        c = th[p].tgt /\ v = th[p].v /\ f = pt[p][v].pa
  BY <1>a, Copies
<1>1. /\ th[p].pc = "uvmcopy" /\ v < th[p].end
      /\ UNCHANGED <<mem, sz, st, parent, panicked>>
      /\ pt' = [pt EXCEPT ![p][v] = MarkCow(@), ![c][v] = MarkCow(pt[p][v])]
      /\ th' = [th EXCEPT ![p] = [th[p] EXCEPT !.v = @ + 1]]
  BY <1>0, UvmcopyPageGoesOn DEF Copying, ParentPte, GoTo
<1>2. /\ p \in Threads /\ th[p] \in Locals
      /\ st[p] = "live" /\ th[p].ret = "none" /\ th[p].kret = "none"
      /\ st[c] = "embryo" /\ th[p].end = sz[p] /\ NoPages(c, v, MaxSz)
      /\ pt[p][v] \in PteType
      /\ freelist' \in Seq(Frames) /\ FreelistExact'
      /\ mem_rc' \in [Frames -> 0..RcMax] /\ mem_rc'[f] = mem_rc[f] + 1
      /\ \A g \in Frames \ {f} : mem_rc'[g] = mem_rc[g]
      /\ \A q \in Procs, w \in VPages : pt[q][w].w /\ pt[q][w].pa = f => q = p /\ w = v
      /\ \A r \in Threads \ {p} : ~OwnFrame(r, f)
  <2>1. /\ p \in Threads /\ th[p] \in Locals
        /\ st[p] = "live" /\ th[p].ret = "none" /\ th[p].kret = "none"
        /\ st[c] = "embryo" /\ th[p].end = sz[p] /\ NoPages(c, v, MaxSz)
    BY <1>a, <1>0, Copies
  <2>2. /\ pt[p][v] \in PteType
        /\ freelist' \in Seq(Frames) /\ FreelistExact'
        /\ mem_rc' \in [Frames -> 0..RcMax] /\ mem_rc'[f] = mem_rc[f] + 1
        /\ \A g \in Frames \ {f} : mem_rc'[g] = mem_rc[g]
    BY <1>a, <1>0, Copies
  <2>3. \A q \in Procs, w \in VPages : pt[q][w].w /\ pt[q][w].pa = f => q = p /\ w = v
    <3>1. \A q \in Procs, w \in VPages :
            pt[q][w].w /\ pt[q][w].pa = pt[p][th[p].v].pa => q = p /\ w = th[p].v
      BY <1>a, Copies
    <3> QED BY <1>0, <3>1
  <2>4. \A r \in Threads \ {p} : ~OwnFrame(r, f)
    <3>1. \A r \in Threads \ {p} : ~OwnFrame(r, pt[p][th[p].v].pa)
      BY <1>a, Copies
    <3> QED BY <1>0, <3>1
  <2> QED BY <2>1, <2>2, <2>3, <2>4
<1>3. PICK e \in PteType : e = MarkCow(pt[p][v]) /\ e.pa = f /\ ~e.w
  BY <1>0, <1>2, MarkedPte
<1>4. /\ pt' \in [Procs -> [VPages -> PteType]]
      /\ \A r \in Procs, w \in VPages :
           pt'[r][w] = IF r \in {p, c} /\ w = v THEN e ELSE pt[r][w]
      /\ \A q \in Procs \ {p, c} : pt'[q] = pt[q]
  BY <1>1, <1>3 DEF IInv, TypeOK
<1>5. sz[p] \in 0..MaxSz /\ v + 1 \in 0..MaxSz /\ v \in 0..MaxSz
  BY DEF IInv, TypeOK, VPages
<1>6. PICK t \in Locals : t = [th[p] EXCEPT !.v = @ + 1]
  BY <1>0, <1>2, <1>5 DEF Locals
<1>7. /\ t.pc = "uvmcopy" /\ t.ret = "none" /\ t.kret = "none" /\ t.tgt = c
      /\ t.v = v + 1 /\ t.end = th[p].end
  BY <1>0, <1>1, <1>2, <1>6 DEF Locals
<1>8. th' = [th EXCEPT ![p] = t] /\ th'[p] = t
  BY <1>1, <1>2, <1>6 DEF IInv, TypeOK
<1>9. ~Valid(pt[c][v])
  BY <1>2, <1>5 DEF NoPages, VPages
<1>10. /\ Mappings(f)' = Mappings(f) \cup {<<c, v>>}
       /\ \A g \in Frames \ {f} : Mappings(g)' = Mappings(g)
  <2>1. \A g, m : m \in Procs \X VPages =>
          (pt'[m[1]][m[2]].pa = g <=>
             IF m = <<c, v>> THEN g = f ELSE pt[m[1]][m[2]].pa = g)
    BY <1>0, <1>3, <1>4
  <2>2. <<c, v>> \in Procs \X VPages /\ \A g \in Frames : <<c, v>> \notin Mappings(g)
    BY <1>9, MappingsDef DEF Valid
  <2>3. Mappings(f)' = Mappings(f) \cup {<<c, v>>}
    BY <2>1, <2>2 DEF Mappings
  <2>4. ASSUME NEW g \in Frames \ {f} PROVE Mappings(g)' = Mappings(g)
    BY <2>1, <2>2 DEF Mappings
  <2> QED BY <2>3, <2>4
<1>11. \A g : Holders(g)' = Holders(g)
  <2>1. \A r \in Procs \ {p} : th'[r] = th[r]
    BY <1>8 DEF IInv, TypeOK, Threads
  <2> QED BY <1>1, <1>7, <1>8, <2>1 DEF Holders, InHand
<1>12. mem_rc'[f] = Cardinality(Mappings(f)') + Cardinality(Holders(f)')
  <2>1. <<c, v>> \notin Mappings(f)
    BY <1>9, MappingsDef DEF Valid
  <2>2. IsFiniteSet(Mappings(f)) /\ IsFiniteSet(Holders(f))
    BY RefsFinite
  <2>3. Cardinality(Mappings(f)') = Cardinality(Mappings(f)) + 1
    BY <1>10, <2>1, <2>2, FS_AddElement
  <2>4. mem_rc[f] = Cardinality(Mappings(f)) + Cardinality(Holders(f))
    BY DEF IInv, RcExact
  <2>5. Cardinality(Mappings(f)) \in Nat /\ Cardinality(Holders(f)) \in Nat
    BY <2>2, FS_CardinalityType
  <2>6. Cardinality(Holders(f)') = Cardinality(Holders(f))
    BY <1>11
  <2> QED BY <1>2, <2>3, <2>4, <2>5, <2>6
<1>13. WritableOne'
  <2> SUFFICES ASSUME NEW r \in Procs, NEW w \in VPages, pt'[r][w].w
               PROVE  Valid(pt'[r][w]) /\ mem_rc'[pt'[r][w].pa] = 1
    BY DEF WritableOne, Valid
  <2>1. ~(r \in {p, c} /\ w = v) /\ pt'[r][w] = pt[r][w]
    BY <1>3, <1>4
  <2>2. Valid(pt[r][w]) /\ mem_rc[pt[r][w].pa] = 1 /\ pt[r][w].pa \in Frames
    BY <2>1 DEF IInv, WritableOne, TypeOK, PteType, Valid
  <2>3. pt[r][w].pa # f
    BY <1>2, <2>1
  <2> QED BY <1>2, <2>1, <2>2, <2>3
<1>14. SameAddress'
  <2>1. \A r \in Procs, w \in VPages : pt[r][w].pa = f => w = v
    BY <1>0 DEF IInv, SameAddress, Valid
  <2> QED BY <1>3, <1>4, <2>1 DEF IInv, SameAddress, Valid
<1>15. ThreadOK(p)'
  <2>1. v + 1 <= th[p].end
    BY <1>1, <1>2, <1>5
  <2>2. \A w \in VPages : v + 1 <= w => ~Valid(pt'[c][w])
    <3>1. ASSUME NEW w \in VPages, v + 1 <= w PROVE w # v /\ v <= w /\ w < MaxSz
      BY <1>5, <3>1 DEF VPages
    <3> QED BY <1>2, <1>4, <3>1 DEF NoPages
  <2>3. CopyOK(p)'
    BY ZenonT(60), <1>1, <1>2, <1>7, <1>8, <2>1, <2>2 DEF CopyOK, NoPages, Valid
  <2> QED BY <1>1, <1>2, <1>7, <1>8, <2>3
     DEF ThreadOK, Alive, ShapeOK, CowOK, CopyFailOK, GrowOK, UnmapOK, OwnOK, OwnFrame,
         Freeing, Unmapper, QuietPcs
<1>16. Extent(p)' /\ Extent(c)'
  <2>1. Extent(c)'
    BY <1>1, <1>2 DEF Extent
  <2>2. \A w \in VPages : pt'[p][w].pa = pt[p][w].pa
    BY <1>0, <1>3, <1>4
  <2>3. NoPages(p, sz[p], MaxSz)
    BY <1>1, <1>2 DEF IInv, Extent, Enlarging
  <2>4. Extent(p)'
    BY <1>1, <1>2, <2>2, <2>3 DEF Extent, NoPages, Valid
  <2> QED BY <2>1, <2>4
<1>17. mem' \in [Frames -> Data \cup {JunkFree, JunkAlloc}]
  BY <1>1 DEF IInv, TypeOK
<1>18. /\ \A q \in Procs \ {p, th[p].tgt} : pt'[q] = pt[q]
       /\ \A q \in Procs \cap {p, th[p].tgt} : Extent(q)'
       /\ \A g \in Frames \ {f} : mem_rc'[g] = mem_rc[g] /\ Mappings(g)' = Mappings(g)
                                 /\ Holders(g)' = Holders(g)
  BY <1>0, <1>2, <1>4, <1>10, <1>11, <1>16
<1>19. /\ t.tgt = th[p].tgt /\ p \in Threads /\ st[p] = "live"
       /\ UNCHANGED <<sz, st, parent, panicked>>
       /\ freelist' \in Seq(Frames) /\ FreelistExact'
       /\ mem_rc' \in [Frames -> 0..RcMax]
       /\ pt' \in [Procs -> [VPages -> PteType]]
       /\ \A r \in Threads \ {p} : OwnFrame(r, f) => mem_rc'[f] = mem_rc[f]
  BY <1>0, <1>1, <1>2, <1>4, <1>7
<1> QED BY <1>8, <1>12, <1>13, <1>14, <1>15, <1>17, <1>18, <1>19, CountedStep

(* The error path of uvmcopy: the reference of the child is in hand.       *)
LEMMA UvmcopyFailStep ==
  ASSUME IInv, NEW p \in Procs, UvmcopyFail(p)
  PROVE  IInv'
<1>a. Copying(p) /\ Valid(ParentPte(p)) /\ AddRef(ParentPte(p).pa)
  BY UvmcopyFailGoesOn
<1>0. PICK c \in Procs \ {p}, v \in VPages, f \in Frames :
        c = th[p].tgt /\ v = th[p].v /\ f = pt[p][v].pa
  BY <1>a, Copies
<1>1. /\ th[p].pc = "uvmcopy" /\ v < th[p].end
      /\ UNCHANGED <<mem, sz, st, parent, panicked>>
      /\ pt' = [pt EXCEPT ![p][v] = MarkCow(@)]
      /\ th' = [th EXCEPT ![p] = [th[p] EXCEPT !.pc = "kfree", !.pa = f, !.kret = "uvmcopy"]]
  BY <1>0, UvmcopyFailGoesOn DEF Copying, ParentPte, GoTo
<1>2. /\ p \in Threads /\ th[p] \in Locals
      /\ st[p] = "live" /\ th[p].ret = "none" /\ th[p].kret = "none"
      /\ st[c] = "embryo" /\ th[p].end = sz[p] /\ NoPages(c, v, MaxSz)
      /\ pt[p][v] \in PteType
      /\ freelist' \in Seq(Frames) /\ FreelistExact'
      /\ mem_rc' \in [Frames -> 0..RcMax] /\ mem_rc'[f] = mem_rc[f] + 1
      /\ \A g \in Frames \ {f} : mem_rc'[g] = mem_rc[g]
      /\ \A q \in Procs, w \in VPages : pt[q][w].w /\ pt[q][w].pa = f => q = p /\ w = v
      /\ \A r \in Threads \ {p} : ~OwnFrame(r, f)
  <2>1. /\ p \in Threads /\ th[p] \in Locals
        /\ st[p] = "live" /\ th[p].ret = "none" /\ th[p].kret = "none"
        /\ st[c] = "embryo" /\ th[p].end = sz[p] /\ NoPages(c, v, MaxSz)
    BY <1>a, <1>0, Copies
  <2>2. /\ pt[p][v] \in PteType
        /\ freelist' \in Seq(Frames) /\ FreelistExact'
        /\ mem_rc' \in [Frames -> 0..RcMax] /\ mem_rc'[f] = mem_rc[f] + 1
        /\ \A g \in Frames \ {f} : mem_rc'[g] = mem_rc[g]
    BY <1>a, <1>0, Copies
  <2>3. \A q \in Procs, w \in VPages : pt[q][w].w /\ pt[q][w].pa = f => q = p /\ w = v
    <3>1. \A q \in Procs, w \in VPages :
            pt[q][w].w /\ pt[q][w].pa = pt[p][th[p].v].pa => q = p /\ w = th[p].v
      BY <1>a, Copies
    <3> QED BY <1>0, <3>1
  <2>4. \A r \in Threads \ {p} : ~OwnFrame(r, f)
    <3>1. \A r \in Threads \ {p} : ~OwnFrame(r, pt[p][th[p].v].pa)
      BY <1>a, Copies
    <3> QED BY <1>0, <3>1
  <2> QED BY <2>1, <2>2, <2>3, <2>4
<1>3. PICK e \in PteType : e = MarkCow(pt[p][v]) /\ e.pa = f /\ ~e.w
  BY <1>0, <1>2, MarkedPte
<1>4. /\ pt' \in [Procs -> [VPages -> PteType]]
      /\ \A g : Mappings(g)' = Mappings(g)
      /\ \A r \in Procs, w \in VPages : pt'[r][w].pa = pt[r][w].pa
      /\ \A r \in Procs, w \in VPages : <<r, w>> # <<p, v>> => pt'[r][w] = pt[r][w]
      /\ pt'[p][v] = e
      /\ \A q \in Procs \ {p} : pt'[q] = pt[q]
  <2>1. pt' = [pt EXCEPT ![p][v] = e] /\ e.pa = pt[p][v].pa
    BY <1>0, <1>1, <1>3
  <2>2. \A q \in Procs \ {p} : pt'[q] = pt[q]
    BY <2>1 DEF IInv, TypeOK
  <2>3. TypeOK
    BY DEF IInv
  <2>4. /\ pt' \in [Procs -> [VPages -> PteType]]
        /\ \A g : Mappings(g)' = Mappings(g)
        /\ \A r \in Procs, w \in VPages : pt'[r][w].pa = pt[r][w].pa
        /\ \A r \in Procs, w \in VPages : <<r, w>> # <<p, v>> => pt'[r][w] = pt[r][w]
        /\ pt'[p][v] = e
    BY ZenonT(60), <2>1, <2>3, SamePa
  <2> QED BY <2>2, <2>4
<1>5. PICK t \in Locals : t = [th[p] EXCEPT !.pc = "kfree", !.pa = f, !.kret = "uvmcopy"]
  BY <1>2 DEF Locals, Pcs
<1>6. /\ t.pc = "kfree" /\ t.ret = "none" /\ t.kret = "uvmcopy" /\ t.tgt = c
      /\ t.v = v /\ t.pa = f
  BY ZenonT(60), <1>0, <1>2, <1>5 DEF Locals
<1>7. th' = [th EXCEPT ![p] = t] /\ th'[p] = t
  BY <1>1, <1>2, <1>5 DEF IInv, TypeOK
<1>8. \A g : (InHand(p, g)' <=> g = f) /\ ~InHand(p, g)
  BY <1>1, <1>6, <1>7 DEF InHand
<1>9. /\ Holders(f)' = Holders(f) \cup {p} /\ p \notin Holders(f)
      /\ \A g \in Frames \ {f} : Holders(g)' = Holders(g)
  <2>1. \A r \in Procs \ {p} : th'[r] = th[r]
    BY <1>7 DEF IInv, TypeOK, Threads
  <2>2. Holders(f)' = Holders(f) \cup {p}
    BY <1>8, <2>1, ThreadMoved DEF IInv
  <2>3. \A g \in Frames \ {f} : Holders(g)' = Holders(g) \ {p}
    BY <1>8, <2>1, ThreadMoved DEF IInv
  <2>4. \A g : p \notin Holders(g)
    BY <1>8 DEF Holders
  <2>5. \A g \in Frames \ {f} : Holders(g)' = Holders(g)
    BY <2>3, <2>4
  <2> QED BY <2>2, <2>4, <2>5
<1>10. mem_rc'[f] = Cardinality(Mappings(f)') + Cardinality(Holders(f)')
  <2>1. IsFiniteSet(Mappings(f)) /\ IsFiniteSet(Holders(f))
    BY RefsFinite
  <2>2. Cardinality(Holders(f)') = Cardinality(Holders(f)) + 1
    BY ZenonT(60), <1>9, <2>1, FS_AddElement
  <2>3. mem_rc[f] = Cardinality(Mappings(f)) + Cardinality(Holders(f))
    BY DEF IInv, RcExact
  <2>4. Cardinality(Mappings(f)) \in Nat /\ Cardinality(Holders(f)) \in Nat
    BY <2>1, FS_CardinalityType
  <2>5. Cardinality(Mappings(f)') = Cardinality(Mappings(f))
    BY <1>4
  <2> QED BY <1>2, <2>2, <2>3, <2>4, <2>5
<1>11. WritableOne'
  <2> SUFFICES ASSUME NEW r \in Procs, NEW w \in VPages, pt'[r][w].w
               PROVE  Valid(pt'[r][w]) /\ mem_rc'[pt'[r][w].pa] = 1
    BY DEF WritableOne, Valid
  <2>1. ~(r = p /\ w = v) /\ pt'[r][w] = pt[r][w]
    BY <1>3, <1>4
  <2>2. Valid(pt[r][w]) /\ mem_rc[pt[r][w].pa] = 1 /\ pt[r][w].pa \in Frames
    BY <2>1 DEF IInv, WritableOne, TypeOK, PteType, Valid
  <2>3. pt[r][w].pa # f
    BY <1>2, <2>1
  <2> QED BY <1>2, <2>1, <2>2, <2>3
<1>12. SameAddress'
  BY <1>4 DEF IInv, SameAddress, Valid
<1>13. ThreadOK(p)'
  <2>1. CopyFailOK(p)'
    <3>1. NoPages(c, v, MaxSz)'
      BY <1>2, <1>4 DEF NoPages, Valid
    <3>2. pt'[p][v].pa = f
      BY <1>3, <1>4
    <3> QED BY ZenonT(60), <1>0, <1>1, <1>2, <1>6, <1>7, <3>1, <3>2 DEF CopyFailOK, NoPages, Valid
  <2> QED BY <1>1, <1>2, <1>6, <1>7, <2>1
     DEF ThreadOK, Alive, ShapeOK, CowOK, CopyOK, GrowOK, UnmapOK, OwnOK, OwnFrame,
         Freeing, Unmapper, QuietPcs
<1>14. Extent(p)' /\ Extent(c)'
  <2>1. Extent(c)'
    BY <1>1, <1>2 DEF Extent
  <2>2. NoPages(p, sz[p], MaxSz)
    BY <1>1, <1>2 DEF IInv, Extent, Enlarging
  <2>3. Extent(p)'
    BY <1>1, <1>2, <1>4, <2>2 DEF Extent, NoPages, Valid
  <2> QED BY <2>1, <2>3
<1>15. mem' \in [Frames -> Data \cup {JunkFree, JunkAlloc}]
  BY <1>1 DEF IInv, TypeOK
<1>16. /\ \A q \in Procs \ {p, th[p].tgt} : pt'[q] = pt[q]
       /\ \A q \in Procs \cap {p, th[p].tgt} : Extent(q)'
       /\ \A g \in Frames \ {f} : mem_rc'[g] = mem_rc[g] /\ Mappings(g)' = Mappings(g)
                                 /\ Holders(g)' = Holders(g)
  BY <1>0, <1>2, <1>4, <1>9, <1>14
<1>17. /\ t.tgt = th[p].tgt /\ p \in Threads /\ st[p] = "live"
       /\ UNCHANGED <<sz, st, parent, panicked>>
       /\ freelist' \in Seq(Frames) /\ FreelistExact'
       /\ mem_rc' \in [Frames -> 0..RcMax]
       /\ pt' \in [Procs -> [VPages -> PteType]]
       /\ \A r \in Threads \ {p} : OwnFrame(r, f) => mem_rc'[f] = mem_rc[f]
  BY <1>0, <1>1, <1>2, <1>4, <1>6
<1> QED BY <1>7, <1>10, <1>11, <1>12, <1>13, <1>15, <1>16, <1>17, CountedStep

(* A panic of uvmcopy changes nothing but stops the machine.               *)
LEMMA Still ==
  ASSUME IInv, UNCHANGED <<freelist, mem_rc, mem, pt, sz, st, parent, th>>,
         panicked' \in {panicked, "uvmcopy: page not present"}
  PROVE  IInv'
<1>1. TypeOK'
  BY DEF IInv, TypeOK, Panics
<1>2. RcExact'
  <2>1. \A f : Mappings(f)' = Mappings(f) /\ Holders(f)' = Holders(f)
    BY DEF Mappings, Holders, InHand
  <2> QED BY <2>1 DEF IInv, RcExact
<1>3. FreelistExact'
  BY DEF IInv, FreelistExact
<1>4. WritableOne'
  BY DEF IInv, WritableOne
<1>5. SameAddress' /\ TargetsDiffer'
  BY DEF IInv, SameAddress, TargetsDiffer
<1>6. ASSUME NEW r \in Threads PROVE ThreadOK(r)'
  BY OtherThread
<1>7. \A q \in Procs : Extent(q)'
  BY DEF IInv, Extent, NoPages, Enlarging
<1>8. CountsNeverPanic'
  BY DEF IInv, CountsNeverPanic
<1> QED BY <1>1, <1>2, <1>3, <1>4, <1>5, <1>6, <1>7, <1>8 DEF IInv

LEMMA UvmcopyPanicStep ==
  ASSUME IInv, NEW p \in Procs, UvmcopyPanic(p)
  PROVE  IInv'
BY Still DEF UvmcopyPanic, Panic

LEMMA StutterStep ==
  ASSUME IInv, UNCHANGED vars
  PROVE  IInv'
BY Still DEF vars

-----------------------------------------------------------------------------
(* kfree returns: the reference that was given up is the PTE at the cursor *)
(* of uvmunmap, or the page that an error path had in hand.                *)

LEMMA FreedIsMine ==
  ASSUME IInv, NEW p \in Threads, Kfrees(p) \/ th[p].pc = "kfree_push",
         NEW f \in Frames, f = KfreePa(p), NEW r \in Threads \ {p}
  PROVE  ~OwnFrame(r, f)
<1> SUFFICES ASSUME OwnFrame(r, f) PROVE FALSE
  OBVIOUS
<1>1. CASE th[p].tgt \in Procs /\ th[p].v \in VPages /\ pt[th[p].tgt][th[p].v].pa = f
  <2>1. th[p].tgt = th[r].tgt
    BY <1>1, OwnIsOwn
  <2> QED BY <1>1, <2>1 DEF IInv, TargetsDiffer
<1>2. CASE p \in Procs /\ InHand(p, f)
  BY <1>2, OwnIsOwn
<1> QED BY <1>1, <1>2, FreedIsReferenced

LEMMA PteCleared ==
  ASSUME TypeOK, NEW q \in Procs, NEW v \in VPages, NEW e,
         pt' = [pt EXCEPT ![q][v] = e], e.pa = NoFrame
  PROVE  \A f \in Frames : Mappings(f)' = Mappings(f) \ {<<q, v>>}
<1> TAKE f \in Frames
<1>1. e.pa # f
  OBVIOUS
<1> QED BY <1>1, PteWritten

LEMMA KfreeToUnmapStep ==
  ASSUME IInv, NEW p \in Threads, Kfrees(p) \/ th[p].pc = "kfree_push",
         th[p].kret = "unmap", KfreeReturns(p),
         UNCHANGED <<mem, sz, st, parent, panicked>>,
         NEW f \in Frames, f = KfreePa(p),
         freelist' \in Seq(Frames), FreelistExact', mem_rc' \in [Frames -> 0..RcMax],
         mem_rc'[f] = mem_rc[f] - 1, \A g \in Frames \ {f} : mem_rc'[g] = mem_rc[g]
  PROVE  IInv'
<1>1. /\ p \in Procs => st[p] = "live"
      /\ UnmapOK(p) /\ th[p].tgt \in Procs /\ th[p].v \in VPages /\ th[p].v < th[p].end
      /\ pt[th[p].tgt][th[p].v].pa = f
      /\ \A g : ~InHand(p, g)
  BY FreedIsReferenced
<1>2. PICK q \in Procs, v \in VPages : q = th[p].tgt /\ v = th[p].v
  BY <1>1
<1>0. PICK e \in PteType : e = NoPte /\ e.pa = NoFrame /\ ~e.w
  BY ClearPte
<1>3. /\ pt' = [pt EXCEPT ![q][v] = e]
      /\ th' = [th EXCEPT ![p] = [th[p] EXCEPT !.pc = "unmap", !.v = @ + 1]]
  BY <1>0, <1>2 DEF KfreeReturns, GoTo
<1>4. /\ th[p] \in Locals /\ v \in 0..MaxSz /\ th[p].end \in 0..MaxSz
      /\ th[p].lo \in 0..MaxSz /\ v + 1 \in 0..MaxSz
  <2>1. th[p] \in Locals
    BY DEF IInv, TypeOK
  <2>2. th[p].end \in 0..MaxSz /\ th[p].lo \in 0..MaxSz
    BY <2>1 DEF Locals
  <2>3. v \in 0..MaxSz /\ v + 1 \in 0..MaxSz
    BY DEF VPages
  <2> QED BY <2>1, <2>2, <2>3
<1>5. PICK t \in Locals : t = [th[p] EXCEPT !.pc = "unmap", !.v = @ + 1]
  BY <1>2, <1>4 DEF Locals, Pcs
<1>6. /\ t.pc = "unmap" /\ t.kret = "unmap" /\ t.ret = th[p].ret /\ t.tgt = q
      /\ t.v = v + 1 /\ t.lo = th[p].lo /\ t.end = th[p].end /\ t.pa = th[p].pa
  BY <1>2, <1>4, <1>5 DEF Locals
<1>7. th' = [th EXCEPT ![p] = t] /\ th'[p] = t
  BY <1>3, <1>5 DEF IInv, TypeOK
<1>8. /\ pt' \in [Procs -> [VPages -> PteType]]
      /\ \A r \in Procs, w \in VPages : pt'[r][w] = IF r = q /\ w = v THEN e ELSE pt[r][w]
      /\ \A r \in Procs \ {q} : pt'[r] = pt[r]
  BY <1>3 DEF IInv, TypeOK
<1>9. \A r \in Procs, w \in VPages : ~Valid(pt[r][w]) => ~Valid(pt'[r][w])
  BY <1>0, <1>8 DEF Valid
<1>10. ~Valid(pt'[q][v])
  BY <1>0, <1>8 DEF Valid
<1>11. \A g \in Frames : Mappings(g)' = Mappings(g) \ {<<q, v>>}
  <2>1. TypeOK /\ e.pa = NoFrame
    BY <1>0 DEF IInv
  <2>2. pt' = [pt EXCEPT ![q][v] = e]
    BY <1>3
  <2> QED BY <2>1, <2>2, PteCleared, Zenon
<1>12. /\ <<q, v>> \in Mappings(f)
       /\ \A g \in Frames \ {f} : Mappings(g)' = Mappings(g)
  <2>1. \A g : <<q, v>> \in Mappings(g) <=> g = f
    BY <1>1, <1>2, MappingsDef
  <2>2. ASSUME NEW g \in Frames \ {f} PROVE Mappings(g)' = Mappings(g)
    <3>1. Mappings(g)' = Mappings(g) \ {<<q, v>>}
      BY <1>11
    <3> QED BY <2>1, <3>1
  <2> QED BY <2>1, <2>2
<1>13. \A g : Holders(g)' = Holders(g)
  <2>1. \A r \in Procs \ {p} : th'[r] = th[r]
    BY <1>7 DEF IInv, TypeOK, Threads
  <2>2. \A g : ~InHand(p, g)'
    BY <1>6, <1>7 DEF InHand
  <2>3. \A g : \A r \in Procs : InHand(r, g)' <=> InHand(r, g)
    <3>1. \A g : \A r \in Procs \ {p} : InHand(r, g)' <=> InHand(r, g)
      BY <2>1 DEF InHand
    <3> QED BY <1>1, <2>2, <3>1
  <2> QED BY <2>3 DEF Holders
<1>14. mem_rc'[f] = Cardinality(Mappings(f)') + Cardinality(Holders(f)')
  <2>1. IsFiniteSet(Mappings(f)) /\ IsFiniteSet(Holders(f))
    BY RefsFinite
  <2>2. Cardinality(Mappings(f)') = Cardinality(Mappings(f)) - 1
    <3>1. Cardinality(Mappings(f) \ {<<q, v>>}) = Cardinality(Mappings(f)) - 1
      BY <1>12, <2>1, FS_RemoveElement
    <3> QED BY <1>11, <3>1
  <2>3. mem_rc[f] = Cardinality(Mappings(f)) + Cardinality(Holders(f))
    BY DEF IInv, RcExact
  <2>4. Cardinality(Mappings(f)) \in Nat /\ Cardinality(Holders(f)) \in Nat
    BY <2>1, FS_CardinalityType
  <2>5. Cardinality(Holders(f)') = Cardinality(Holders(f))
    BY <1>13
  <2> QED BY <2>2, <2>3, <2>4, <2>5
<1>15. WritableOne'
  <2> SUFFICES ASSUME NEW r \in Procs, NEW w \in VPages, pt'[r][w].w
               PROVE  Valid(pt'[r][w]) /\ mem_rc'[pt'[r][w].pa] = 1
    BY DEF WritableOne, Valid
  <2>1. ~(r = q /\ w = v) /\ pt'[r][w] = pt[r][w]
    BY <1>0, <1>8
  <2>2. Valid(pt[r][w]) /\ mem_rc[pt[r][w].pa] = 1 /\ pt[r][w].pa \in Frames
    BY <2>1 DEF IInv, WritableOne, TypeOK, PteType, Valid
  <2>3. pt[r][w].pa # f
    <3>1. ASSUME pt[r][w].pa = f PROVE FALSE
      <4>1. <<r, w>> \in Mappings(f) /\ mem_rc[f] = 1
        BY <2>2, <3>1, MappingsDef
      <4>2. Mappings(f) = {<<q, v>>}
        BY <1>12, <4>1, SoleReference DEF IInv
      <4> QED BY <2>1, <4>1, <4>2
    <3> QED BY <3>1
  <2> QED BY <2>1, <2>2, <2>3
<1>16. SameAddress'
  <2>1. \A r \in Procs, w \in VPages : Valid(pt'[r][w]) => pt'[r][w].pa = pt[r][w].pa
    BY <1>0, <1>8 DEF Valid
  <2>2. \A r \in Procs, w \in VPages : pt'[r][w].pa \in {pt[r][w].pa, NoFrame}
    BY <1>0, <1>8
  <2> QED BY <2>1, <2>2 DEF IInv, SameAddress, Valid
<1>17. ThreadOK(p)'
  <2>0. /\ RetOK(p) /\ th[p].lo <= v /\ v < th[p].end /\ NoPages(q, th[p].lo, v)
    <3>1. Unmapper(p)
      BY DEF Unmapper, Freeing, Kfrees, Unmaps, IInv, ThreadOK, ShapeOK
    <3> QED BY <1>1, <1>2, <3>1 DEF UnmapOK
  <2>1. RetOK(p)'
    <3>1. \A w \in VPages : ~Valid(pt[q][w]) => ~Valid(pt'[q][w])
      BY <1>2, <1>9
    <3>2. CASE th[p].ret \in {"uvmalloc", "uvmcopy"}
      <4>1. CASE th[p].ret = "uvmalloc"
        <5>1. q = p /\ th[p].lo = sz[p]
          BY <1>2, <2>0, <4>1 DEF RetOK
        <5>2. \A w \in VPages : th[p].end <= w /\ w < MaxSz => ~Valid(pt[q][w])
          BY <1>2, <2>0, <4>1 DEF RetOK, NoPages
        <5>3. \A w \in VPages : t.end <= w /\ w < MaxSz => ~Valid(pt'[q][w])
          BY <1>6, <3>1, <5>2
        <5>4. NoPages(p, th[p].end, MaxSz)'
          BY <1>2, <1>6, <1>7, <5>1, <5>3 DEF NoPages
        <5> QED BY <1>2, <1>6, <1>7, <4>1, <5>1, <5>4 DEF RetOK
      <4>2. CASE th[p].ret = "uvmcopy"
        <5>1. st[q] = "embryo" /\ th[p].lo = 0
          BY <1>2, <2>0, <4>2 DEF RetOK
        <5>2. \A w \in VPages : th[p].end <= w /\ w < MaxSz => ~Valid(pt[q][w])
          BY <1>2, <2>0, <4>2 DEF RetOK, NoPages
        <5>3. \A w \in VPages : t.end <= w /\ w < MaxSz => ~Valid(pt'[q][w])
          BY <1>6, <3>1, <5>2
        <5>4. NoPages(th[p].tgt, th[p].end, MaxSz)'
          BY <1>2, <1>6, <1>7, <5>1, <5>3 DEF NoPages
        <5> QED BY <1>2, <1>6, <1>7, <4>2, <5>1, <5>4 DEF RetOK
      <4> QED BY <3>2, <4>1, <4>2
    <3>3. CASE th[p].ret \in {"cow", "sbrk", "uvmfree"}
      <4>1. CASE th[p].ret = "cow"
        BY <1>2, <1>6, <1>7, <2>0, <4>1 DEF RetOK
      <4>2. CASE th[p].ret = "sbrk"
        BY <1>2, <1>6, <1>7, <2>0, <4>2 DEF RetOK
      <4>3. CASE th[p].ret = "uvmfree"
        BY <1>2, <1>6, <1>7, <2>0, <4>3 DEF RetOK
      <4> QED BY <3>3, <4>1, <4>2, <4>3
    <3> QED BY <2>0, <3>2, <3>3 DEF RetOK
  <2>2. \A w \in VPages : th[p].lo <= w /\ w < v + 1 => ~Valid(pt'[q][w])
    <3>1. \A w \in VPages : th[p].lo <= w /\ w < v => ~Valid(pt[q][w])
      BY <2>0 DEF NoPages
    <3>2. \A w \in VPages : w < v + 1 => w < v \/ w = v
      BY DEF VPages
    <3> QED BY <1>9, <1>10, <3>1, <3>2
  <2>3. th[p].lo <= v + 1 /\ v + 1 <= th[p].end
    BY <1>4, <2>0
  <2>4. UnmapOK(p)'
    BY <1>6, <1>7, <2>1, <2>2, <2>3 DEF UnmapOK, Unmapper, NoPages, Valid
  <2>5. Alive(p)'
    <3>1. th[p].pc # "user"
      BY DEF Kfrees, Unmaps
    <3> QED BY <1>6, <1>7, <3>1 DEF IInv, ThreadOK, Alive
  <2> QED BY <1>6, <1>7, <2>4, <2>5
     DEF ThreadOK, ShapeOK, CowOK, CopyOK, CopyFailOK, GrowOK, OwnOK, OwnFrame,
         Freeing, QuietPcs
<1>18. ASSUME NEW r \in Procs PROVE Extent(r)'
  <2>1. Enlarging(r)' <=> Enlarging(r)
    BY <1>6, <1>7 DEF Enlarging, IInv, TypeOK, Threads, Kfrees, Unmaps
  <2> QED BY <1>9, <2>1 DEF IInv, Extent, NoPages
<1>19. mem' \in [Frames -> Data \cup {JunkFree, JunkAlloc}]
  BY DEF IInv, TypeOK
<1>20. /\ \A r \in Procs \ {p, th[p].tgt} : pt'[r] = pt[r]
       /\ \A r \in Procs \cap {p, th[p].tgt} : Extent(r)'
       /\ \A g \in Frames \ {f} : mem_rc'[g] = mem_rc[g] /\ Mappings(g)' = Mappings(g)
                                 /\ Holders(g)' = Holders(g)
       /\ \A r \in Threads \ {p} : OwnFrame(r, f) => mem_rc'[f] = mem_rc[f]
       /\ t.tgt = th[p].tgt
  BY <1>2, <1>6, <1>8, <1>12, <1>13, <1>18, FreedIsMine
<1> QED BY <1>1, <1>7, <1>8, <1>14, <1>15, <1>16, <1>17, <1>19, <1>20, CountedStep

(* What is to be shown of a thread that leaves the error path of uvmcopy   *)
(* or of uvmalloc: with nothing in hand, it goes on in uvmunmap.           *)
LEMMA KfreeToErrorStep ==
  ASSUME IInv, NEW p \in Procs, Kfrees(p) \/ th[p].pc = "kfree_push",
         th[p].kret \in {"uvmcopy", "uvmalloc"}, KfreeReturns(p),
         UNCHANGED <<mem, sz, st, parent, panicked>>,
         NEW f \in Frames, f = KfreePa(p),
         freelist' \in Seq(Frames), FreelistExact', mem_rc' \in [Frames -> 0..RcMax],
         mem_rc'[f] = mem_rc[f] - 1, \A g \in Frames \ {f} : mem_rc'[g] = mem_rc[g]
  PROVE  IInv'
<1>1. /\ p \in Threads /\ st[p] = "live" /\ th[p].pc \in {"kfree", "kfree_push"}
      /\ \A g : InHand(p, g) <=> g = f
  <2>1. th[p].pc \in {"kfree", "kfree_push"}
    BY DEF Kfrees, Unmaps, IInv, ThreadOK, UnmapOK, Unmapper, Threads
  <2> QED BY <2>1, FreedIsReferenced DEF Threads
<1>2. th[p] \in Locals /\ th[p].v \in 0..MaxSz /\ sz[p] \in 0..MaxSz
  BY <1>1 DEF IInv, TypeOK, Locals
<1>3. pt' = pt
  BY DEF KfreeReturns
<1>4. PICK t \in Locals, c \in Procs :
        /\ th' = [th EXCEPT ![p] = t]
        /\ t.pc = "unmap" /\ t.kret = "unmap" /\ t.tgt = c /\ t.v = t.lo /\ t.end = th[p].v
        /\ \/ /\ t.ret = "uvmcopy" /\ t.lo = 0 /\ c = th[p].tgt /\ st[c] = "embryo"
              /\ NoPages(c, th[p].v, MaxSz) /\ ~Enlarging(p)
           \/ /\ t.ret = "uvmalloc" /\ t.lo = sz[p] /\ c = p /\ sz[p] <= th[p].v
              /\ NoPages(p, th[p].v, MaxSz) /\ th[p].tgt = NoProc
  <2>1. CASE th[p].kret = "uvmcopy"
    <3>1. th' = [th EXCEPT ![p] = Unmapping(User, th[p].tgt, 0, th[p].v, "uvmcopy")]
      BY <2>1 DEF KfreeReturns, GoTo
    <3>2. /\ th[p].tgt \in Procs /\ st[th[p].tgt] = "embryo" /\ th[p].ret = "none"
          /\ NoPages(th[p].tgt, th[p].v, MaxSz)
      BY <1>1, <2>1 DEF IInv, ThreadOK, CopyFailOK, Freeing
    <3>3. PICK c \in Procs : c = th[p].tgt
      BY <3>2
    <3>4. PICK t \in Locals : t = Unmapping(User, c, 0, th[p].v, "uvmcopy")
      <4>1. ASSUME NEW lo \in 0..MaxSz, NEW end \in 0..MaxSz
            PROVE  Unmapping(User, c, lo, end, "uvmcopy") \in Locals
        BY UserType DEF Unmapping, Locals, Pcs
      <4>2. 0 \in 0..MaxSz
        OBVIOUS
      <4> QED BY <1>2, <4>1, <4>2
    <3>5. /\ t.pc = "unmap" /\ t.kret = "unmap" /\ t.ret = "uvmcopy" /\ t.tgt = c
          /\ t.v = t.lo /\ t.lo = 0 /\ t.end = th[p].v
      BY <3>4, UserType DEF Unmapping, Locals
    <3>6. ~Enlarging(p)
      BY <1>1, <2>1, <3>2 DEF Enlarging
    <3> QED BY <3>1, <3>2, <3>3, <3>4, <3>5, <3>6
  <2>2. CASE th[p].kret = "uvmalloc"
    <3>1. th' = [th EXCEPT ![p] = Unmapping(User, p, sz[p], th[p].v, "uvmalloc")]
      BY <2>2 DEF KfreeReturns, GoTo
    <3>2. /\ th[p].tgt = NoProc /\ sz[p] <= th[p].v
          /\ NoPages(p, th[p].v, MaxSz)
      BY <1>1, <2>2 DEF IInv, ThreadOK, GrowOK, Freeing
    <3>3. PICK t \in Locals : t = Unmapping(User, p, sz[p], th[p].v, "uvmalloc")
      <4>1. ASSUME NEW lo \in 0..MaxSz, NEW end \in 0..MaxSz
            PROVE  Unmapping(User, p, lo, end, "uvmalloc") \in Locals
        BY UserType DEF Unmapping, Locals, Pcs
      <4> QED BY <1>2, <4>1
    <3>4. /\ t.pc = "unmap" /\ t.kret = "unmap" /\ t.ret = "uvmalloc" /\ t.tgt = p
          /\ t.v = t.lo /\ t.lo = sz[p] /\ t.end = th[p].v
      BY <3>3, UserType DEF Unmapping, Locals
    <3> QED BY <3>1, <3>2, <3>3, <3>4
  <2> QED BY <2>1, <2>2
<1>5. th'[p] = t
  BY <1>1, <1>4 DEF IInv, TypeOK
<1>6. RetOK(p)'
  BY <1>3, <1>4, <1>5 DEF RetOK, NoPages
<1>7. ThreadOK(p)' /\ \A g : ~InHand(p, g)'
  <2>1. t.lo \in Nat /\ t.end \in Nat /\ t.lo <= t.end
    BY <1>2, <1>4
  <2> QED BY <1>1, <1>4, <1>5, <1>6, <2>1, UnmapBegins
<1>8. Extent(p)'
  <2>1. ~Enlarging(p) \/ Enlarging(p)'
    BY <1>4, <1>5 DEF Enlarging
  <2> QED BY <1>3, <2>1, ExtentStays
<1>9. /\ Holders(f)' = Holders(f) \ {p} /\ p \in Holders(f)
      /\ \A g \in Frames \ {f} : Holders(g)' = Holders(g)
  <2>1. \A r \in Procs \ {p} : th'[r] = th[r]
    BY <1>4 DEF IInv, TypeOK, Threads
  <2>2. \A g : Holders(g)' = Holders(g) \ {p}
    BY <1>7, <2>1, ThreadMoved DEF IInv
  <2>3. \A g : p \in Holders(g) <=> g = f
    BY <1>1 DEF Holders
  <2> QED BY <2>2, <2>3
<1>10. \A g : Mappings(g)' = Mappings(g)
  BY <1>3 DEF Mappings
<1>11. mem_rc'[f] = Cardinality(Mappings(f)') + Cardinality(Holders(f)')
  <2>1. IsFiniteSet(Mappings(f)) /\ IsFiniteSet(Holders(f))
    BY RefsFinite
  <2>2. Cardinality(Holders(f) \ {p}) = Cardinality(Holders(f)) - 1
    BY <1>9, <2>1, FS_RemoveElement
  <2>3. mem_rc[f] = Cardinality(Mappings(f)) + Cardinality(Holders(f))
    BY DEF IInv, RcExact
  <2>4. Cardinality(Mappings(f)) \in Nat /\ Cardinality(Holders(f)) \in Nat
    BY <2>1, FS_CardinalityType
  <2> QED BY <1>9, <1>10, <2>2, <2>3, <2>4
<1>12. WritableOne'
  <2> SUFFICES ASSUME NEW r \in Procs, NEW w \in VPages, pt[r][w].w
               PROVE  Valid(pt[r][w]) /\ mem_rc'[pt[r][w].pa] = 1
    BY <1>3 DEF WritableOne, Valid
  <2>1. Valid(pt[r][w]) /\ mem_rc[pt[r][w].pa] = 1 /\ pt[r][w].pa \in Frames
    BY DEF IInv, WritableOne, TypeOK, PteType, Valid
  <2>2. ASSUME pt[r][w].pa = f PROVE FALSE
    <3>1. <<r, w>> \in Mappings(f) /\ mem_rc[f] = 1
      BY <2>1, <2>2, MappingsDef
    <3> QED BY <1>9, <3>1, SoleReference DEF IInv
  <2> QED BY <2>1, <2>2
<1>13. SameAddress'
  BY <1>3 DEF IInv, SameAddress, Valid
<1>14. /\ \A q \in Procs \ {p, th[p].tgt} : pt'[q] = pt[q]
       /\ \A g \in Frames \ {f} : mem_rc'[g] = mem_rc[g] /\ Mappings(g)' = Mappings(g)
                                 /\ Holders(g)' = Holders(g)
       /\ \A r \in Threads \ {p} : OwnFrame(r, f) => mem_rc'[f] = mem_rc[f]
  BY <1>1, <1>3, <1>9, <1>10, FreedIsMine
<1>15. \A q \in Procs \cap {p, th[p].tgt} : Extent(q)'
  <2>1. \A q \in Procs : st[q] = "embryo" => Extent(q)'
    BY DEF Extent
  <2> QED BY <1>4, <1>8, <2>1
<1>16. t.tgt \in {NoProc, th[p].tgt} \/ \A r \in Threads \ {p} : th[r].tgt # t.tgt
  BY <1>1, <1>4, NobodysTarget
<1>17. /\ mem' \in [Frames -> Data \cup {JunkFree, JunkAlloc}]
       /\ pt' \in [Procs -> [VPages -> PteType]]
  BY <1>3 DEF IInv, TypeOK
<1> QED BY <1>1, <1>4, <1>7, <1>11, <1>12, <1>13, <1>14, <1>15, <1>16, <1>17, CountedStep

(* Both critical sections of kfree give up one reference to the page.      *)
LEMMA KfreeSharedStep ==
  ASSUME IInv, NEW p \in Threads, KfreeShared(p)
  PROVE  IInv'
<1>1. /\ Kfrees(p) /\ KfreeReturns(p)
      /\ UNCHANGED <<mem, sz, st, parent, panicked>>
  BY DEF KfreeShared
<1>2. PICK f \in Frames : f = KfreePa(p)
  BY <1>1, FreedIsReferenced
<1>3. mem_rc[f] \in 1..RcMax
  BY <1>1, <1>2, FreedIsReferenced
<1>4. mem_rc[f] > 1 /\ mem_rc' = [mem_rc EXCEPT ![f] = mem_rc[f] - 1] /\ freelist' = freelist
  BY <1>2 DEF KfreeShared, DropShared, Shared
<1>5. /\ mem_rc' \in [Frames -> 0..RcMax] /\ mem_rc'[f] = mem_rc[f] - 1
      /\ \A g \in Frames \ {f} : mem_rc'[g] = mem_rc[g]
      /\ freelist' \in Seq(Frames)
  BY <1>3, <1>4 DEF IInv, TypeOK
<1>6. FreelistExact'
  <2>1. \A g \in Frames : mem_rc'[g] = 0 <=> mem_rc[g] = 0
    BY <1>3, <1>4, <1>5
  <2> QED BY <1>4, <2>1 DEF IInv, FreelistExact
<1>7. CASE th[p].kret = "unmap"
  BY <1>1, <1>2, <1>5, <1>6, <1>7, KfreeToUnmapStep
<1>8. CASE th[p].kret \in {"uvmcopy", "uvmalloc"} /\ p \in Procs
  BY <1>1, <1>2, <1>5, <1>6, <1>8, KfreeToErrorStep
<1> QED BY <1>1, <1>7, <1>8, FreedIsReferenced

LEMMA KfreePushStep ==
  ASSUME IInv, NEW p \in Threads, KfreePush(p)
  PROVE  IInv'
<1>1. /\ th[p].pc = "kfree_push" /\ KfreeReturns(p)
      /\ UNCHANGED <<mem, sz, st, parent, panicked>>
  BY DEF KfreePush
<1>2. PICK f \in Frames : f = KfreePa(p)
  BY <1>1, FreedIsReferenced
<1>3. mem_rc[f] = 1
  BY <1>1, <1>2 DEF OwnFrame, IInv, ThreadOK, OwnOK
<1>4. PushFrame(f)
  BY <1>2 DEF KfreePush
<1>5. /\ freelist' \in Seq(Frames) /\ FreelistExact'
      /\ mem_rc' \in [Frames -> 0..RcMax] /\ mem_rc'[f] = mem_rc[f] - 1
      /\ \A g \in Frames \ {f} : mem_rc'[g] = mem_rc[g]
  BY <1>3, <1>4, Pushed
<1>6. CASE th[p].kret = "unmap"
  BY <1>1, <1>2, <1>5, <1>6, KfreeToUnmapStep
<1>7. CASE th[p].kret \in {"uvmcopy", "uvmalloc"} /\ p \in Procs
  BY <1>1, <1>2, <1>5, <1>7, KfreeToErrorStep
<1> QED BY <1>1, <1>6, <1>7, FreedIsReferenced

-----------------------------------------------------------------------------
(* The invariant holds after boot, and every step keeps it.                *)

LEMMA IInvInit == Init => IInv
<1> SUFFICES ASSUME Init PROVE IInv
  OBVIOUS
<1> DEFINE N == Cardinality(Frames)
<1>1. PICK p \in Procs, page \in Bijection(1..N, Frames) :
        /\ freelist = SubSeq(page, InitSz + 1, Len(page))
        /\ mem_rc = [f \in Frames |-> IF \E i \in 1..InitSz : page[i] = f THEN 1 ELSE 0]
        /\ mem = [f \in Frames |-> IF mem_rc[f] = 1 THEN Zero ELSE JunkFree]
        /\ pt = [q \in Procs |-> [v \in VPages |->
                   IF q = p /\ v < InitSz
                   THEN [FreshPte(page[v + 1]) EXCEPT !.u = v \notin GuardPages]
                   ELSE NoPte]]
        /\ sz = [q \in Procs |-> IF q = p THEN InitSz ELSE 0]
        /\ st = [q \in Procs |-> IF q = p THEN "live" ELSE "unused"]
        /\ parent = [q \in Procs |-> InitProc]
        /\ th = [q \in Threads |-> User]
        /\ panicked = "no"
  BY DEF Init
<1>2. N \in Nat /\ InitSz \in 0..MaxSz /\ InitSz <= N /\ MaxSz \in Nat
  BY FS_CardinalityType
<1> HIDE DEF N
<1>3. /\ page \in [1..N -> Frames]
      /\ \A i, j \in 1..N : page[i] = page[j] => i = j
      /\ \A f \in Frames : \E i \in 1..N : page[i] = f
  BY <1>1 DEF Bijection, Injection, Surjection, IsInjective
<1>4. page \in Seq(Frames) /\ Len(page) = N
  BY <1>2, <1>3
<1>5. /\ freelist \in Seq(Frames)
      /\ DOMAIN freelist = 1..(N - InitSz)
      /\ \A i \in 1..(N - InitSz) : freelist[i] = page[InitSz + i]
  BY SMTT(30), <1>1, <1>2, <1>4
<1>6. \A f \in Frames : mem_rc[f] = IF \E i \in 1..InitSz : page[i] = f THEN 1 ELSE 0
  BY <1>1
<1>7. mem_rc \in [Frames -> 0..RcMax]
  BY <1>1
<1>8. FreelistExact
  <2>1. ASSUME NEW i \in DOMAIN freelist, NEW j \in DOMAIN freelist, freelist[i] = freelist[j]
        PROVE  i = j
    BY <1>2, <1>3, <1>5, <2>1
  <2>2. ASSUME NEW f \in Frames
        PROVE  (\E i \in DOMAIN freelist : freelist[i] = f) <=> mem_rc[f] = 0
    <3>1. PICK k \in 1..N : page[k] = f
      BY <1>3
    <3>2. mem_rc[f] = 0 <=> ~(k <= InitSz)
      BY <1>2, <1>3, <1>6, <3>1
    <3>3. (\E i \in DOMAIN freelist : freelist[i] = f) <=> ~(k <= InitSz)
      <4>1. ASSUME NEW i \in DOMAIN freelist, freelist[i] = f PROVE ~(k <= InitSz)
        BY <1>2, <1>3, <1>5, <3>1, <4>1
      <4>2. ASSUME ~(k <= InitSz) PROVE \E i \in DOMAIN freelist : freelist[i] = f
        <5>1. k - InitSz \in 1..(N - InitSz) /\ InitSz + (k - InitSz) = k
          BY <1>2, <4>2
        <5> QED BY <1>5, <3>1, <5>1
      <4> QED BY <4>1, <4>2
    <3> QED BY <3>2, <3>3
  <2> QED BY <2>1, <2>2 DEF FreelistExact
<1>9. ASSUME NEW q \in Procs, NEW v \in VPages
      PROVE  /\ pt[q][v] \in PteType
             /\ IF q = p /\ v < InitSz THEN v + 1 \in 1..N /\ pt[q][v].pa = page[v + 1]
                                       ELSE pt[q][v] = NoPte
  <2>1. pt[q][v] = IF q = p /\ v < InitSz
                   THEN [FreshPte(page[v + 1]) EXCEPT !.u = v \notin GuardPages]
                   ELSE NoPte
    BY <1>1
  <2>2. CASE q = p /\ v < InitSz
    <3>1. v + 1 \in 1..N /\ page[v + 1] \in Frames
      BY <1>2, <1>3, <2>2 DEF VPages
    <3>2. PICK f \in Frames : f = page[v + 1]
      BY <3>1
    <3>3. \A b \in BOOLEAN : /\ [FreshPte(f) EXCEPT !.u = b] \in PteType
                             /\ [FreshPte(f) EXCEPT !.u = b].pa = f
      BY DEF FreshPte, PteType
    <3>4. pt[q][v] = [FreshPte(f) EXCEPT !.u = v \notin GuardPages] /\ (v \notin GuardPages) \in BOOLEAN
      BY <2>1, <2>2, <3>2
    <3>5. pt[q][v] \in PteType /\ pt[q][v].pa = f
      BY <3>3, <3>4
    <3> QED BY <2>2, <3>1, <3>2, <3>5
  <2>3. CASE ~(q = p /\ v < InitSz)
    BY <2>1, <2>3, ClearPte
  <2> QED BY <2>2, <2>3
<1>10. TypeOK
  <2>1. pt \in [Procs -> [VPages -> PteType]]
    <3>1. pt = [q \in Procs |-> [v \in VPages |-> pt[q][v]]]
      BY <1>1
    <3> QED BY <1>9, <3>1
  <2>2. mem \in [Frames -> Data \cup {JunkFree, JunkAlloc}]
    BY <1>1, DataAssumption
  <2>3. /\ sz \in [Procs -> 0..MaxSz]
        /\ st \in [Procs -> {"unused", "embryo", "live", "zombie"}]
        /\ parent \in [Procs -> Threads]
    BY <1>1, <1>2 DEF Threads
  <2>4. th \in [Threads -> Locals]
    BY <1>1, UserType
  <2> QED BY <1>1, <1>5, <1>7, <2>1, <2>2, <2>3, <2>4 DEF TypeOK
<1>11. \A q \in Threads : /\ th[q].pc = "user" /\ th[q].ret = "none" /\ th[q].kret = "none"
                          /\ th[q].tgt = NoProc
  BY <1>1 DEF User
<1>12. \A f : Holders(f) = {}
  BY <1>11 DEF Holders, InHand, Threads
<1>13. ASSUME NEW f \in Frames, NEW k \in 1..N, page[k] = f
       PROVE  Mappings(f) = IF k <= InitSz THEN {<<p, k - 1>>} ELSE {}
  <2>1. ASSUME NEW q \in Procs, NEW v \in VPages
        PROVE  pt[q][v].pa = f <=> q = p /\ k <= InitSz /\ v = k - 1
    <3>1. CASE q = p /\ v < InitSz
      BY <1>2, <1>3, <1>9, <1>13, <3>1 DEF VPages
    <3>2. CASE ~(q = p /\ v < InitSz)
      BY <1>2, <1>9, <3>2, ClearPte DEF VPages
    <3> QED BY <3>1, <3>2
  <2>2. k <= InitSz => k - 1 \in VPages
    BY <1>2 DEF VPages
  <2> QED BY <2>1, <2>2 DEF Mappings
<1>14. RcExact
  <2> SUFFICES ASSUME NEW f \in Frames
               PROVE  mem_rc[f] = Cardinality(Mappings(f)) + Cardinality(Holders(f))
    BY DEF RcExact
  <2>1. PICK k \in 1..N : page[k] = f
    BY <1>3
  <2>2. Cardinality(Holders(f)) = 0
    BY <1>12, FS_EmptySet
  <2>3. CASE k <= InitSz
    <3>1. mem_rc[f] = 1
      BY <1>2, <1>6, <2>1, <2>3
    <3>2. Cardinality(Mappings(f)) = 1
      BY <1>13, <2>1, <2>3, FS_Singleton
    <3> QED BY <2>2, <3>1, <3>2
  <2>4. CASE ~(k <= InitSz)
    <3>1. mem_rc[f] = 0
      BY <1>2, <1>3, <1>6, <2>1, <2>4
    <3>2. Cardinality(Mappings(f)) = 0
      BY <1>13, <2>1, <2>4, FS_EmptySet
    <3> QED BY <2>2, <3>1, <3>2
  <2> QED BY <2>3, <2>4
<1>15. ASSUME NEW q \in Procs, NEW v \in VPages, Valid(pt[q][v])
       PROVE  q = p /\ v < InitSz /\ v + 1 \in 1..N /\ pt[q][v].pa = page[v + 1]
  BY <1>9, <1>15, ClearPte DEF Valid
<1>16. WritableOne
  <2> SUFFICES ASSUME NEW q \in Procs, NEW v \in VPages, pt[q][v].w
               PROVE  Valid(pt[q][v]) /\ mem_rc[pt[q][v].pa] = 1
    BY DEF WritableOne, Valid
  <2>1. q = p /\ v < InitSz
    <3>1. pt[q][v] # NoPte
      BY ClearPte
    <3> QED BY <1>9, <3>1
  <2>2. v + 1 \in 1..InitSz /\ pt[q][v].pa = page[v + 1] /\ page[v + 1] \in Frames
    BY <1>2, <1>3, <1>9, <2>1 DEF VPages
  <2>3. mem_rc[page[v + 1]] = 1
    BY <1>6, <2>2
  <2> QED BY <2>2, <2>3 DEF Valid
<1>17. SameAddress
  <2> SUFFICES ASSUME NEW q \in Procs, NEW r \in Procs, NEW v \in VPages, NEW w \in VPages,
                      Valid(pt[q][v]), pt[q][v].pa = pt[r][w].pa
               PROVE  v = w
    BY DEF SameAddress, Valid
  <2>1. v + 1 \in 1..N /\ w + 1 \in 1..N /\ page[v + 1] = page[w + 1]
    BY <1>15 DEF Valid
  <2> QED BY <1>3, <2>1 DEF VPages
<1>18. TargetsDiffer
  BY <1>11 DEF TargetsDiffer
<1>19. \A q \in Threads : ThreadOK(q)
  BY <1>11 DEF ThreadOK, Alive, ShapeOK, CowOK, CopyOK, CopyFailOK, GrowOK, UnmapOK, OwnOK,
     OwnFrame, Freeing, Unmapper, QuietPcs
<1>20. \A q \in Procs : Extent(q)
  <2> SUFFICES ASSUME NEW q \in Procs PROVE Extent(q)
    OBVIOUS
  <2>1. sz[q] = (IF q = p THEN InitSz ELSE 0) /\ st[q] = IF q = p THEN "live" ELSE "unused"
    BY <1>1
  <2> QED BY <1>2, <1>15, <2>1 DEF Extent, NoPages, VPages
<1>21. CountsNeverPanic
  BY <1>1 DEF CountsNeverPanic
<1> QED BY <1>8, <1>10, <1>14, <1>16, <1>17, <1>18, <1>19, <1>20, <1>21 DEF IInv

LEMMA IInvNext == IInv /\ [Next]_vars => IInv'
<1> SUFFICES ASSUME IInv, [Next]_vars PROVE IInv'
  OBVIOUS
<1>1. CASE UNCHANGED vars
  BY <1>1, StutterStep
<1>2. ASSUME NEW p \in Procs, ProcStep(p) PROVE IInv'
  <2>1. ASSUME NEW v \in VPages, NEW d \in Data, Store(p, v, d) PROVE IInv'
    BY <2>1, StoreStep
  <2>2. ASSUME NEW v \in VPages, StoreFault(p, v) PROVE IInv'
    BY <2>2, EnterCowStep
  <2>3. ASSUME NEW v \in OutPages, Copyout(p, v) PROVE IInv'
    <3>1. v \in VPages
      BY DEF VPages
    <3> QED BY <2>3, <3>1, EnterCowStep
  <2>4. ASSUME NEW d \in Data, CopyoutWrite(p, d) PROVE IInv'
    BY <2>4, CopyoutWriteStep
  <2>5. ASSUME CowStep(p) PROVE IInv'
    BY <2>5, CowRefuseStep, CowInPlaceStep, CowLetGoStep, CowNoMemoryStep, CowAllocStep,
       CowCopyStep DEF CowStep
  <2>6. ASSUME ForkStep(p) PROVE IInv'
    <3>1. ASSUME ForkFailed(p) PROVE IInv'
      BY <3>1, FreeProcStep DEF ForkFailed, Threads
    <3> QED BY <2>6, <3>1, ForkBeginsStep, UvmcopyPanicStep, UvmcopyPageStep, UvmcopyFailStep,
            ForkDoneStep DEF ForkStep
  <2>7. ASSUME Exit(p) PROVE IInv'
    BY <2>7, ExitStep
  <2>8. ASSUME SbrkStep(p) PROVE IInv'
    BY <2>8, GrowStep, ShrinkStep, UvmallocPageStep, UvmallocFailStep, UvmallocNoMemoryStep,
       GrowDoneStep, ShrinkDoneStep, GrowFailedStep DEF SbrkStep
  <2> QED BY <1>2, <2>1, <2>2, <2>3, <2>4, <2>5, <2>6, <2>7, <2>8 DEF ProcStep
<1>3. ASSUME NEW p \in Threads, UnmapStep(p) PROVE IInv'
  BY <1>3, UnmapSkipStep, KfreeSharedStep, KfreeLastStep, KfreePushStep DEF UnmapStep
<1>4. ASSUME NEW p \in Threads, WaitStep(p) PROVE IInv'
  <2>1. ASSUME Waited(p) PROVE IInv'
    BY <2>1, FreeProcStep DEF Waited
  <2> QED BY <1>4, <2>1, WaitBeginsStep DEF WaitStep
<1> QED BY <1>1, <1>2, <1>3, <1>4 DEF Next

-----------------------------------------------------------------------------
(* The inductive invariant holds in every reachable state.                 *)
THEOREM Invariance == Spec => []IInv
BY IInvInit, IInvNext, PTL DEF Spec

(* The counts, the free list and the page tables agree at every point of   *)
(* fork, cow, sbrk, exit and wait: no page is lost, and none is freed      *)
(* while somebody refers to it.                                            *)
THEOREM CountsAgree == Spec => []CowInv
<1>1. IInv => CowInv
  BY DEF IInv, CowInv
<1> QED BY <1>1, Invariance, PTL

(* The PTE a process may store through is the only reference to its page:  *)
(* cow() and uvmcopy() never leave a shared page writable.                 *)
THEOREM WritablePagesArePrivate == Spec => []WritableIsPrivate
<1>1. IInv => WritableIsPrivate
  <2> SUFFICES ASSUME IInv, NEW q \in Procs, NEW v \in VPages, pt[q][v].w
               PROVE  Mappings(pt[q][v].pa) = {<<q, v>>} /\ Holders(pt[q][v].pa) = {}
    BY DEF WritableIsPrivate
  <2>1. PICK f \in Frames : f = pt[q][v].pa
    BY DEF IInv, WritableOne, TypeOK, PteType, Valid
  <2>2. mem_rc[f] = 1 /\ <<q, v>> \in Mappings(f)
    BY <2>1, MappingsDef DEF IInv, WritableOne
  <2> QED BY <2>1, <2>2, SoleReference DEF IInv
<1> QED BY <1>1, Invariance, PTL

(* Neither kfree nor cow() nor freewalk nor mappages finds what it panics  *)
(* about.                                                                  *)
THEOREM NoPanicAboutCounts == Spec => []CountsNeverPanic
<1>1. IInv => CountsNeverPanic
  BY DEF IInv
<1> QED BY <1>1, Invariance, PTL

-----------------------------------------------------------------------------
(* Without copyout cow() is called by usertrap() only.                     *)
PlaceOK(p) ==
  /\ th[p].pc = "user" => th[p] = User
  /\ th[p].pc # "copyout" /\ th[p].caller # "copyout"
  /\ th[p].caller = "fault" <=> th[p].pc \in {"cow", "cow_copy"} \/ th[p].ret = "cow"
  /\ th[p].pc = "cow" => th[p].pa = NoFrame

(* The pages of a process are there, but for one that cow() has let go.    *)
PresentOK(q) ==
  st[q] = "live" /\ th[q].pc # "killed" =>
    \A v \in VPages : v < Size(q) => Valid(pt[q][v]) \/ LetGo(q, v)

(* The child of fork() has the pages of its parent ...                     *)
ChildOK(p) ==
  th[p].pc = "uvmcopy" =>
    \A v \in VPages : v < th[p].v => pt[th[p].tgt][v].pa = pt[p][v].pa

(* ... and sbrk() adds pages of zeros.                                     *)
ZeroOK(p) ==
  th[p].pc = "uvmalloc" =>
    \A v \in VPages :
      sz[p] <= v /\ v < th[p].v => Valid(pt[p][v]) /\ mem[pt[p][v].pa] = Zero

Knows(p) ==
  PlaceOK(p) /\ (p \in Procs => PresentOK(p) /\ ChildOK(p) /\ ZeroOK(p))

Presence == \A p \in Threads : Knows(p)

(* On one hart nobody else gives up a page between the test of its count   *)
(* in cow() and the copy, so the old page is still somebody's.             *)
LetGoOK(p) ==
  th[p].ret = "cow" =>
    /\ th[p].pc = "unmap"
    /\ IF th[p].v = th[p].lo THEN mem_rc[th[p].pa] > 1 /\ pt[p][th[p].lo].pa = th[p].pa
                             ELSE mem_rc[th[p].pa] > 0

OldPageKept == \A p \in Procs : LetGoOK(p)

-----------------------------------------------------------------------------
(* What a step of p leaves alone: the other threads, and the processes     *)
(* that p does not work for, with what their pages hold.                   *)

ProcessKept(q) ==
  /\ pt'[q] = pt[q] /\ sz'[q] = sz[q] /\ st'[q] = st[q]
  /\ \A v \in VPages : Valid(pt[q][v]) => mem'[pt[q][v].pa] = mem[pt[q][v].pa]

Touches(p, D) ==
  /\ \A r \in Threads \ {p} : th'[r] = th[r]
  /\ \A q \in Procs \ (D \cup {p}) : ProcessKept(q)

(* The others keep what they know.                                         *)
LEMMA OthersKnow ==
  ASSUME IInv, Presence, NEW p \in Threads, NEW D \in SUBSET Procs, Touches(p, D),
         \A r \in Threads \ {p} :
           th[r].pc # "user" => {r, th[r].tgt} \cap (D \cup {p}) \cap Procs = {},
         Knows(p)', \A q \in D \ {p} : PresentOK(q)'
  PROVE  Presence'
<1> SUFFICES ASSUME NEW r \in Threads \ {p} PROVE Knows(r)'
  BY DEF Presence
<1>1. th'[r] = th[r] /\ Knows(r)
  BY DEF Touches, Presence
<1>2. PlaceOK(r)'
  BY <1>1 DEF Knows, PlaceOK
<1>3. ASSUME r \in Procs PROVE PresentOK(r)'
  <2>1. CASE r \in D
    BY <2>1
  <2>2. CASE r \notin D
    <3>1. pt'[r] = pt[r] /\ sz'[r] = sz[r] /\ st'[r] = st[r]
      BY <1>3, <2>2 DEF Touches, ProcessKept
    <3> QED BY <1>1, <1>3, <3>1 DEF Knows, PresentOK, Size, Shrinking, LetGo
  <2> QED BY <2>1, <2>2
<1>4. ASSUME r \in Procs, th[r].pc # "user" PROVE ProcessKept(r)
  BY <1>4 DEF Touches
<1>5. ASSUME r \in Procs PROVE ChildOK(r)' /\ ZeroOK(r)'
  <2>1. CASE th[r].pc = "uvmcopy"
    <3>1. th[r].tgt \in Procs
      BY <2>1 DEF IInv, ThreadOK, CopyOK
    <3>2. ProcessKept(r) /\ ProcessKept(th[r].tgt)
      BY <1>5, <2>1, <3>1 DEF Touches
    <3>3. pt'[r] = pt[r] /\ pt'[th[r].tgt] = pt[th[r].tgt]
      BY <3>2 DEF ProcessKept
    <3>4. \A v \in VPages : v < th[r].v => pt[th[r].tgt][v].pa = pt[r][v].pa
      BY <1>1, <1>5, <2>1 DEF Knows, ChildOK
    <3> QED BY <1>1, <2>1, <3>3, <3>4 DEF ChildOK, ZeroOK
  <2>2. CASE th[r].pc = "uvmalloc"
    <3>1. pt'[r] = pt[r] /\ sz'[r] = sz[r]
      BY <1>4, <1>5, <2>2 DEF ProcessKept
    <3>2. \A v \in VPages : Valid(pt[r][v]) => mem'[pt[r][v].pa] = mem[pt[r][v].pa]
      BY <1>4, <1>5, <2>2 DEF ProcessKept
    <3>3. \A v \in VPages : sz[r] <= v /\ v < th[r].v => Valid(pt[r][v]) /\ mem[pt[r][v].pa] = Zero
      BY <1>1, <1>5, <2>2 DEF Knows, ZeroOK
    <3> QED BY <1>1, <2>2, <3>1, <3>2, <3>3 DEF ChildOK, ZeroOK
  <2>3. CASE th[r].pc \notin {"uvmcopy", "uvmalloc"}
    BY <1>1, <2>3 DEF ChildOK, ZeroOK
  <2> QED BY <2>1, <2>2, <2>3
<1> QED BY <1>2, <1>3, <1>5 DEF Knows

(* A thread that works for its own process, or for its target, works for   *)
(* nobody else's.                                                          *)
LEMMA Knowing ==
  ASSUME IInv, Presence, NEW p \in Threads, p \in Procs => st[p] = "live",
         Touches(p, {th[p].tgt} \cap Procs), Knows(p)',
         \A c \in Procs \ {p} : th[p].tgt = c => PresentOK(c)'
  PROVE  Presence'
<1> DEFINE D == {th[p].tgt} \cap Procs
<1>1. ASSUME NEW r \in Threads \ {p}, th[r].pc # "user"
      PROVE  {r, th[r].tgt} \cap (D \cup {p}) \cap Procs = {}
  <2>1. {r, th[r].tgt} \cap {p, th[p].tgt} \cap Procs = {}
    BY <1>1, Disjoint
  <2> QED BY <2>1
<1>2. \A q \in D \ {p} : PresentOK(q)'
  OBVIOUS
<1>3. Touches(p, D) /\ D \in SUBSET Procs
  OBVIOUS
<1> HIDE DEF D
<1> QED BY <1>1, <1>2, <1>3, OthersKnow

-----------------------------------------------------------------------------
(* Steps that only move a thread along.                                    *)

LEMMA Along ==
  ASSUME IInv, NEW p \in Threads, NEW t, th' = [th EXCEPT ![p] = t],
         UNCHANGED <<mem, pt, sz, st>>, NEW D
  PROVE  Touches(p, D) /\ th'[p] = t
BY DEF IInv, TypeOK, Touches, ProcessKept

(* The locals of a thread at rest.                                         *)
LEMMA UserFields ==
  /\ User.pc = "user" /\ User.ret = "none" /\ User.kret = "none" /\ User.caller = "none"
  /\ User.pa = NoFrame /\ User.tgt = NoProc /\ User.v = 0 /\ User.lo = 0 /\ User.end = 0
BY DEF User

LEMMA AtRest ==
  ASSUME IInv, Presence, NEW p \in Procs, InUser(p)
  PROVE  /\ p \in Threads /\ st[p] = "live" /\ th[p] = User /\ Size(p) = sz[p]
         /\ \A v \in VPages : Valid(pt[p][v]) <=> v < sz[p]
<1>1. p \in Threads /\ st[p] = "live" /\ th[p].pc = "user"
  BY DEF InUser, Threads
<1>2. th[p] = User /\ PresentOK(p)
  BY <1>1 DEF Presence, Knows, PlaceOK
<1>3. Size(p) = sz[p] /\ \A v : ~LetGo(p, v)
  BY <1>2, UserFields DEF Size, Shrinking, LetGo
<1>4. NoPages(p, sz[p], MaxSz)
  BY <1>1, UserIsResting DEF IInv, Extent
<1>5. sz[p] \in 0..MaxSz
  BY DEF IInv, TypeOK
<1> QED BY <1>1, <1>2, <1>3, <1>4, <1>5 DEF PresentOK, NoPages, VPages

LEMMA StoreFaultKnows ==
  ASSUME IInv, Presence, NEW p \in Procs, NEW v \in VPages, StoreFault(p, v)
  PROVE  /\ Touches(p, {th[p].tgt} \cap Procs) /\ Presence'
         /\ UNCHANGED <<mem, pt, sz, st>> /\ th'[p].pc = "cow" /\ th'[p].ret = "none"
<1>1. PICK t : t = [User EXCEPT !.pc = "cow", !.caller = "fault", !.lo = v]
  OBVIOUS
<1>2. /\ t.pc = "cow" /\ t.caller = "fault" /\ t.ret = "none" /\ t.pa = NoFrame
  BY <1>1 DEF User
<1>3. InUser(p) /\ th' = [th EXCEPT ![p] = t] /\ UNCHANGED <<mem, pt, sz, st>>
  BY <1>1 DEF StoreFault, GoTo
<1>4. p \in Threads /\ st[p] = "live" /\ th[p].tgt = NoProc
  BY <1>3, AtRest, UserFields
<1>5. Touches(p, {th[p].tgt} \cap Procs) /\ th'[p] = t
  BY <1>3, <1>4, Along
<1>6. PresentOK(p)'
  BY <1>2, <1>3, <1>5, AtRest DEF PresentOK, Size, Shrinking
<1>7. PlaceOK(p)' /\ ChildOK(p)' /\ ZeroOK(p)'
  BY <1>2, <1>5 DEF PlaceOK, ChildOK, ZeroOK
<1>8. Presence'
  BY <1>4, <1>5, <1>6, <1>7, Knowing DEF Knows
<1> QED BY <1>2, <1>3, <1>5, <1>8

(* A thread that goes back to user mode with all its pages.                *)
LEMMA ToUser ==
  ASSUME NEW p \in Procs, th'[p] = User,
         \A v \in VPages : v < sz'[p] => Valid(pt'[p][v])
  PROVE  Knows(p)'
BY UserFields DEF Knows, PlaceOK, PresentOK, ChildOK, ZeroOK, Size, Shrinking, Valid

(* cow() in the fault branch has given up: usertrap() kills the process.   *)
LEMMA Returns0 ==
  ASSUME IInv, Presence, NEW p \in Procs, th[p].caller = "fault", CowReturns0(p),
         UNCHANGED <<mem, pt, sz, st>>, st[p] = "live", th[p].tgt \in {NoProc, p}
  PROVE  /\ Touches(p, {th[p].tgt} \cap Procs) /\ Presence'
         /\ th'[p].pc = "killed" /\ th'[p].ret = "none"
<1>1. PICK t : t = [User EXCEPT !.pc = "killed"]
  OBVIOUS
<1>2. t.pc = "killed" /\ t.caller = "none" /\ t.ret = "none"
  BY <1>1 DEF User
<1>3. th' = [th EXCEPT ![p] = t] /\ p \in Threads
  BY <1>1 DEF CowReturns0, GoTo, Threads
<1>4. Touches(p, {th[p].tgt} \cap Procs) /\ th'[p] = t
  BY <1>3, Along
<1>5. Knows(p)'
  BY <1>2, <1>4 DEF Knows, PlaceOK, PresentOK, ChildOK, ZeroOK
<1> QED BY <1>2, <1>3, <1>4, <1>5, Knowing

-----------------------------------------------------------------------------
(* cow(), called by usertrap().                                            *)

LEMMA AtCow ==
  ASSUME IInv, Presence, NEW p \in Procs, th[p].pc = "cow"
  PROVE  /\ p \in Threads /\ st[p] = "live" /\ th[p].lo \in VPages
         /\ th[p].caller = "fault" /\ th[p].pa = NoFrame
         /\ th[p].ret = "none" /\ th[p].tgt = NoProc /\ Size(p) = sz[p]
         /\ \A v \in VPages : v < sz[p] => Valid(pt[p][v])
<1>1. p \in Threads /\ ThreadOK(p) /\ Knows(p)
  BY DEF Threads, IInv, Presence
<1>2. /\ st[p] = "live" /\ th[p].lo \in VPages /\ th[p].caller = "fault" /\ th[p].pa = NoFrame
      /\ th[p].ret = "none" /\ th[p].tgt = NoProc
  BY <1>1 DEF ThreadOK, Alive, CowOK, ShapeOK, QuietPcs, Knows, PlaceOK
<1>3. Size(p) = sz[p] /\ \A v : ~LetGo(p, v)
  BY <1>2 DEF Size, Shrinking, LetGo
<1> QED BY <1>1, <1>2, <1>3 DEF Knows, PresentOK

(* cow() is only interested in a page that somebody counts.                *)
LEMMA CowPage ==
  ASSUME IInv, Presence, NEW p \in Procs, th[p].pc = "cow", IsCowPage(p)
  PROVE  /\ FaultPte(p) = pt[p][th[p].lo] /\ FaultPte(p) \in PteType
         /\ FaultPte(p).pa \in Frames
         /\ mem_rc[FaultPte(p).pa] \in 1..RcMax
         /\ ReadRc(FaultPte(p).pa) = mem_rc[FaultPte(p).pa]
         /\ th[p].lo < sz[p]
<1>1. th[p].lo \in VPages /\ st[p] = "live" /\ FaultPte(p) = pt[p][th[p].lo] /\ Valid(FaultPte(p))
  BY AtCow DEF FaultPte, IsCowPage
<1>2. FaultPte(p) \in PteType /\ FaultPte(p).pa \in Frames
  BY <1>1 DEF IInv, TypeOK, PteType, Valid
<1>3. mem_rc[FaultPte(p).pa] \in 1..RcMax
  BY <1>1, <1>2, ReferencedIsNotBad DEF IInv
<1>4. ReadRc(FaultPte(p).pa) = mem_rc[FaultPte(p).pa]
  BY <1>3, UnsignedCharFits DEF ReadRc
<1>5. NoPages(p, sz[p], MaxSz)
  BY <1>1, UserIsResting, AtCow DEF IInv, Extent
<1>6. th[p].lo < sz[p]
  <2>1. sz[p] \in 0..MaxSz
    BY DEF IInv, TypeOK
  <2> QED BY <1>1, <1>5, <2>1 DEF NoPages, VPages
<1> QED BY <1>1, <1>2, <1>3, <1>4, <1>6

LEMMA CowRefuseKnows ==
  ASSUME IInv, Presence, NEW p \in Procs, CowRefuse(p)
  PROVE  /\ Touches(p, {th[p].tgt} \cap Procs) /\ Presence'
         /\ th'[p].pc = "killed" /\ th'[p].ret = "none"
<1>1. th[p].pc = "cow" /\ CowReturns0(p) /\ UNCHANGED <<mem, pt, sz, st>>
  BY DEF CowRefuse
<1> QED BY <1>1, AtCow, Returns0

LEMMA CowInPlaceKnows ==
  ASSUME IInv, Presence, NEW p \in Procs, CowInPlace(p)
  PROVE  /\ Touches(p, {th[p].tgt} \cap Procs) /\ Presence' /\ th'[p] = User
         /\ \A v \in VPages : pt'[p][v].pa = pt[p][v].pa
<1>1. /\ th[p].pc = "cow" /\ th' = [th EXCEPT ![p] = User]
      /\ p \in Threads /\ st[p] = "live" /\ th[p].tgt = NoProc
      /\ IsCowPage(p) /\ UNCHANGED <<mem, sz, st>>
  BY AtCow DEF CowInPlace, CowReturns, GoTo
<1>2. PICK v \in VPages : v = th[p].lo
  BY <1>1, AtCow
<1>3. PICK e \in PteType : e = MarkWritable(pt[p][v]) /\ e.pa = pt[p][v].pa
  BY <1>1, <1>2, CowPage, MarkedPte
<1>4. pt' = [pt EXCEPT ![p][v] = e]
  BY <1>2, <1>3 DEF CowInPlace
<1>5. /\ \A r \in Procs, w \in VPages : pt'[r][w].pa = pt[r][w].pa
      /\ \A q \in Procs \ {p} : pt'[q] = pt[q]
  <2>1. \A r \in Procs, w \in VPages : pt'[r][w].pa = pt[r][w].pa
    BY <1>3, <1>4, SamePa DEF IInv
  <2>2. \A q \in Procs \ {p} : pt'[q] = pt[q]
    BY <1>4 DEF IInv, TypeOK
  <2> QED BY <2>1, <2>2
<1>6. Touches(p, {th[p].tgt} \cap Procs) /\ th'[p] = User
  BY <1>1, <1>5 DEF IInv, TypeOK, Touches, ProcessKept
<1>7. Knows(p)'
  <2>1. \A w \in VPages : w < sz'[p] => Valid(pt'[p][w])
    BY <1>1, <1>5, AtCow DEF Valid
  <2> QED BY <1>6, <2>1, ToUser
<1> QED BY <1>1, <1>5, <1>6, <1>7, Knowing

LEMMA CowLetGoKnows ==
  ASSUME IInv, Presence, NEW p \in Procs, CowLetGo(p)
  PROVE  /\ Touches(p, {th[p].tgt} \cap Procs) /\ Presence'
         /\ UNCHANGED <<mem_rc, mem, pt, sz, st>>
         /\ th'[p].pc = "unmap" /\ th'[p].ret = "cow" /\ th'[p].caller = "fault"
         /\ th'[p].v = th[p].lo /\ th'[p].lo = th[p].lo
         /\ th'[p].pa = pt[p][th[p].lo].pa /\ mem_rc[th'[p].pa] > 1
         /\ th[p].lo < sz[p] /\ Valid(pt[p][th[p].lo])
<1>1. th[p].pc = "cow" /\ IsCowPage(p)
  BY DEF CowLetGo
<1>2. PICK a \in Frames : a = FaultPte(p).pa
  BY <1>1, CowPage
<1>3. /\ ReadRc(a) = mem_rc[a] /\ mem_rc[a] \in 1..RcMax
      /\ a = pt[p][th[p].lo].pa /\ th[p].lo < sz[p]
  BY <1>1, <1>2, CowPage
<1>4. mem_rc[a] > 1
  <2>1. ReadRc(a) # 1
    BY <1>2 DEF CowLetGo
  <2> QED BY <1>3, <2>1
<1>5. PICK v \in VPages : v = th[p].lo
  BY <1>1, AtCow
<1>6. PICK t : t = Unmapping([th[p] EXCEPT !.pa = a], p, v, v + 1, "cow")
  OBVIOUS
<1>7. /\ th' = [th EXCEPT ![p] = t] /\ UNCHANGED <<mem_rc, mem, pt, sz, st>>
  <2>1. ~(ReadRc(a) <= 0)
    BY <1>3
  <2> QED BY <1>2, <1>5, <1>6, <2>1 DEF CowLetGo, GoTo
<1>8. /\ t.pc = "unmap" /\ t.ret = "cow" /\ t.caller = "fault"
      /\ t.v = v /\ t.lo = v /\ t.pa = a
  <2>1. p \in Threads /\ th[p] \in Locals /\ th[p].caller = "fault"
    BY <1>1, AtCow DEF IInv, TypeOK
  <2> QED BY <1>6, <2>1 DEF Unmapping, Locals
<1>9. Touches(p, {th[p].tgt} \cap Procs) /\ th'[p] = t
  BY <1>1, <1>7, AtCow, Along
<1>10. Knows(p)'
  <2>1. PlaceOK(p)' /\ ChildOK(p)' /\ ZeroOK(p)'
    BY <1>8, <1>9 DEF PlaceOK, ChildOK, ZeroOK
  <2>2. PresentOK(p)'
    BY <1>1, <1>7, <1>8, <1>9, AtCow DEF PresentOK, Size, Shrinking, Valid
  <2> QED BY <2>1, <2>2 DEF Knows
<1>11. Presence'
  BY <1>1, <1>9, <1>10, AtCow, Knowing
<1>12. Valid(pt[p][th[p].lo])
  BY <1>1 DEF IsCowPage, FaultPte
<1> QED BY <1>3, <1>4, <1>5, <1>7, <1>8, <1>9, <1>11, <1>12

LEMMA Moved ==
  ASSUME IInv, NEW p \in Threads, NEW t, th' = [th EXCEPT ![p] = t]
  PROVE  th'[p] = t /\ \A r \in Threads \ {p} : th'[r] = th[r]
BY DEF IInv, TypeOK

(* A page that a process does not map may be overwritten.                  *)
LEMMA NotMapped ==
  ASSUME IInv, NEW a \in Frames, NEW x, mem' = [mem EXCEPT ![a] = x],
         NEW q \in Procs, \A v \in VPages : pt[q][v].pa # a
  PROVE  \A v \in VPages : Valid(pt[q][v]) => mem'[pt[q][v].pa] = mem[pt[q][v].pa]
BY DEF IInv, TypeOK

(* What a thread works for, beside its own process, is not live.           *)
LEMMA TargetIsNotLive ==
  ASSUME IInv, NEW p \in Threads, NEW c \in Procs \ {p}, th[p].tgt = c
  PROVE  st[c] # "live"
<1>1. ThreadOK(p) /\ th[p] \in Locals /\ c # NoProc
  BY DEF IInv, TypeOK
<1>2. CASE th[p].pc \in QuietPcs
  BY <1>1, <1>2 DEF ThreadOK, ShapeOK
<1>3. CASE th[p].pc = "uvmcopy"
  BY <1>1, <1>3 DEF ThreadOK, CopyOK
<1>4. CASE Freeing(p, "uvmcopy") \/ Freeing(p, "uvmalloc")
  BY <1>1, <1>4 DEF ThreadOK, CopyFailOK, GrowOK
<1>5. CASE Unmapper(p)
  BY <1>1, <1>5 DEF ThreadOK, UnmapOK, RetOK
<1>6. th[p].pc \in Pcs /\ th[p].kret \in {"none", "unmap", "uvmcopy", "uvmalloc"}
  BY <1>1 DEF Locals
<1>7. th[p].pc \in {"kfree", "kfree_push"} => th[p].kret # "none"
  BY <1>1 DEF ThreadOK, ShapeOK
<1> QED BY <1>2, <1>3, <1>4, <1>5, <1>6, <1>7 DEF Pcs, QuietPcs, Unmapper, Freeing

(* A step of p that leaves the other processes alone, and does not make    *)
(* the one it works for live.                                              *)
LEMMA Working ==
  ASSUME IInv, Presence, NEW p \in Threads, p \in Procs => st[p] = "live",
         \A r \in Threads \ {p} : th'[r] = th[r],
         \A q \in Procs \ {p, th[p].tgt} : ProcessKept(q),
         \A c \in Procs \ {p} : th[p].tgt = c => st'[c] # "live",
         Knows(p)'
  PROVE  Touches(p, {th[p].tgt} \cap Procs) /\ Presence'
<1>1. Touches(p, {th[p].tgt} \cap Procs)
  BY DEF Touches
<1>2. \A c \in Procs \ {p} : th[p].tgt = c => PresentOK(c)'
  BY DEF PresentOK
<1> QED BY <1>1, <1>2, Knowing

(* A thread of which nothing is to be known but what it has mapped.        *)
LEMMA KnowsPlain ==
  ASSUME NEW p \in Threads, NEW t, th'[p] = t,
         t.pc \notin {"user", "copyout", "cow", "uvmcopy", "uvmalloc"}, t.caller # "copyout",
         t.caller = "fault" <=> t.pc = "cow_copy" \/ t.ret = "cow",
         p \in Procs => PresentOK(p)'
  PROVE  Knows(p)'
BY DEF Knows, PlaceOK, ChildOK, ZeroOK

-----------------------------------------------------------------------------
(* A user store, and the rest of cow().                                    *)

LEMMA StoreKnows ==
  ASSUME IInv, Presence, NEW p \in Procs, NEW v \in VPages, NEW d, Store(p, v, d)
  PROVE  /\ Touches(p, {th[p].tgt} \cap Procs) /\ Presence'
         /\ pt[p][v].pa \in Frames
         /\ \A w \in VPages \ {v} : pt[p][w].pa # pt[p][v].pa
<1>1. /\ InUser(p) /\ UNCHANGED <<pt, sz, st, th>>
      /\ mem' = [mem EXCEPT ![pt[p][v].pa] = d]
  BY DEF Store
<1>2. /\ p \in Threads /\ st[p] = "live" /\ th[p] = User
      /\ \A w \in VPages : w < sz[p] => Valid(pt[p][w])
  BY <1>1, AtRest
<1>3. PICK a \in Frames : a = pt[p][v].pa
  BY DEF Store, IInv, WritableOne, TypeOK, PteType, Valid
<1>4. \A q \in Procs, w \in VPages : pt[q][w].pa = a => q = p /\ w = v
  <2>1. mem_rc[a] = 1 /\ <<p, v>> \in Mappings(a)
    BY <1>3, MappingsDef DEF Store, IInv, WritableOne
  <2>2. Mappings(a) = {<<p, v>>}
    BY <2>1, SoleReference DEF IInv
  <2>3. ASSUME NEW q \in Procs, NEW w \in VPages, pt[q][w].pa = a
        PROVE  q = p /\ w = v
    <3>1. <<q, w>> \in {<<p, v>>}
      BY <2>2, <2>3, MappingsDef
    <3> QED BY <3>1
  <2> QED BY <2>3
<1>5. \A q \in Procs \ {p} : ProcessKept(q)
  BY <1>1, <1>3, <1>4, NotMapped DEF ProcessKept
<1>6. Knows(p)'
  BY <1>1, <1>2, ToUser
<1>7. th[p].tgt = NoProc /\ \A r \in Threads : th'[r] = th[r]
  BY <1>1, <1>2, UserFields
<1> QED BY <1>2, <1>3, <1>4, <1>5, <1>6, <1>7, Working

(* cow() has unmapped the page, and asks for a new one.                    *)
LEMMA AtCowUnmapped ==
  ASSUME IInv, Presence, NEW p \in Procs, Unmapped(p, "cow")
  PROVE  /\ p \in Threads /\ st[p] = "live" /\ th[p].tgt = p /\ th[p].caller = "fault"
         /\ th[p].lo \in VPages /\ th[p].lo < sz[p] /\ th[p].v # th[p].lo
         /\ th[p].pa \in Frames /\ th[p].pc = "unmap" /\ th[p].ret = "cow"
         /\ ~Valid(pt[p][th[p].lo]) /\ Size(p) = sz[p]
         /\ \A v \in VPages : v < sz[p] => Valid(pt[p][v]) \/ v = th[p].lo
<1>1. /\ p \in Threads /\ th[p].pc = "unmap" /\ th[p].v = th[p].end /\ th[p].ret = "cow"
      /\ Knows(p)
  BY DEF Unmapped, Threads, Presence
<1>2. UnmapOK(p) /\ st[p] = "live"
  BY <1>1, UnmappingThread
<1>3. /\ th[p].tgt = p /\ th[p].pa \in Frames
      /\ th[p].end = th[p].lo + 1 /\ th[p].end <= sz[p]
      /\ NoPages(p, th[p].lo, th[p].v)
  BY <1>1, <1>2 DEF UnmapOK, Unmapper, RetOK
<1>4. th[p].lo \in 0..MaxSz /\ sz[p] \in 0..MaxSz
  BY <1>1 DEF IInv, TypeOK, Locals
<1>5. th[p].lo \in VPages /\ th[p].lo < sz[p] /\ ~Valid(pt[p][th[p].lo]) /\ th[p].v # th[p].lo
  BY <1>1, <1>3, <1>4 DEF NoPages, VPages
<1>6. Size(p) = sz[p] /\ th[p].caller = "fault"
  BY <1>1 DEF Size, Shrinking, Knows, PlaceOK
<1> QED BY <1>1, <1>2, <1>3, <1>5, <1>6 DEF Knows, PresentOK, LetGo

LEMMA CowNoMemoryKnows ==
  ASSUME IInv, Presence, NEW p \in Procs, CowNoMemory(p)
  PROVE  /\ Touches(p, {th[p].tgt} \cap Procs) /\ Presence'
         /\ th'[p].pc = "killed" /\ th'[p].ret = "none"
<1>1. Unmapped(p, "cow") /\ CowReturns0(p) /\ UNCHANGED <<mem, pt, sz, st>>
  BY DEF CowNoMemory
<1> QED BY <1>1, AtCowUnmapped, Returns0

LEMMA CowAllocKnows ==
  ASSUME IInv, Presence, NEW p \in Procs, NEW f \in Frames, CowAlloc(p, f)
  PROVE  /\ Touches(p, {th[p].tgt} \cap Procs) /\ Presence'
         /\ mem_rc[f] = 0 /\ Mappings(f) = {}
         /\ th'[p].pc = "cow_copy" /\ th'[p].ret = "none" /\ th'[p].caller = "fault"
         /\ th'[p].lo = th[p].lo /\ th'[p].pa = th[p].pa
<1>1. /\ Unmapped(p, "cow") /\ PopFrame(f) /\ mem' = [mem EXCEPT ![f] = JunkAlloc]
      /\ UNCHANGED <<pt, sz, st>>
  BY DEF CowAlloc, Fill
<1>2. mem_rc[f] = 0 /\ Mappings(f) = {}
  BY <1>1, Popped
<1>3. PICK t : t = [User EXCEPT !.pc = "cow_copy", !.caller = th[p].caller,
                                !.lo = th[p].lo, !.pa = th[p].pa, !.new = f]
  OBVIOUS
<1>4. th' = [th EXCEPT ![p] = t] /\ p \in Threads
  BY <1>3 DEF CowAlloc, GoTo, Threads
<1>5. /\ t.pc = "cow_copy" /\ t.ret = "none" /\ t.caller = "fault"
      /\ t.lo = th[p].lo /\ t.pa = th[p].pa
  BY <1>1, <1>3, AtCowUnmapped DEF User
<1>6. th'[p] = t /\ \A r \in Threads \ {p} : th'[r] = th[r]
  BY <1>4, Moved
<1>7. \A q \in Procs, v \in VPages : pt[q][v].pa # f
  BY <1>2, MappingsDef
<1>8. \A q \in Procs : ProcessKept(q)
  BY <1>1, <1>7, NotMapped DEF ProcessKept
<1>9. PresentOK(p)'
  BY <1>1, <1>5, <1>6, AtCowUnmapped DEF PresentOK, Size, Shrinking, LetGo, Valid
<1>10. Knows(p)'
  BY <1>4, <1>5, <1>6, <1>9, KnowsPlain
<1>11. st[p] = "live" /\ th[p].tgt = p
  BY <1>1, AtCowUnmapped
<1> QED BY <1>2, <1>4, <1>5, <1>6, <1>8, <1>10, <1>11, Working

(* cow() copies the page and maps the copy.                                *)
LEMMA CowCopyKnows ==
  ASSUME IInv, Presence, NEW p \in Procs, CowCopy(p)
  PROVE  /\ Touches(p, {th[p].tgt} \cap Procs) /\ Presence'
         /\ st[p] = "live" /\ th'[p] = User /\ UNCHANGED <<sz, st>>
         /\ th[p].caller = "fault" /\ th[p].pa \in Frames /\ th[p].ret = "none"
         /\ th[p].lo \in VPages /\ ~Valid(pt[p][th[p].lo])
         /\ \A v \in VPages \ {th[p].lo} :
              pt'[p][v] = pt[p][v] /\ (Valid(pt[p][v]) => mem'[pt[p][v].pa] = mem[pt[p][v].pa])
         /\ Valid(pt'[p][th[p].lo]) /\ mem'[pt'[p][th[p].lo].pa] = mem[th[p].pa]
<1>1. /\ th[p].pc = "cow_copy" /\ p \in Threads /\ CowReturns(p) /\ Knows(p)
      /\ UNCHANGED <<sz, st>>
  BY DEF CowCopy, Threads, Presence
<1>2. /\ th[p].new \in Frames /\ th[p].pa \in Frames /\ th[p].lo \in VPages
      /\ ~Valid(pt[p][th[p].lo])
      /\ st[p] = "live" /\ th[p].ret = "none" /\ th[p].tgt = NoProc /\ th[p].caller = "fault"
  BY <1>1 DEF IInv, ThreadOK, Alive, CowOK, ShapeOK, QuietPcs, Knows, PlaceOK
<1>3. PICK f \in Frames : f = th[p].new
  BY <1>2
<1>4. PICK v \in VPages : v = th[p].lo
  BY <1>2
<1>5. PICK e \in PteType : e.pa = f /\ pt' = [pt EXCEPT ![p][v] = e]
  <2>1. /\ MarkWritable(FreshPte(f)) \in PteType /\ MarkWritable(FreshPte(f)).pa = f
        /\ FreshPte(f) \in PteType /\ FreshPte(f).pa = f
    BY NewPte, MarkedPte
  <2> QED BY <1>3, <1>4, <2>1 DEF CowCopy
<1>6. mem' = [mem EXCEPT ![f] = mem[th[p].pa]] /\ mem'[f] = mem[th[p].pa]
  BY <1>3 DEF CowCopy, IInv, TypeOK
<1>7. \A q \in Procs, w \in VPages : pt[q][w].pa # f
  <2>1. OwnFrame(p, f)
    BY <1>1, <1>3 DEF OwnFrame
  <2> QED BY <1>1, <1>2, <2>1, OwnIsOwn
<1>8. /\ \A q \in Procs \ {p} : pt'[q] = pt[q]
      /\ \A w \in VPages \ {v} : pt'[p][w] = pt[p][w]
      /\ pt'[p][v] = e
  BY <1>5 DEF IInv, TypeOK
<1>9. \A q \in Procs, w \in VPages : Valid(pt[q][w]) => mem'[pt[q][w].pa] = mem[pt[q][w].pa]
  BY <1>6, <1>7, NotMapped
<1>10. \A q \in Procs \ {p} : ProcessKept(q)
  BY <1>1, <1>8, <1>9 DEF ProcessKept
<1>11. th'[p] = User /\ \A r \in Threads \ {p} : th'[r] = th[r]
  <2>1. th' = [th EXCEPT ![p] = User]
    BY <1>1, <1>2 DEF CowReturns, GoTo
  <2> QED BY <1>1, <2>1, Moved
<1>12. Valid(pt'[p][v])
  BY <1>5, <1>8 DEF Valid
<1>13. \A w \in VPages : w < sz'[p] => Valid(pt'[p][w])
  <2>1. Size(p) = sz[p] /\ \A w \in VPages \ {v} : ~LetGo(p, w)
    BY <1>2, <1>4 DEF Size, Shrinking, LetGo
  <2>2. \A w \in VPages \ {v} : w < sz[p] => Valid(pt[p][w])
    BY <1>1, <1>2, <2>1 DEF Knows, PresentOK
  <2> QED BY <1>1, <1>8, <1>12, <2>2
<1>14. Knows(p)'
  BY <1>11, <1>13, ToUser
<1>15. Touches(p, {th[p].tgt} \cap Procs) /\ Presence'
  BY <1>1, <1>2, <1>10, <1>11, <1>14, Working
<1>16. mem'[pt'[p][v].pa] = mem[th[p].pa]
  BY <1>5, <1>6, <1>8
<1> QED BY <1>1, <1>2, <1>4, <1>8, <1>9, <1>11, <1>12, <1>15, <1>16

-----------------------------------------------------------------------------
(* uvmunmap and kfree, for whatever caller.                                *)

(* Where kfree is called by uvmunmap, the caller of uvmunmap has given the *)
(* page up already: it lies beyond the size, or belongs to a process that  *)
(* is not live, or is the page that cow() has let go.                      *)
LEMMA GivenUp ==
  ASSUME IInv, Presence, NEW p \in Procs, Unmapper(p), th[p].tgt = p, th[p].v < th[p].end
  PROVE  th[p].v >= Size(p) \/ LetGo(p, th[p].v)
<1>1. th[p].lo <= th[p].v /\ RetOK(p) /\ p \in Threads /\ Knows(p)
  BY DEF IInv, ThreadOK, UnmapOK, Threads, Presence
<1>2. th[p] \in Locals /\ th[p].lo \in 0..MaxSz /\ th[p].v \in 0..MaxSz /\ th[p].end \in 0..MaxSz
  BY <1>1 DEF IInv, TypeOK, Locals
<1>3. CASE th[p].ret = "cow"
  <2>1. th[p].end = th[p].lo + 1 /\ th[p].pa \in Frames /\ th[p].caller = "fault"
    BY <1>1, <1>3 DEF RetOK, Knows, PlaceOK
  <2>2. th[p].v = th[p].lo
    BY <1>1, <1>2, <2>1
  <2> QED BY <2>1, <2>2 DEF LetGo
<1>4. CASE th[p].ret = "sbrk"
  BY <1>1, <1>2, <1>4 DEF Size, Shrinking
<1>5. CASE th[p].ret = "uvmalloc"
  BY <1>1, <1>2, <1>5 DEF Size, Shrinking, RetOK
<1>6. th[p].ret \in {"cow", "sbrk", "uvmalloc"}
  <2>1. st[p] = "live"
    BY <1>1 DEF IInv, ThreadOK, Alive, Unmapper, Freeing
  <2> QED BY <1>1, <2>1 DEF RetOK
<1> QED BY <1>3, <1>4, <1>5, <1>6

LEMMA UnmapSkipKnows ==
  ASSUME IInv, Presence, NEW p \in Threads, UnmapSkip(p)
  PROVE  /\ Touches(p, {th[p].tgt} \cap Procs) /\ Presence'
         /\ th'[p].pc = "unmap" /\ th'[p].ret = th[p].ret /\ th'[p].caller = th[p].caller
         /\ th'[p].lo = th[p].lo /\ th'[p].pa = th[p].pa
         /\ th'[p].v = th[p].v + 1
<1>1. /\ th[p].pc = "unmap" /\ Knows(p) /\ UNCHANGED <<mem, pt, sz, st>>
      /\ th[p].v < th[p].end
  BY DEF UnmapSkip, Unmaps, Presence
<1>2. PICK t : t = [th[p] EXCEPT !.v = @ + 1]
  OBVIOUS
<1>3. th' = [th EXCEPT ![p] = t]
  BY <1>2 DEF UnmapSkip, GoTo
<1>4. /\ t.pc = "unmap" /\ t.ret = th[p].ret /\ t.caller = th[p].caller
      /\ t.lo = th[p].lo /\ t.pa = th[p].pa /\ t.v = th[p].v + 1
  BY <1>1, <1>2 DEF IInv, TypeOK, Locals
<1>5. th'[p] = t /\ \A r \in Threads \ {p} : th'[r] = th[r]
  BY <1>3, Moved
<1>6. p \in Procs => st[p] = "live"
  BY <1>1, UnmappingThread
<1>7. p \in Procs => PresentOK(p)'
  BY <1>1, <1>4, <1>5 DEF Knows, PresentOK, Size, Shrinking, LetGo
<1>8. th[p].caller # "copyout" /\ (th[p].caller = "fault" <=> th[p].ret = "cow")
  BY <1>1 DEF Knows, PlaceOK
<1>9. Knows(p)'
  BY <1>4, <1>5, <1>7, <1>8, KnowsPlain
<1>10. \A q \in Procs : ProcessKept(q)
  BY <1>1 DEF ProcessKept
<1>11. \A c \in Procs \ {p} : th[p].tgt = c => st'[c] # "live"
  BY <1>1, TargetIsNotLive
<1> QED BY <1>4, <1>5, <1>6, <1>9, <1>10, <1>11, Working

(* The frame that kfree fills is mapped at the cursor only, or not at all. *)
LEMMA KfreeLastKnows ==
  ASSUME IInv, Presence, NEW p \in Threads, KfreeLast(p)
  PROVE  /\ Touches(p, {th[p].tgt} \cap Procs) /\ Presence'
         /\ UNCHANGED <<pt, sz, st>>
         /\ th'[p].ret = th[p].ret /\ th'[p].caller = th[p].caller
         /\ th'[p].lo = th[p].lo /\ th'[p].pa = th[p].pa /\ th'[p].pc = "kfree_push"
         /\ mem_rc[KfreePa(p)] = 1
         /\ \A v \in VPages : p \in Procs /\ v < Size(p) /\ Valid(pt[p][v]) /\ ~LetGo(p, v) =>
              mem'[pt[p][v].pa] = mem[pt[p][v].pa]
<1>1. Kfrees(p) /\ Knows(p) /\ ~Shared(KfreePa(p))
  BY DEF KfreeLast, Presence
<1>2. PICK f \in Frames : f = KfreePa(p)
  BY <1>1, FreedIsReferenced
<1>3. mem_rc[f] = 1
  <2>1. mem_rc[f] \in 1..RcMax /\ ~(mem_rc[f] > 1)
    BY <1>1, <1>2, FreedIsReferenced DEF Shared
  <2> QED BY <2>1
<1>4. /\ mem' = [mem EXCEPT ![f] = JunkFree] /\ UNCHANGED <<pt, sz, st>>
      /\ th' = [th EXCEPT ![p] = [th[p] EXCEPT !.pc = "kfree_push"]]
  BY <1>2, <1>3 DEF KfreeLast, BadRc, Fill, GoTo
<1>5. PICK t : t = [th[p] EXCEPT !.pc = "kfree_push"]
  OBVIOUS
<1>6. /\ t.pc = "kfree_push" /\ t.ret = th[p].ret /\ t.caller = th[p].caller
      /\ t.lo = th[p].lo /\ t.pa = th[p].pa
  BY <1>5 DEF IInv, TypeOK, Locals
<1>7. th'[p] = t /\ \A r \in Threads \ {p} : th'[r] = th[r]
  BY <1>4, <1>5, Moved
<1>8. p \in Procs => st[p] = "live"
  BY <1>1, FreedIsReferenced
<1>9. \A q \in Procs, v \in VPages : pt[q][v].pa = f =>
        /\ q = th[p].tgt /\ v = th[p].v
        /\ Unmapper(p) /\ th[p].v < th[p].end
  <2>1. ASSUME NEW q \in Procs, NEW v \in VPages, pt[q][v].pa = f
        PROVE  q = th[p].tgt /\ v = th[p].v /\ th[p].kret = "unmap" /\ th[p].v < th[p].end
    <3>1. <<q, v>> \in Mappings(f)
      BY <2>1, MappingsDef
    <3>2. Mappings(f) = {<<q, v>>} /\ Holders(f) = {}
      BY <1>3, <3>1, SoleReference DEF IInv
    <3>3. p \in Procs => ~InHand(p, f)
      BY <3>2 DEF Holders
    <3>4. /\ th[p].kret = "unmap" /\ th[p].tgt \in Procs /\ th[p].v \in VPages
          /\ th[p].v < th[p].end /\ pt[th[p].tgt][th[p].v].pa = f
      BY <1>1, <1>2, <3>3, FreedIsReferenced
    <3>5. <<th[p].tgt, th[p].v>> \in {<<q, v>>}
      BY <3>2, <3>4, MappingsDef
    <3> QED BY <3>4, <3>5
  <2>2. th[p].kret = "unmap" => Unmapper(p)
    BY <1>1 DEF Kfrees, Unmaps, Unmapper, Freeing
  <2> QED BY <2>1, <2>2
<1>10. \A q \in Procs \ {th[p].tgt} : ProcessKept(q)
  BY <1>4, <1>9, NotMapped DEF ProcessKept
<1>11. \A c \in Procs \ {p} : th[p].tgt = c => st'[c] # "live"
  BY <1>4, TargetIsNotLive
<1>12. p \in Procs => PresentOK(p)'
  BY <1>1, <1>4, <1>6, <1>7, FreedIsReferenced DEF Knows, PresentOK, Size, Shrinking, LetGo, Kfrees, Unmaps
<1>13. th[p].caller # "copyout" /\ (th[p].caller = "fault" <=> th[p].ret = "cow")
  BY <1>1 DEF Knows, PlaceOK, Kfrees, Unmaps
<1>14. Knows(p)'
  BY <1>6, <1>7, <1>12, <1>13, KnowsPlain
<1>15. Touches(p, {th[p].tgt} \cap Procs) /\ Presence'
  BY <1>7, <1>8, <1>10, <1>11, <1>14, Working
<1>16. ASSUME NEW v \in VPages, p \in Procs, v < Size(p), Valid(pt[p][v]), ~LetGo(p, v)
       PROVE  mem'[pt[p][v].pa] = mem[pt[p][v].pa]
  <2>1. pt[p][v].pa # f
    <3> SUFFICES ASSUME pt[p][v].pa = f PROVE FALSE
      OBVIOUS
    <3>1. p = th[p].tgt /\ v = th[p].v /\ Unmapper(p) /\ th[p].v < th[p].end
      BY <1>9, <1>16
    <3>2. v >= Size(p)
      BY <1>16, <3>1, GivenUp
    <3>3. Size(p) \in Int
      BY <1>16 DEF Size, IInv, TypeOK, Locals
    <3> QED BY <1>16, <3>2, <3>3 DEF VPages
  <2> QED BY <1>4, <1>16, <2>1 DEF IInv, TypeOK, Valid, PteType
<1> QED BY <1>2, <1>3, <1>4, <1>6, <1>7, <1>15, <1>16

(* kfree returns: a page is gone that had been given up before.            *)
LEMMA KfreeReturnsKnows ==
  ASSUME IInv, Presence, NEW p \in Threads, Kfrees(p) \/ th[p].pc = "kfree_push",
         KfreeReturns(p), UNCHANGED <<mem, sz, st>>
  PROVE  /\ Touches(p, {th[p].tgt} \cap Procs) /\ Presence'
         /\ th'[p].pc = "unmap"
         /\ th[p].kret = "unmap" =>
              /\ th'[p].ret = th[p].ret /\ th'[p].caller = th[p].caller
              /\ th'[p].lo = th[p].lo /\ th'[p].pa = th[p].pa /\ th'[p].v = th[p].v + 1
         /\ th[p].kret # "unmap" =>
              /\ UNCHANGED pt /\ th'[p].ret \in {"uvmcopy", "uvmalloc"} /\ th'[p].caller = "none"
              /\ th[p].caller = "none" /\ th[p].ret = "none"
         /\ p \in Procs => Size(p)' = Size(p)
         /\ \A v \in VPages : p \in Procs /\ v < Size(p) =>
              \/ pt'[p][v] = pt[p][v]
              \/ LetGo(p, v) /\ LetGo(p, v)' /\ v = th[p].v /\ ~Valid(pt'[p][v])
<1>1. /\ Knows(p)
      /\ p \in Procs => st[p] = "live"
      /\ th[p].pc \in {"unmap", "kfree", "kfree_push"}
      /\ th[p].caller # "copyout" /\ (th[p].caller = "fault" <=> th[p].ret = "cow")
  BY FreedIsReferenced DEF Presence, Kfrees, Unmaps, Knows, PlaceOK
<1>2. \A c \in Procs \ {p} : th[p].tgt = c => st'[c] # "live"
  BY TargetIsNotLive
<1>3. CASE th[p].kret = "unmap"
  <2>1. PICK q \in Procs, v \in VPages : q = th[p].tgt /\ v = th[p].v /\ th[p].v < th[p].end
    BY <1>3, FreedIsReferenced
  <2>2. Unmapper(p)
    BY <1>1, <1>3 DEF Unmapper, Freeing, IInv, ThreadOK, ShapeOK
  <2>3. PICK t : t = [th[p] EXCEPT !.pc = "unmap", !.v = @ + 1]
    OBVIOUS
  <2>4. pt' = [pt EXCEPT ![q][v] = NoPte] /\ th' = [th EXCEPT ![p] = t]
    BY <1>3, <2>1, <2>3 DEF KfreeReturns, GoTo
  <2>5. /\ t.pc = "unmap" /\ t.ret = th[p].ret /\ t.caller = th[p].caller
        /\ t.lo = th[p].lo /\ t.pa = th[p].pa /\ t.v = th[p].v + 1
    BY <2>3 DEF IInv, TypeOK, Locals
  <2>6. th'[p] = t /\ \A r \in Threads \ {p} : th'[r] = th[r]
    BY <2>4, Moved
  <2>7. \A r \in Procs, w \in VPages : r # q \/ w # v => pt'[r][w] = pt[r][w]
    BY <2>4 DEF IInv, TypeOK
  <2>8. \A r \in Procs \ {q} : pt'[r] = pt[r]
    BY <2>4 DEF IInv, TypeOK
  <2>9. \A r \in Procs \ {q} : ProcessKept(r)
    BY <2>8 DEF ProcessKept
  <2>10. /\ p \in Procs => Size(p)' = Size(p)
         /\ \A w \in VPages : LetGo(p, w)' <=> LetGo(p, w)
    BY <2>5, <2>6 DEF Size, Shrinking, LetGo
  <2>11. ASSUME NEW w \in VPages, p \in Procs, w < Size(p)
         PROVE  \/ pt'[p][w] = pt[p][w]
                \/ LetGo(p, w) /\ LetGo(p, w)' /\ w = th[p].v /\ ~Valid(pt'[p][w])
    <3>1. CASE p = q /\ w = v
      <4>1. v >= Size(p) \/ LetGo(p, v)
        BY <2>1, <2>2, <2>11, <3>1, GivenUp
      <4>2. Size(p) \in Int
        BY <2>11 DEF Size, IInv, TypeOK, Locals
      <4>3. ~(v >= Size(p))
        BY <2>11, <3>1, <4>2 DEF VPages
      <4>4. LetGo(p, v) /\ LetGo(p, v)'
        BY <2>10, <4>1, <4>3
      <4>5. ~Valid(pt'[p][w])
        BY <2>4, <3>1, ClearPte DEF IInv, TypeOK, Valid
      <4> QED BY <2>1, <3>1, <4>4, <4>5
    <3>2. CASE p # q \/ w # v
      BY <2>7, <2>11, <3>2
    <3> QED BY <3>1, <3>2
  <2>12. ASSUME p \in Procs PROVE PresentOK(p)'
    <3>1. \A w \in VPages : w < Size(p) => Valid(pt[p][w]) \/ LetGo(p, w)
      BY <1>1, <2>12 DEF Knows, PresentOK
    <3>2. \A w \in VPages : w < Size(p)' => Valid(pt'[p][w]) \/ LetGo(p, w)'
      BY <2>10, <2>11, <2>12, <3>1
    <3> QED BY <3>2 DEF PresentOK, Valid
  <2>13. Knows(p)'
    BY <1>1, <2>5, <2>6, <2>12, KnowsPlain
  <2>14. Touches(p, {th[p].tgt} \cap Procs) /\ Presence'
    BY <1>1, <1>2, <2>1, <2>6, <2>9, <2>13, Working
  <2> QED BY <1>3, <2>5, <2>6, <2>10, <2>11, <2>14
<1>4. CASE th[p].kret # "unmap"
  <2>1. /\ th[p].kret \in {"uvmcopy", "uvmalloc"} /\ p \in Procs /\ p \in Threads
        /\ th[p].ret = "none"
    <3>1. th[p].kret \in {"uvmcopy", "uvmalloc"} /\ p \in Procs
      BY <1>4, FreedIsReferenced
    <3>2. th[p].pc # "unmap"
      BY <1>4, UnmappingThread
    <3> QED BY <1>1, <3>1, <3>2 DEF IInv, ThreadOK, CopyFailOK, GrowOK, Freeing
  <2>2. UNCHANGED pt /\ \E q, lo : \E r \in {"uvmcopy", "uvmalloc"} :
          th' = [th EXCEPT ![p] = Unmapping(User, q, lo, th[p].v, r)]
    BY <2>1, Zenon DEF KfreeReturns, GoTo
  <2>3. PICK t : th' = [th EXCEPT ![p] = t] /\ t.pc = "unmap"
                 /\ t.ret \in {"uvmcopy", "uvmalloc"} /\ t.caller = "none"
    <3>1. PICK q, lo : \E r \in {"uvmcopy", "uvmalloc"} :
            th' = [th EXCEPT ![p] = Unmapping(User, q, lo, th[p].v, r)]
      BY <2>2
    <3>2. PICK r \in {"uvmcopy", "uvmalloc"} :
            th' = [th EXCEPT ![p] = Unmapping(User, q, lo, th[p].v, r)]
      BY <3>1
    <3>3. PICK t : t = Unmapping(User, q, lo, th[p].v, r)
      OBVIOUS
    <3>4. t.pc = "unmap" /\ t.ret = r /\ t.caller = "none"
      BY <3>3 DEF Unmapping, User
    <3> QED BY <3>2, <3>3, <3>4
  <2>5. th'[p] = t /\ \A s \in Threads \ {p} : th'[s] = th[s]
    BY <2>3, Moved
  <2>6. th[p].caller = "none"
    BY <1>1, <2>1 DEF IInv, TypeOK, Locals
  <2>7. Size(p)' = Size(p)
    BY <2>1, <2>3, <2>5 DEF Size, Shrinking
  <2>8. PresentOK(p)'
    <3>1. \A w \in VPages : w < Size(p) => Valid(pt[p][w])
      BY <1>1, <2>1, <2>6 DEF Knows, PresentOK, LetGo
    <3> QED BY <2>2, <2>7, <3>1 DEF PresentOK
  <2>9. Knows(p)'
    BY <2>3, <2>5, <2>8, KnowsPlain
  <2>10. \A s \in Procs : ProcessKept(s)
    BY <2>2 DEF ProcessKept
  <2>11. Touches(p, {th[p].tgt} \cap Procs) /\ Presence'
    BY <1>1, <1>2, <2>5, <2>9, <2>10, Working
  <2> QED BY <1>4, <2>1, <2>2, <2>3, <2>5, <2>6, <2>7, <2>11
<1> QED BY <1>3, <1>4

-----------------------------------------------------------------------------
(* fork().                                                                 *)

LEMMA ForkKnows ==
  ASSUME IInv, Presence, NEW p \in Procs, NEW c \in Procs, Fork(p, c)
  PROVE  /\ Touches(p, {c}) /\ Presence' /\ c # p /\ st[c] # "live" /\ st'[c] # "live"
         /\ UNCHANGED <<pt, sz, mem>> /\ st'[p] = st[p]
         /\ th'[p].pc = "uvmcopy" /\ th'[p].ret = "none" /\ th'[p].caller = "none"
<1>1. /\ InUser(p) /\ st[c] = "unused" /\ st' = [st EXCEPT ![c] = "embryo"]
      /\ UNCHANGED <<pt, sz, mem>>
  BY DEF Fork
<1>2. /\ p \in Threads /\ st[p] = "live" /\ th[p] = User /\ Size(p) = sz[p]
      /\ \A v \in VPages : v < sz[p] => Valid(pt[p][v])
  BY <1>1, AtRest
<1>3. PICK t : t = [User EXCEPT !.pc = "uvmcopy", !.tgt = c, !.end = sz[p]]
  OBVIOUS
<1>4. th' = [th EXCEPT ![p] = t]
  BY <1>3 DEF Fork, GoTo
<1>5. t.pc = "uvmcopy" /\ t.ret = "none" /\ t.caller = "none" /\ t.v = 0
  BY <1>3 DEF User
<1>6. th'[p] = t /\ \A r \in Threads \ {p} : th'[r] = th[r]
  BY <1>2, <1>4, Moved
<1>7. st'[c] = "embryo" /\ \A q \in Procs \ {c} : st'[q] = st[q]
  BY <1>1 DEF IInv, TypeOK
<1>8. c # p
  BY <1>1, <1>2
<1>9. Touches(p, {c})
  BY <1>1, <1>6, <1>7 DEF Touches, ProcessKept
<1>10. Knows(p)'
  <2>1. PlaceOK(p)' /\ ZeroOK(p)'
    BY <1>5, <1>6 DEF PlaceOK, ZeroOK
  <2>2. \A v \in VPages : ~(v < 0)
    BY DEF VPages
  <2>3. ChildOK(p)'
    BY <1>5, <1>6, <2>2 DEF ChildOK
  <2>4. PresentOK(p)'
    BY <1>1, <1>2, <1>5, <1>6 DEF PresentOK, Size, Shrinking
  <2> QED BY <2>1, <2>3, <2>4 DEF Knows
<1>11. \A q \in {c} \ {p} : PresentOK(q)'
  BY <1>7 DEF PresentOK
<1>12. ASSUME NEW r \in Threads \ {p}, th[r].pc # "user"
       PROVE  {r, th[r].tgt} \cap ({c} \cup {p}) \cap Procs = {}
  <2>1. {r, th[r].tgt} \cap {p, th[p].tgt} \cap Procs = {}
    BY <1>2, <1>12, Disjoint
  <2>2. ThreadOK(r) /\ th[r] \in Locals
    BY DEF IInv, TypeOK
  <2>3. r # c
    BY <1>1, <1>12, <2>2 DEF ThreadOK, Alive
  <2>4. th[r].tgt # c
    <3> SUFFICES ASSUME th[r].tgt = c PROVE FALSE
      OBVIOUS
    <3>1. c # NoProc
      OBVIOUS
    <3>2. th[r].pc = "uvmcopy" \/ Freeing(r, "uvmcopy") \/ Unmapper(r)
      BY <2>2, <3>1 DEF ThreadOK, ShapeOK, GrowOK, QuietPcs, Freeing, Unmapper, Locals, Pcs
    <3>3. CASE th[r].pc = "uvmcopy"
      BY <1>1, <2>2, <3>3 DEF ThreadOK, CopyOK
    <3>4. CASE Freeing(r, "uvmcopy")
      BY <1>1, <2>2, <3>4 DEF ThreadOK, CopyFailOK
    <3>5. CASE Unmapper(r)
      BY <1>1, <2>2, <2>3, <3>5 DEF ThreadOK, UnmapOK, RetOK
    <3> QED BY <3>2, <3>3, <3>4, <3>5
  <2> QED BY <2>1, <2>3, <2>4
<1>13. Presence'
  BY <1>2, <1>9, <1>10, <1>11, <1>12, OthersKnow
<1> QED BY <1>1, <1>5, <1>6, <1>7, <1>8, <1>9, <1>13

(* uvmcopy() finds every page of the parent.                               *)
LEMMA ParentIsThere ==
  ASSUME IInv, Presence, NEW p \in Procs, Copying(p)
  PROVE  Valid(ParentPte(p)) /\ th[p].caller = "none" /\ Size(p) = sz[p] /\ st[p] = "live"
<1>1. th[p].pc = "uvmcopy" /\ th[p].v < th[p].end /\ p \in Threads /\ Knows(p)
  BY DEF Copying, Threads, Presence
<1>2. th[p].end = sz[p] /\ st[p] = "live" /\ th[p].ret = "none"
  BY <1>1 DEF IInv, ThreadOK, CopyOK, Alive, ShapeOK
<1>3. th[p].caller = "none"
  BY <1>1, <1>2 DEF Knows, PlaceOK, IInv, TypeOK, Locals
<1>4. th[p].v \in VPages
  BY <1>1 DEF IInv, TypeOK, Locals, VPages
<1>5. Size(p) = sz[p] /\ \A v : ~LetGo(p, v)
  BY <1>2, <1>3 DEF Size, Shrinking, LetGo
<1> QED BY <1>1, <1>2, <1>3, <1>4, <1>5 DEF Knows, PresentOK, ParentPte

LEMMA UvmcopyPageKnows ==
  ASSUME IInv, Presence, NEW p \in Procs, UvmcopyPage(p)
  PROVE  /\ Touches(p, {th[p].tgt} \cap Procs) /\ Presence'
         /\ th'[p].pc = "uvmcopy" /\ th'[p].ret = "none" /\ th'[p].caller = "none"
         /\ \A v \in VPages : pt'[p][v].pa = pt[p][v].pa
<1>1. Copying(p) /\ Valid(ParentPte(p)) /\ AddRef(ParentPte(p).pa)
  BY UvmcopyPageGoesOn
<1>2. PICK c \in Procs \ {p}, v \in VPages, f \in Frames :
        c = th[p].tgt /\ v = th[p].v /\ f = pt[p][v].pa
  BY <1>1, Copies
<1>3. /\ pt' = [pt EXCEPT ![p][v] = MarkCow(@), ![c][v] = MarkCow(pt[p][v])]
      /\ UNCHANGED <<mem, sz, st>>
  BY <1>2, UvmcopyPageGoesOn DEF ParentPte
<1>4. PICK t : t = [th[p] EXCEPT !.v = @ + 1]
  OBVIOUS
<1>5. th' = [th EXCEPT ![p] = t] /\ p \in Threads
  BY <1>4, UvmcopyPageGoesOn DEF GoTo, Threads
<1>6. th'[p] = t /\ \A r \in Threads \ {p} : th'[r] = th[r]
  BY <1>5, Moved
<1>7. /\ th[p].pc = "uvmcopy" /\ st[p] = "live" /\ th[p].ret = "none" /\ th[p].caller = "none"
      /\ Knows(p) /\ Size(p) = sz[p] /\ pt[p][v] \in PteType
  BY <1>1, <1>2, ParentIsThere DEF Copying, IInv, TypeOK, ThreadOK, ShapeOK, Presence, Threads
<1>8. /\ t.pc = "uvmcopy" /\ t.ret = "none" /\ t.caller = "none"
      /\ t.v = v + 1 /\ t.tgt = c
  BY <1>2, <1>4, <1>5, <1>7 DEF IInv, TypeOK, Locals
<1>9. PICK e \in PteType : e = MarkCow(pt[p][v]) /\ e.pa = f
  BY <1>2, <1>7, MarkedPte
<1>10. /\ \A w \in VPages : pt'[p][w] = IF w = v THEN e ELSE pt[p][w]
       /\ \A w \in VPages : pt'[c][w] = IF w = v THEN e ELSE pt[c][w]
       /\ \A q \in Procs \ {p, c} : pt'[q] = pt[q]
  BY <1>3, <1>9 DEF IInv, TypeOK
<1>11. \A w \in VPages : pt'[p][w].pa = pt[p][w].pa
  BY <1>2, <1>9, <1>10
<1>12. \A q \in Procs \ {p, th[p].tgt} : ProcessKept(q)
  BY <1>2, <1>3, <1>10 DEF ProcessKept
<1>13. \A q \in Procs \ {p} : th[p].tgt = q => st'[q] # "live"
  BY <1>3, <1>5, TargetIsNotLive
<1>14. PlaceOK(p)' /\ ZeroOK(p)'
  BY <1>6, <1>8 DEF PlaceOK, ZeroOK
<1>15. PresentOK(p)'
  <2>1. \A w : ~LetGo(p, w)
    BY <1>7 DEF LetGo
  <2>2. \A w \in VPages : w < sz[p] => Valid(pt[p][w])
    BY <1>7, <2>1 DEF Knows, PresentOK
  <2>3. Size(p)' = sz[p]
    BY <1>3, <1>6, <1>8 DEF Size, Shrinking
  <2> QED BY <1>11, <2>2, <2>3 DEF PresentOK, Valid
<1>16. ChildOK(p)'
  <2>1. \A w \in VPages : w < v => pt[c][w].pa = pt[p][w].pa
    BY <1>2, <1>7 DEF Knows, ChildOK
  <2>2. ASSUME NEW w \in VPages, w < v + 1 PROVE pt'[c][w].pa = pt'[p][w].pa
    <3>1. w = v \/ w < v
      BY <2>2 DEF VPages
    <3> QED BY <1>10, <2>1, <3>1
  <2> QED BY <1>6, <1>8, <2>2 DEF ChildOK
<1>17. Knows(p)'
  BY <1>14, <1>15, <1>16 DEF Knows
<1> QED BY <1>5, <1>6, <1>7, <1>8, <1>11, <1>12, <1>13, <1>17, Working

LEMMA UvmcopyFailKnows ==
  ASSUME IInv, Presence, NEW p \in Procs, UvmcopyFail(p)
  PROVE  /\ Touches(p, {th[p].tgt} \cap Procs) /\ Presence'
         /\ th'[p].pc = "kfree" /\ th'[p].ret = "none" /\ th'[p].caller = "none"
         /\ \A v \in VPages : pt'[p][v].pa = pt[p][v].pa
<1>1. Copying(p) /\ Valid(ParentPte(p)) /\ AddRef(ParentPte(p).pa)
  BY UvmcopyFailGoesOn
<1>2. PICK v \in VPages, f \in Frames : v = th[p].v /\ f = pt[p][v].pa
  BY <1>1, Copies
<1>3. PICK t : t = [th[p] EXCEPT !.pc = "kfree", !.pa = ParentPte(p).pa, !.kret = "uvmcopy"]
  OBVIOUS
<1>4. th' = [th EXCEPT ![p] = t] /\ p \in Threads
  BY <1>3, UvmcopyFailGoesOn DEF GoTo, Threads
<1>5. th'[p] = t /\ \A r \in Threads \ {p} : th'[r] = th[r]
  BY <1>4, Moved
<1>6. /\ st[p] = "live" /\ th[p].ret = "none" /\ th[p].caller = "none" /\ th[p].pc = "uvmcopy"
      /\ Knows(p) /\ Size(p) = sz[p] /\ pt[p][v] \in PteType
  BY <1>1, <1>4, ParentIsThere DEF Copying, IInv, TypeOK, ThreadOK, ShapeOK, Presence
<1>7. t.pc = "kfree" /\ t.ret = "none" /\ t.caller = "none"
  BY <1>3, <1>4, <1>6 DEF IInv, TypeOK, Locals
<1>8. PICK e \in PteType : e = MarkCow(pt[p][v]) /\ e.pa = f
  BY <1>2, <1>6, MarkedPte
<1>9. pt' = [pt EXCEPT ![p][v] = e] /\ UNCHANGED <<mem, sz, st>>
  BY <1>2, <1>8, UvmcopyFailGoesOn
<1>10. /\ \A w \in VPages : pt'[p][w].pa = pt[p][w].pa
       /\ \A q \in Procs \ {p} : pt'[q] = pt[q]
  <2>1. \A w \in VPages : pt'[p][w].pa = pt[p][w].pa
    BY <1>2, <1>8, <1>9, SamePa DEF IInv
  <2>2. \A q \in Procs \ {p} : pt'[q] = pt[q]
    BY <1>9 DEF IInv, TypeOK
  <2> QED BY <2>1, <2>2
<1>11. \A q \in Procs \ {p} : ProcessKept(q)
  BY <1>9, <1>10 DEF ProcessKept
<1>12. \A q \in Procs \ {p} : th[p].tgt = q => st'[q] # "live"
  BY <1>4, <1>9, TargetIsNotLive
<1>13. PresentOK(p)'
  <2>1. \A w : ~LetGo(p, w)
    BY <1>6 DEF LetGo
  <2>2. \A w \in VPages : w < sz[p] => Valid(pt[p][w])
    BY <1>6, <2>1 DEF Knows, PresentOK
  <2>3. Size(p)' = sz[p]
    BY <1>5, <1>7, <1>9 DEF Size, Shrinking
  <2> QED BY <1>10, <2>2, <2>3 DEF PresentOK, Valid
<1>14. Knows(p)'
  BY <1>4, <1>5, <1>7, <1>13, KnowsPlain
<1> QED BY <1>4, <1>5, <1>6, <1>7, <1>10, <1>11, <1>12, <1>14, Working

(* The child gets the size of its parent, and the pages are there already. *)
LEMMA ForkDoneKnows ==
  ASSUME IInv, Presence, NEW p \in Procs, NEW c, c = th[p].tgt, ForkDone(p)
  PROVE  /\ Touches(p, {th[p].tgt} \cap Procs) /\ Presence'
         /\ c \in Procs \ {p} /\ st[c] = "embryo" /\ st[p] = "live"
         /\ th[p].pc = "uvmcopy" /\ th[p].ret = "none" /\ th[p].caller = "none"
         /\ th'[p] = User /\ th'[c] = User /\ UNCHANGED <<pt, mem>>
         /\ st' = [st EXCEPT ![c] = "live"] /\ sz' = [sz EXCEPT ![c] = sz[p]]
         /\ \A v \in VPages : v < sz[p] => Valid(pt[p][v]) /\ pt[c][v].pa = pt[p][v].pa
<1>1. /\ th[p].pc = "uvmcopy" /\ th[p].v = th[p].end /\ p \in Threads /\ Knows(p)
      /\ st' = [st EXCEPT ![c] = "live"] /\ sz' = [sz EXCEPT ![c] = sz[p]]
      /\ UNCHANGED <<pt, mem>> /\ th' = [th EXCEPT ![p] = User]
  BY DEF ForkDone, GoTo, Threads, Presence
<1>2. /\ c \in Procs /\ st[c] = "embryo" /\ st[p] = "live" /\ th[p].end = sz[p]
      /\ th[p].ret = "none"
  BY <1>1 DEF IInv, ThreadOK, CopyOK, Alive, ShapeOK
<1>3. c # p /\ c \in Threads
  BY <1>2 DEF Threads
<1>4. th[p].caller = "none"
  BY <1>1, <1>2 DEF Knows, PlaceOK, IInv, TypeOK, Locals
<1>5. Size(p) = sz[p] /\ \A v : ~LetGo(p, v)
  BY <1>2, <1>4 DEF Size, Shrinking, LetGo
<1>6. \A v \in VPages : v < sz[p] => Valid(pt[p][v]) /\ pt[c][v].pa = pt[p][v].pa
  BY <1>1, <1>2, <1>5 DEF Knows, PresentOK, ChildOK
<1>7. th[c] = User
  <2>1. th[c].pc = "user"
    BY <1>2, <1>3 DEF IInv, ThreadOK, Alive
  <2> QED BY <1>3, <2>1 DEF Presence, Knows, PlaceOK
<1>8. th'[p] = User /\ \A r \in Threads \ {p} : th'[r] = th[r]
  BY <1>1, Moved
<1>9. /\ sz'[c] = sz[p] /\ st'[c] = "live"
      /\ \A q \in Procs \ {c} : sz'[q] = sz[q] /\ st'[q] = st[q]
  BY <1>1, <1>2 DEF IInv, TypeOK
<1>10. PresentOK(c)'
  <2>1. Size(c)' = sz[p]
    BY <1>3, <1>7, <1>8, <1>9, UserFields DEF Size, Shrinking
  <2> QED BY <1>1, <1>6, <2>1 DEF PresentOK, Valid
<1>11. Knows(p)'
  <2>1. \A v \in VPages : v < sz'[p] => Valid(pt'[p][v])
    BY <1>1, <1>3, <1>6, <1>9
  <2> QED BY <1>8, <2>1, ToUser
<1>12. Touches(p, {th[p].tgt} \cap Procs)
  BY <1>1, <1>2, <1>8, <1>9 DEF Touches, ProcessKept
<1>13. \A q \in Procs \ {p} : th[p].tgt = q => PresentOK(q)'
  BY <1>10
<1>14. Presence'
  BY <1>1, <1>2, <1>11, <1>12, <1>13, Knowing
<1> QED BY <1>1, <1>2, <1>3, <1>4, <1>6, <1>7, <1>8, <1>12, <1>14

(* freeproc() takes away what is not live.                                 *)
LEMMA FreeProcKnows ==
  ASSUME IInv, Presence, NEW p \in Threads, th[p].pc = "unmap",
         th[p].ret \in {"uvmcopy", "uvmfree"}, FreeProc(p, th[p].tgt), IInv'
  PROVE  /\ Touches(p, {th[p].tgt} \cap Procs) /\ Presence'
         /\ th'[p] = User /\ UNCHANGED <<pt, mem>> /\ th[p].caller # "fault"
         /\ p \in Procs => th[p].tgt # p /\ st'[p] = st[p] /\ sz'[p] = sz[p]
<1>1. PICK c \in Procs : c = th[p].tgt
  BY UnmappingThread
<1>2. /\ p \in Procs => st[p] = "live"
      /\ c # p /\ Knows(p)
  BY <1>1, UnmappingThread DEF UnmapOK, Unmapper, RetOK, Presence
<1>3. /\ st' = [st EXCEPT ![c] = "unused"] /\ sz' = [sz EXCEPT ![c] = 0]
      /\ UNCHANGED <<pt, mem>> /\ th' = [th EXCEPT ![p] = User]
  <2>1. panicked' # "freewalk: leaf"
    BY DEF IInv, CountsNeverPanic
  <2> QED BY <1>1, <2>1 DEF FreeProc, Panic, GoTo
<1>4. st'[c] = "unused" /\ \A q \in Procs \ {c} : sz'[q] = sz[q] /\ st'[q] = st[q]
  BY <1>3 DEF IInv, TypeOK
<1>5. th'[p] = User /\ \A r \in Threads \ {p} : th'[r] = th[r]
  BY <1>3, Moved
<1>6. th[p].caller = "none"
  BY <1>2 DEF Knows, PlaceOK, IInv, TypeOK, Locals
<1>7. ASSUME p \in Procs PROVE PresentOK(p)'
  <2>1. \A v \in VPages : v < sz[p] => Valid(pt[p][v])
    BY <1>2, <1>6, <1>7 DEF Knows, PresentOK, Size, Shrinking, LetGo
  <2>2. Size(p)' = sz[p]
    BY <1>2, <1>4, <1>5, <1>7, UserFields DEF Size, Shrinking
  <2> QED BY <1>3, <2>1, <2>2 DEF PresentOK, Valid
<1>8. Knows(p)'
  BY <1>5, <1>7, UserFields DEF Knows, PlaceOK, ChildOK, ZeroOK
<1>9. \A q \in Procs \ {p, th[p].tgt} : ProcessKept(q)
  BY <1>1, <1>3, <1>4 DEF ProcessKept
<1>10. \A q \in Procs \ {p} : th[p].tgt = q => st'[q] # "live"
  BY <1>1, <1>4
<1>11. Touches(p, {th[p].tgt} \cap Procs) /\ Presence'
  BY <1>2, <1>5, <1>8, <1>9, <1>10, Working
<1> QED BY <1>1, <1>2, <1>3, <1>4, <1>5, <1>6, <1>11

(* A process exits.                                                        *)
LEMMA ExitKnows ==
  ASSUME IInv, Presence, NEW p \in Procs, Exit(p)
  PROVE  /\ Touches(p, {th[p].tgt} \cap Procs) /\ Presence'
         /\ st[p] = "live" /\ st'[p] = "zombie" /\ th[p].ret = "none"
         /\ th'[p] = User
<1>1. /\ th[p].pc \in {"user", "killed"} /\ p \in Threads /\ UNCHANGED <<mem, pt, sz>>
      /\ st' = [st EXCEPT ![p] = "zombie"] /\ th' = [th EXCEPT ![p] = User]
  BY DEF Exit, InUser, GoTo, Threads
<1>2. st[p] = "live" /\ th[p].ret = "none" /\ th[p].tgt = NoProc
  BY <1>1 DEF Exit, InUser, IInv, ThreadOK, Alive, ShapeOK, QuietPcs
<1>3. th'[p] = User /\ \A r \in Threads \ {p} : th'[r] = th[r]
  BY <1>1, Moved
<1>4. st'[p] = "zombie" /\ \A q \in Procs \ {p} : st'[q] = st[q]
  BY <1>1 DEF IInv, TypeOK
<1>5. Knows(p)'
  BY <1>3, <1>4, UserFields DEF Knows, PlaceOK, PresentOK, ChildOK, ZeroOK
<1>6. \A q \in Procs \ {p} : ProcessKept(q)
  BY <1>1, <1>4 DEF ProcessKept
<1> QED BY <1>1, <1>2, <1>3, <1>4, <1>5, <1>6, Working

(* wait() begins to free a zombie.                                         *)
LEMMA WaitKnows ==
  ASSUME IInv, Presence, NEW p \in Threads, NEW c \in Procs, Wait(p, c), IInv'
  PROVE  /\ Touches(p, {c}) /\ Presence' /\ c # p /\ st[c] # "live" /\ st'[c] # "live"
         /\ UNCHANGED <<pt, sz, st, mem>>
         /\ th[p] = User /\ th'[p].pc = "unmap" /\ th'[p].ret = "uvmfree"
         /\ th'[p].caller = "none"
<1>1. /\ th[p].pc = "user" /\ Knows(p) /\ st[c] = "zombie"
      /\ p \in Procs => InUser(p)
      /\ UNCHANGED <<mem, pt, sz, st>>
  BY DEF Wait, Presence
<1>2. th[p] = User /\ c # p
  BY <1>1 DEF Knows, PlaceOK, InUser
<1>3. PICK t : t = Unmapping(User, c, 0, sz[c], "uvmfree")
  OBVIOUS
<1>4. th' = [th EXCEPT ![p] = t]
  BY <1>3 DEF Wait, GoTo
<1>5. t.pc = "unmap" /\ t.ret = "uvmfree" /\ t.caller = "none" /\ t.tgt = c
  BY <1>3 DEF Unmapping, User
<1>6. Touches(p, {c}) /\ th'[p] = t
  BY <1>1, <1>4, Along
<1>7. ASSUME p \in Procs PROVE PresentOK(p)'
  BY <1>1, <1>5, <1>6, <1>7, AtRest DEF PresentOK, Size, Shrinking
<1>8. Knows(p)'
  BY <1>5, <1>6, <1>7, KnowsPlain
<1>9. \A q \in {c} \ {p} : PresentOK(q)'
  BY <1>1 DEF PresentOK
<1>10. ASSUME NEW r \in Threads \ {p}, th[r].pc # "user"
       PROVE  {r, th[r].tgt} \cap ({c} \cup {p}) \cap Procs = {}
  <2>1. {r, th[r].tgt} \cap {p, th[p].tgt} \cap Procs = {}
    BY <1>1, <1>10, Disjoint DEF InUser
  <2>2. r # c
    BY <1>1, <1>10 DEF IInv, ThreadOK, Alive
  <2>3. th[r].tgt # c
    <3>1. th'[p].tgt # NoProc => th'[p].tgt # th'[r].tgt
      BY DEF IInv, TargetsDiffer
    <3> QED BY <1>5, <1>6, <3>1 DEF Touches
  <2> QED BY <2>1, <2>2, <2>3
<1>11. Presence'
  BY <1>6, <1>8, <1>9, <1>10, OthersKnow
<1> QED BY <1>1, <1>2, <1>5, <1>6, <1>11

-----------------------------------------------------------------------------
(* sbrk().                                                                 *)

LEMMA GrowKnows ==
  ASSUME IInv, Presence, NEW p \in Procs, NEW n, Grow(p, n)
  PROVE  /\ Touches(p, {th[p].tgt} \cap Procs) /\ Presence'
         /\ UNCHANGED <<mem, pt, sz, st>>
         /\ th'[p].pc = "uvmalloc" /\ th'[p].ret = "none" /\ th'[p].caller = "none"
<1>1. InUser(p) /\ UNCHANGED <<mem, pt, sz, st>>
  BY DEF Grow
<1>2. /\ p \in Threads /\ st[p] = "live" /\ th[p] = User /\ Size(p) = sz[p]
      /\ \A v \in VPages : v < sz[p] => Valid(pt[p][v])
  BY <1>1, AtRest
<1>3. PICK t : t = [User EXCEPT !.pc = "uvmalloc", !.v = sz[p], !.lo = sz[p], !.end = n]
  OBVIOUS
<1>4. th' = [th EXCEPT ![p] = t]
  BY <1>3 DEF Grow, GoTo
<1>5. t.pc = "uvmalloc" /\ t.ret = "none" /\ t.caller = "none" /\ t.v = sz[p]
  BY <1>3 DEF User
<1>6. th'[p] = t /\ \A r \in Threads \ {p} : th'[r] = th[r]
  BY <1>2, <1>4, Moved
<1>7. PresentOK(p)'
  BY <1>1, <1>2, <1>5, <1>6 DEF PresentOK, Size, Shrinking
<1>8. ZeroOK(p)'
  <2>1. \A v \in VPages : ~(sz[p] <= v /\ v < sz[p])
    BY DEF VPages, IInv, TypeOK
  <2> QED BY <1>1, <1>5, <1>6, <2>1 DEF ZeroOK
<1>9. Knows(p)'
  BY <1>5, <1>6, <1>7, <1>8 DEF Knows, PlaceOK, ChildOK
<1>10. (\A q \in Procs : ProcessKept(q)) /\ th[p].tgt = NoProc
  BY <1>1, <1>2, UserFields DEF ProcessKept
<1> QED BY <1>1, <1>2, <1>5, <1>6, <1>9, <1>10, Working

LEMMA ShrinkKnows ==
  ASSUME IInv, Presence, NEW p \in Procs, NEW n, Shrink(p, n), n \in 0..MaxSz
  PROVE  /\ Touches(p, {th[p].tgt} \cap Procs) /\ Presence'
         /\ UNCHANGED <<mem, pt, sz, st>> /\ InUser(p) /\ n < sz[p]
         /\ th'[p].pc = "unmap" /\ th'[p].ret = "sbrk" /\ th'[p].caller = "none"
         /\ th'[p].lo = n
<1>1. InUser(p) /\ UNCHANGED <<mem, pt, sz, st>> /\ n < sz[p]
  BY DEF Shrink
<1>2. /\ p \in Threads /\ st[p] = "live" /\ th[p] = User /\ Size(p) = sz[p]
      /\ \A v \in VPages : v < sz[p] => Valid(pt[p][v])
  BY <1>1, AtRest
<1>3. PICK t : t = Unmapping(User, p, n, sz[p], "sbrk")
  OBVIOUS
<1>4. th' = [th EXCEPT ![p] = t]
  BY <1>3 DEF Shrink, GoTo
<1>5. t.pc = "unmap" /\ t.ret = "sbrk" /\ t.caller = "none" /\ t.lo = n
  BY <1>3 DEF Unmapping, User
<1>6. th'[p] = t /\ \A r \in Threads \ {p} : th'[r] = th[r]
  BY <1>2, <1>4, Moved
<1>7. PresentOK(p)'
  <2>1. \A v \in VPages : v < n => v < sz[p]
    BY <1>1 DEF VPages, IInv, TypeOK
  <2> QED BY <1>1, <1>2, <1>5, <1>6, <2>1 DEF PresentOK, Size, Shrinking
<1>8. Knows(p)'
  BY <1>2, <1>5, <1>6, <1>7, KnowsPlain
<1>9. (\A q \in Procs : ProcessKept(q)) /\ th[p].tgt = NoProc
  BY <1>1, <1>2, UserFields DEF ProcessKept
<1> QED BY <1>1, <1>2, <1>5, <1>6, <1>8, <1>9, Working

(* uvmalloc, and where it returns to.                                      *)
LEMMA AtUvmalloc ==
  ASSUME IInv, Presence, NEW p \in Procs,
         th[p].pc = "uvmalloc" \/ (th[p].pc = "unmap" /\ th[p].ret = "uvmalloc")
  PROVE  /\ p \in Threads /\ st[p] = "live" /\ th[p].tgt \in {NoProc, p}
         /\ th[p].caller = "none" /\ Size(p) = sz[p]
         /\ th[p].pc = "uvmalloc" => th[p].ret = "none" /\ sz[p] <= th[p].v
         /\ \A v \in VPages : v < sz[p] => Valid(pt[p][v])
<1>1. p \in Threads /\ ThreadOK(p) /\ Knows(p) /\ th[p] \in Locals
  BY DEF IInv, TypeOK, Threads, Presence
<1>2. st[p] = "live" /\ th[p].tgt \in {NoProc, p}
  BY <1>1 DEF ThreadOK, Alive, ShapeOK, QuietPcs, UnmapOK, Unmapper, RetOK
<1>3. th[p].pc = "uvmalloc" => th[p].ret = "none" /\ sz[p] <= th[p].v
  BY <1>1 DEF ThreadOK, ShapeOK, QuietPcs, GrowOK
<1>4. th[p].caller = "none"
  BY <1>1, <1>3 DEF Knows, PlaceOK, Locals
<1>5. Size(p) = sz[p] /\ \A v : ~LetGo(p, v)
  BY <1>3, <1>4 DEF Size, Shrinking, LetGo
<1> QED BY <1>1, <1>2, <1>3, <1>4, <1>5 DEF Knows, PresentOK

LEMMA UvmallocPageKnows ==
  ASSUME IInv, Presence, NEW p \in Procs, NEW f \in Frames, UvmallocPage(p, f), IInv'
  PROVE  /\ Touches(p, {th[p].tgt} \cap Procs) /\ Presence'
         /\ UNCHANGED <<sz, st>>
         /\ th'[p].pc = "uvmalloc" /\ th'[p].ret = "none" /\ th'[p].caller = "none"
         /\ \A v \in VPages : v < sz[p] => pt'[p][v] = pt[p][v]
         /\ \A v \in VPages : Valid(pt[p][v]) => mem'[pt[p][v].pa] = mem[pt[p][v].pa]
<1>1. /\ th[p].pc = "uvmalloc" /\ th[p].v < th[p].end
      /\ PopFrame(f) /\ mem' = [mem EXCEPT ![f] = Zero] /\ UNCHANGED <<sz, st>>
  BY DEF UvmallocPage, Growing, Fill
<1>2. /\ p \in Threads /\ st[p] = "live" /\ th[p].tgt \in {NoProc, p} /\ th[p].ret = "none"
      /\ th[p].caller = "none" /\ Size(p) = sz[p] /\ sz[p] <= th[p].v
      /\ \A w \in VPages : w < sz[p] => Valid(pt[p][w])
  BY <1>1, AtUvmalloc
<1>3. PICK v \in VPages : v = th[p].v
  <2>1. th[p].v \in 0..MaxSz /\ th[p].end \in 0..MaxSz
    BY <1>2 DEF IInv, TypeOK, Locals
  <2> QED BY <1>1, <2>1 DEF VPages
<1>4. PICK t : t = [th[p] EXCEPT !.v = @ + 1]
  OBVIOUS
<1>5. pt' = [pt EXCEPT ![p][v] = FreshPte(f)] /\ th' = [th EXCEPT ![p] = t]
  <2>1. panicked' # "mappages: remap"
    BY DEF IInv, CountsNeverPanic
  <2> QED BY <1>3, <1>4, <2>1 DEF UvmallocPage, GoTo
<1>6. t.pc = "uvmalloc" /\ t.ret = "none" /\ t.caller = "none" /\ t.v = v + 1
  BY <1>1, <1>2, <1>3, <1>4 DEF IInv, TypeOK, Locals
<1>7. th'[p] = t /\ \A r \in Threads \ {p} : th'[r] = th[r]
  BY <1>2, <1>5, Moved
<1>8. PICK e : e = FreshPte(f) /\ e.pa = f
  BY NewPte
<1>9. /\ \A w \in VPages : pt'[p][w] = IF w = v THEN e ELSE pt[p][w]
      /\ \A q \in Procs \ {p} : pt'[q] = pt[q]
  BY <1>5, <1>8 DEF IInv, TypeOK
<1>10. \A q \in Procs, w \in VPages : pt[q][w].pa # f
  <2>1. Mappings(f) = {}
    BY <1>1, Popped
  <2> QED BY <2>1, MappingsDef
<1>11. \A q \in Procs, w \in VPages : Valid(pt[q][w]) => mem'[pt[q][w].pa] = mem[pt[q][w].pa]
  BY <1>1, <1>10, NotMapped
<1>12. \A q \in Procs \ {p} : ProcessKept(q)
  BY <1>1, <1>9, <1>11 DEF ProcessKept
<1>13. \A w \in VPages : w < sz[p] => pt'[p][w] = pt[p][w]
  <2>1. \A w \in VPages : w < sz[p] => w # v
    BY <1>2, <1>3 DEF VPages, IInv, TypeOK
  <2> QED BY <1>9, <2>1
<1>14. PresentOK(p)'
  BY <1>1, <1>2, <1>6, <1>7, <1>13 DEF PresentOK, Size, Shrinking
<1>15. ZeroOK(p)'
  <2>1. ASSUME NEW w \in VPages, sz[p] <= w, w < v + 1
        PROVE  Valid(pt'[p][w]) /\ mem'[pt'[p][w].pa] = Zero
    <3>1. CASE w = v
      <4>1. pt'[p][w].pa = f /\ mem'[f] = Zero
        BY <1>1, <1>8, <1>9, <3>1 DEF IInv, TypeOK
      <4> QED BY <4>1 DEF Valid
    <3>2. CASE w # v
      <4>1. w < v
        BY <2>1, <3>2 DEF VPages
      <4>2. Valid(pt[p][w]) /\ mem[pt[p][w].pa] = Zero
        BY <1>1, <1>2, <1>3, <2>1, <4>1 DEF Presence, Knows, ZeroOK
      <4> QED BY <1>9, <1>11, <3>2, <4>2
    <3> QED BY <3>1, <3>2
  <2> QED BY <1>1, <1>6, <1>7, <2>1 DEF ZeroOK
<1>16. Knows(p)'
  BY <1>6, <1>7, <1>14, <1>15 DEF Knows, PlaceOK, ChildOK
<1> QED BY <1>1, <1>2, <1>6, <1>7, <1>11, <1>12, <1>13, <1>16, Working

(* The two error paths of uvmalloc.                                        *)
LEMMA UvmallocFails ==
  ASSUME IInv, Presence, NEW p \in Procs, th[p].pc = "uvmalloc", NEW t,
         th' = [th EXCEPT ![p] = t], t.pc \in {"unmap", "kfree"},
         t.ret \in {"none", "uvmalloc"}, t.caller = "none",
         UNCHANGED <<pt, sz, st>>,
         \A q \in Procs, v \in VPages : Valid(pt[q][v]) => mem'[pt[q][v].pa] = mem[pt[q][v].pa]
  PROVE  /\ Touches(p, {th[p].tgt} \cap Procs) /\ Presence'
         /\ th'[p].pc # "killed" /\ th'[p].ret # "sbrk" /\ th'[p].caller = "none"
<1>1. /\ p \in Threads /\ st[p] = "live" /\ th[p].tgt \in {NoProc, p}
      /\ Size(p) = sz[p] /\ \A w \in VPages : w < sz[p] => Valid(pt[p][w])
  BY AtUvmalloc
<1>2. th'[p] = t /\ \A r \in Threads \ {p} : th'[r] = th[r]
  BY <1>1, Moved
<1>3. PresentOK(p)'
  BY <1>1, <1>2 DEF PresentOK, Size, Shrinking
<1>4. Knows(p)'
  BY <1>1, <1>2, <1>3, KnowsPlain
<1>5. \A q \in Procs : ProcessKept(q)
  BY DEF ProcessKept
<1> QED BY <1>1, <1>2, <1>4, <1>5, Working

LEMMA UvmallocNoMemoryKnows ==
  ASSUME IInv, Presence, NEW p \in Procs, UvmallocNoMemory(p)
  PROVE  /\ Touches(p, {th[p].tgt} \cap Procs) /\ Presence'
         /\ UNCHANGED <<mem, pt, sz, st>>
         /\ th'[p].pc # "killed" /\ th'[p].ret # "sbrk" /\ th'[p].caller = "none"
<1>1. th[p].pc = "uvmalloc" /\ UNCHANGED <<mem, pt, sz, st>>
  BY DEF UvmallocNoMemory, Growing
<1>2. PICK t : t = Unmapping(th[p], p, sz[p], th[p].v, "uvmalloc")
  OBVIOUS
<1>3. th' = [th EXCEPT ![p] = t]
  BY <1>2 DEF UvmallocNoMemory, GoTo
<1>4. t.pc = "unmap" /\ t.ret = "uvmalloc" /\ t.caller = "none"
  <2>1. th[p] \in Locals /\ th[p].caller = "none"
    BY <1>1, AtUvmalloc DEF IInv, TypeOK
  <2> QED BY <1>2, <2>1 DEF Unmapping, Locals
<1> QED BY <1>1, <1>3, <1>4, UvmallocFails

LEMMA UvmallocFailKnows ==
  ASSUME IInv, Presence, NEW p \in Procs, NEW f \in Frames, UvmallocFail(p, f)
  PROVE  /\ Touches(p, {th[p].tgt} \cap Procs) /\ Presence'
         /\ UNCHANGED <<pt, sz, st>>
         /\ \A v \in VPages : Valid(pt[p][v]) => mem'[pt[p][v].pa] = mem[pt[p][v].pa]
         /\ th'[p].pc # "killed" /\ th'[p].ret # "sbrk" /\ th'[p].caller = "none"
<1>1. /\ th[p].pc = "uvmalloc" /\ UNCHANGED <<pt, sz, st>>
      /\ PopFrame(f) /\ mem' = [mem EXCEPT ![f] = Zero]
  BY DEF UvmallocFail, Growing, Fill
<1>2. PICK t : t = [th[p] EXCEPT !.pc = "kfree", !.pa = f, !.kret = "uvmalloc"]
  OBVIOUS
<1>3. th' = [th EXCEPT ![p] = t]
  BY <1>2 DEF UvmallocFail, GoTo
<1>4. t.pc = "kfree" /\ t.ret = "none" /\ t.caller = "none"
  <2>1. th[p] \in Locals /\ th[p].caller = "none" /\ th[p].ret = "none"
    BY <1>1, AtUvmalloc DEF IInv, TypeOK
  <2> QED BY <1>2, <2>1 DEF Locals
<1>5. \A q \in Procs, w \in VPages : pt[q][w].pa # f
  <2>1. Mappings(f) = {}
    BY <1>1, Popped
  <2> QED BY <2>1, MappingsDef
<1>6. \A q \in Procs, w \in VPages : Valid(pt[q][w]) => mem'[pt[q][w].pa] = mem[pt[q][w].pa]
  BY <1>1, <1>5, NotMapped
<1> QED BY <1>1, <1>3, <1>4, <1>6, UvmallocFails

(* sbrk() is done.                                                         *)
LEMMA SbrkDone ==
  ASSUME IInv, Presence, NEW p \in Procs, st[p] = "live", th[p].tgt \in {NoProc, p},
         th' = [th EXCEPT ![p] = User], UNCHANGED <<mem, pt, st>>,
         \A q \in Procs \ {p} : sz'[q] = sz[q],
         \A v \in VPages : v < sz'[p] => Valid(pt[p][v])
  PROVE  Touches(p, {th[p].tgt} \cap Procs) /\ Presence' /\ th'[p] = User
<1>1. p \in Threads
  BY DEF Threads
<1>2. th'[p] = User /\ \A r \in Threads \ {p} : th'[r] = th[r]
  BY <1>1, Moved
<1>3. Knows(p)'
  BY <1>2, ToUser
<1>4. \A q \in Procs \ {p} : ProcessKept(q)
  BY DEF ProcessKept
<1> QED BY <1>1, <1>2, <1>3, <1>4, Working

LEMMA GrowDoneKnows ==
  ASSUME IInv, Presence, NEW p \in Procs, GrowDone(p)
  PROVE  /\ Touches(p, {th[p].tgt} \cap Procs) /\ Presence' /\ th'[p] = User
         /\ UNCHANGED <<mem, pt, st>> /\ st[p] = "live" /\ th[p].pc # "killed"
         /\ sz[p] <= sz'[p] /\ sz'[p] \in 0..MaxSz
         /\ Size(p) = sz[p] /\ \A v \in VPages : v < sz'[p] => Valid(pt[p][v])
         /\ \A v \in VPages : sz[p] <= v /\ v < sz'[p] => mem[pt[p][v].pa] = Zero
<1>1. /\ th[p].pc = "uvmalloc" /\ th[p].v = th[p].end /\ UNCHANGED <<mem, pt, st>>
      /\ sz' = [sz EXCEPT ![p] = th[p].end] /\ th' = [th EXCEPT ![p] = User]
  BY DEF GrowDone, GoTo
<1>2. /\ st[p] = "live" /\ th[p].tgt \in {NoProc, p} /\ Size(p) = sz[p] /\ sz[p] <= th[p].v
      /\ p \in Threads /\ \A w \in VPages : w < sz[p] => Valid(pt[p][w])
  BY <1>1, AtUvmalloc
<1>3. /\ sz'[p] = th[p].v /\ th[p].v \in 0..MaxSz /\ sz[p] \in 0..MaxSz
      /\ \A q \in Procs \ {p} : sz'[q] = sz[q]
  BY <1>1, <1>2 DEF IInv, TypeOK, Locals
<1>4. \A v \in VPages : sz[p] <= v /\ v < sz'[p] => Valid(pt[p][v]) /\ mem[pt[p][v].pa] = Zero
  BY <1>1, <1>2, <1>3 DEF Presence, Knows, ZeroOK
<1>5. \A v \in VPages : v < sz'[p] => Valid(pt[p][v])
  BY <1>2, <1>3, <1>4 DEF VPages
<1>6. Touches(p, {th[p].tgt} \cap Procs) /\ Presence' /\ th'[p] = User
  BY <1>1, <1>2, <1>3, <1>5, SbrkDone
<1> QED BY <1>1, <1>2, <1>3, <1>4, <1>5, <1>6

LEMMA ShrinkDoneKnows ==
  ASSUME IInv, Presence, NEW p \in Procs, ShrinkDone(p)
  PROVE  /\ Touches(p, {th[p].tgt} \cap Procs) /\ Presence' /\ th'[p] = User
         /\ UNCHANGED <<mem, pt, st>> /\ st[p] = "live" /\ th[p].pc # "killed"
         /\ sz'[p] = Size(p) /\ th[p].caller = "none"
<1>1. /\ th[p].pc = "unmap" /\ th[p].ret = "sbrk" /\ UNCHANGED <<mem, pt, st>>
      /\ sz' = [sz EXCEPT ![p] = th[p].lo] /\ th' = [th EXCEPT ![p] = User]
      /\ p \in Threads /\ Knows(p)
  BY DEF ShrinkDone, Unmapped, GoTo, Threads, Presence
<1>2. st[p] = "live" /\ th[p].tgt = p
  BY <1>1, UnmappingThread DEF UnmapOK, Unmapper, RetOK
<1>3. Size(p) = th[p].lo /\ sz'[p] = th[p].lo /\ \A q \in Procs \ {p} : sz'[q] = sz[q]
  BY <1>1 DEF Size, Shrinking, IInv, TypeOK
<1>4. th[p].caller = "none"
  BY <1>1 DEF Knows, PlaceOK, IInv, TypeOK, Locals
<1>5. \A v \in VPages : v < sz'[p] => Valid(pt[p][v])
  BY <1>1, <1>2, <1>3, <1>4 DEF Knows, PresentOK, LetGo
<1>6. Touches(p, {th[p].tgt} \cap Procs) /\ Presence' /\ th'[p] = User
  BY <1>1, <1>2, <1>3, <1>5, SbrkDone
<1> QED BY <1>1, <1>2, <1>3, <1>4, <1>6

LEMMA GrowFailedKnows ==
  ASSUME IInv, Presence, NEW p \in Procs, GrowFailed(p)
  PROVE  /\ Touches(p, {th[p].tgt} \cap Procs) /\ Presence' /\ th'[p] = User
         /\ UNCHANGED <<mem, pt, sz, st>> /\ st[p] = "live" /\ th[p].pc # "killed"
         /\ sz[p] = Size(p) /\ th[p].caller = "none"
<1>1. /\ th[p].pc = "unmap" /\ th[p].ret = "uvmalloc" /\ UNCHANGED <<mem, pt, sz, st>>
      /\ th' = [th EXCEPT ![p] = User]
  BY DEF GrowFailed, Unmapped, GoTo
<1> QED BY <1>1, AtUvmalloc, SbrkDone

-----------------------------------------------------------------------------
(* The pages are there after boot, and every step keeps them.              *)

LEMMA PresenceInit == Init => Presence
<1> SUFFICES ASSUME Init, NEW r \in Threads PROVE Knows(r)
  BY DEF Presence
<1>1. PICK p \in Procs, page \in Bijection(1..Cardinality(Frames), Frames) :
        /\ pt = [q \in Procs |-> [v \in VPages |->
                   IF q = p /\ v < InitSz
                   THEN [FreshPte(page[v + 1]) EXCEPT !.u = v \notin GuardPages]
                   ELSE NoPte]]
        /\ sz = [q \in Procs |-> IF q = p THEN InitSz ELSE 0]
        /\ st = [q \in Procs |-> IF q = p THEN "live" ELSE "unused"]
        /\ th = [q \in Threads |-> User]
  BY DEF Init
<1>2. th[r] = User
  BY <1>1
<1>3. ASSUME r \in Procs PROVE PresentOK(r)
  <2>1. CASE r # p
    BY <1>1, <1>3, <2>1 DEF PresentOK
  <2>2. CASE r = p
    <3>1. Size(r) = InitSz
      BY <1>1, <1>2, <2>2, UserFields DEF Size, Shrinking
    <3>2. ASSUME NEW v \in VPages, v < InitSz PROVE Valid(pt[r][v])
      <4>1. page[v + 1] \in Frames
        <5>1. v + 1 \in 1..Cardinality(Frames)
          BY <3>2, FS_CardinalityType DEF VPages
        <5>2. page \in [1..Cardinality(Frames) -> Frames]
          BY DEF Bijection, Injection
        <5> QED BY <5>1, <5>2
      <4>2. PICK e \in PteType : e = FreshPte(page[v + 1]) /\ e.pa = page[v + 1]
        BY <4>1, NewPte
      <4>3. pt[r][v] = [e EXCEPT !.u = v \notin GuardPages]
        BY <1>1, <2>2, <3>2, <4>2
      <4>4. pt[r][v].pa = e.pa
        BY <4>3 DEF PteType
      <4> QED BY <4>1, <4>2, <4>4 DEF Valid
    <3> QED BY <3>1, <3>2 DEF PresentOK
  <2> QED BY <2>1, <2>2
<1> QED BY <1>2, <1>3, UserFields DEF Knows, PlaceOK, ChildOK, ZeroOK

LEMMA NoCopyout ==
  ASSUME Presence, NEW p \in Procs, NEW d
  PROVE  ~CopyoutWrite(p, d)
BY DEF CopyoutWrite, Presence, Knows, PlaceOK, Threads

LEMMA PresenceStep ==
  ASSUME IInv, Presence, IInv', OutPages = {}, PagesPresent, Next
  PROVE  Presence' /\ PagesPresent'
<1>1. ASSUME NEW p \in Procs, CowStep(p) PROVE Presence'
  BY <1>1, CowRefuseKnows, CowInPlaceKnows, CowLetGoKnows, CowNoMemoryKnows, CowAllocKnows,
     CowCopyKnows DEF CowStep
<1>2. ASSUME NEW p \in Procs, ForkStep(p) PROVE Presence'
  <2>1. ~UvmcopyPanic(p)
    BY ParentIsThere DEF UvmcopyPanic
  <2>2. ForkFailed(p) => Presence'
    BY FreeProcKnows DEF ForkFailed, Unmapped, Threads
  <2>3. ForkDone(p) => Presence'
    BY ForkDoneKnows
  <2> QED BY <1>2, <2>1, <2>2, <2>3, ForkKnows, UvmcopyPageKnows, UvmcopyFailKnows DEF ForkStep
<1>3. ASSUME NEW p \in Procs, SbrkStep(p) PROVE Presence'
  BY <1>3, GrowKnows, ShrinkKnows, UvmallocPageKnows, UvmallocNoMemoryKnows, UvmallocFailKnows,
     GrowDoneKnows, ShrinkDoneKnows, GrowFailedKnows DEF SbrkStep
<1>4. ASSUME NEW p \in Procs, ProcStep(p) PROVE Presence'
  BY <1>1, <1>2, <1>3, <1>4, StoreKnows, StoreFaultKnows, NoCopyout, ExitKnows DEF ProcStep
<1>5. ASSUME NEW p \in Threads, UnmapStep(p) PROVE Presence'
  <2>1. KfreeShared(p) => Presence'
    BY KfreeReturnsKnows DEF KfreeShared
  <2>2. KfreePush(p) => Presence'
    BY KfreeReturnsKnows DEF KfreePush
  <2> QED BY <1>5, <2>1, <2>2, UnmapSkipKnows, KfreeLastKnows DEF UnmapStep
<1>6. ASSUME NEW p \in Threads, WaitStep(p) PROVE Presence'
  <2>1. Waited(p) => Presence'
    BY FreeProcKnows DEF Waited, Unmapped
  <2> QED BY <1>6, <2>1, WaitKnows DEF WaitStep
<1>7. Presence'
  BY <1>4, <1>5, <1>6 DEF Next
<1>8. panicked' # "uvmcopy: page not present"
  <2> SUFFICES ASSUME panicked' = "uvmcopy: page not present" PROVE FALSE
    OBVIOUS
  <2>1. panicked' # panicked
    BY DEF PagesPresent
  <2>2. ASSUME NEW p \in Procs, ProcStep(p) PROVE FALSE
    <3>1. ~CowStep(p)
      BY <2>1 DEF CowStep, CowRefuse, CowInPlace, CowLetGo, CowNoMemory, CowAlloc, CowCopy, Panic
    <3>2. ~UvmcopyPanic(p)
      BY ParentIsThere DEF UvmcopyPanic
    <3>3. ~ForkStep(p)
      BY <2>1, <3>2 DEF ForkStep, Fork, UvmcopyPage, UvmcopyFail, ForkDone, ForkFailed, FreeProc,
         Panic
    <3>4. ~SbrkStep(p)
      BY <2>1 DEF SbrkStep, Grow, Shrink, UvmallocPage, UvmallocFail, UvmallocNoMemory, GrowDone,
         ShrinkDone, GrowFailed
    <3> QED BY <2>1, <2>2, <3>1, <3>3, <3>4
            DEF ProcStep, Store, StoreFault, Copyout, CopyoutWrite, Exit
  <2>3. ASSUME NEW p \in Threads, UnmapStep(p) PROVE FALSE
    BY <2>1, <2>3 DEF UnmapStep, UnmapSkip, KfreeShared, KfreeLast, KfreePush, Panic
  <2>4. ASSUME NEW p \in Threads, WaitStep(p) PROVE FALSE
    BY <2>1, <2>4 DEF WaitStep, Wait, Waited, FreeProc, Panic
  <2> QED BY <2>2, <2>3, <2>4 DEF Next
<1> QED BY <1>7, <1>8 DEF PagesPresent

LEMMA PresenceNext ==
  IInv /\ IInv' /\ OutPages = {} /\ Presence /\ PagesPresent /\ [Next]_vars =>
    Presence' /\ PagesPresent'
<1> SUFFICES ASSUME IInv, IInv', OutPages = {}, Presence, PagesPresent, [Next]_vars
             PROVE  Presence' /\ PagesPresent'
  OBVIOUS
<1>1. CASE UNCHANGED vars
  <2>1. ASSUME NEW r \in Threads PROVE Knows(r)'
    <3>1. Knows(r)
      BY DEF Presence
    <3> QED BY <1>1, <3>1 DEF vars, Knows, PlaceOK, PresentOK, ChildOK, ZeroOK, Size, Shrinking,
            LetGo
  <2> QED BY <1>1, <2>1 DEF vars, Presence, PagesPresent
<1> QED BY <1>1, PresenceStep

(* A system in which no system call writes to user memory keeps every page *)
(* below p->sz where it is, on any number of harts: after cow() has let a  *)
(* page go, its process runs again with a copy of the page, or is killed,  *)
(* and uvmunmap takes away what sbrk() has given up.  So uvmcopy() never   *)
(* panics.                                                                 *)
THEOREM PagesArePresent == OutPages = {} => (Spec => []PagesPresent)
<1> SUFFICES ASSUME OutPages = {} PROVE Spec => []PagesPresent
  OBVIOUS
<1>1. Init => Presence /\ PagesPresent
  BY PresenceInit DEF Init, PagesPresent
<1>2. IInv /\ IInv' /\ Presence /\ PagesPresent /\ [Next]_vars => Presence' /\ PagesPresent'
  BY PresenceNext
<1> QED BY <1>1, <1>2, Invariance, PTL DEF Spec

-----------------------------------------------------------------------------
(* The images of AddressSpaces.                                            *)

(* The frame that holds page v: the one it is mapped to, or the one that   *)
(* cow() has let go and is going to copy.                                  *)
Behind(q, v) == IF Valid(pt[q][v]) THEN pt[q][v].pa ELSE th[q].pa

HasImage(q) == st[q] = "live" /\ th[q].pc # "killed"

LEMMA SizeIsInt ==
  ASSUME IInv, NEW q \in Procs
  PROVE  Size(q) \in 0..MaxSz
BY DEF Size, IInv, TypeOK, Locals, Threads

LEMMA ImageIs ==
  ASSUME IInv, Presence, NEW q \in Procs
  PROVE  /\ ~HasImage(q) => Image[q] = NoSpace
         /\ HasImage(q) =>
              Image[q] = [v \in VPages |-> IF v < Size(q) THEN mem[Behind(q, v)] ELSE Absent]
<1>1. ~HasImage(q) => Image[q] = NoSpace
  BY DEF Image, HasImage
<1>2. ASSUME HasImage(q), NEW v \in VPages
      PROVE  PageOf(q, v) = IF v < Size(q) THEN mem[Behind(q, v)] ELSE Absent
  <2>1. v < Size(q) \/ v >= Size(q)
    BY SizeIsInt DEF VPages
  <2>2. ~(v < Size(q) /\ v >= Size(q))
    BY SizeIsInt DEF VPages
  <2>3. CASE v >= Size(q)
    BY <2>2, <2>3 DEF PageOf
  <2>4. CASE v < Size(q)
    <3>1. Valid(pt[q][v]) \/ LetGo(q, v)
      BY <1>2, <2>4 DEF Presence, Knows, PresentOK, HasImage, Threads
    <3> QED BY <2>2, <2>4, <3>1 DEF PageOf, Behind
  <2> QED BY <2>1, <2>3, <2>4
<1>3. HasImage(q) => Image[q] = [v \in VPages |-> PageOf(q, v)]
  BY DEF Image, HasImage
<1> QED BY <1>1, <1>2, <1>3

(* The same of the next state.                                             *)
LEMMA ImageWillBe ==
  ASSUME IInv', Presence', NEW q \in Procs
  PROVE  /\ ~HasImage(q)' => Image'[q] = NoSpace
         /\ HasImage(q)' =>
              Image'[q] = [v \in VPages |->
                             IF v < Size(q)' THEN mem'[Behind(q, v)'] ELSE Absent]
<1>0. Size(q)' \in 0..MaxSz
  BY DEF Size, IInv, TypeOK, Locals, Threads
<1>1. ~HasImage(q)' => Image'[q] = NoSpace
  BY DEF Image, HasImage
<1>2. ASSUME HasImage(q)', NEW v \in VPages
      PROVE  PageOf(q, v)' = IF v < Size(q)' THEN mem'[Behind(q, v)'] ELSE Absent
  <2>1. v < Size(q)' \/ v >= Size(q)'
    BY <1>0 DEF VPages
  <2>2. ~(v < Size(q)' /\ v >= Size(q)')
    BY <1>0 DEF VPages
  <2>3. CASE v >= Size(q)'
    BY <2>2, <2>3 DEF PageOf
  <2>4. CASE v < Size(q)'
    <3>1. Valid(pt[q][v])' \/ LetGo(q, v)'
      BY <1>2, <2>4 DEF Presence, Knows, PresentOK, HasImage, Threads
    <3> QED BY <2>2, <2>4, <3>1 DEF PageOf, Behind
  <2> QED BY <2>1, <2>3, <2>4
<1>3. HasImage(q)' => Image'[q] = [v \in VPages |-> PageOf(q, v)']
  BY DEF Image, HasImage
<1> QED BY <1>1, <1>2, <1>3

(* A process that has an image is one that AddressSpaces sees.             *)
LEMMA ImageIsThere ==
  ASSUME IInv, Presence, NEW q \in Procs, HasImage(q)
  PROVE  /\ Image[q] # NoSpace
         /\ \A v \in VPages : v < Size(q) => mem[Behind(q, v)] # Absent
<1>1. \A v \in VPages : v < Size(q) =>
        mem[Behind(q, v)] \in Data \cup {JunkFree, JunkAlloc}
  <2>1. ASSUME NEW v \in VPages, v < Size(q) PROVE Behind(q, v) \in Frames
    <3>1. Valid(pt[q][v]) \/ LetGo(q, v)
      BY <2>1 DEF Presence, Knows, PresentOK, HasImage, Threads
    <3>2. pt[q][v].pa \in Frames \cup {NoFrame} /\ th[q].pa \in Frames \cup {NoFrame}
      BY DEF IInv, TypeOK, PteType, Locals, Threads
    <3> QED BY <3>1, <3>2 DEF Behind, Valid, LetGo
  <2> QED BY <2>1 DEF IInv, TypeOK
<1>2. Image[q] \in [VPages -> Data \cup {JunkFree, JunkAlloc, Absent}]
  <2>1. Image[q] = [v \in VPages |-> IF v < Size(q) THEN mem[Behind(q, v)] ELSE Absent]
    BY ImageIs
  <2>2. \A v \in VPages : (IF v < Size(q) THEN mem[Behind(q, v)] ELSE Absent)
                            \in Data \cup {JunkFree, JunkAlloc, Absent}
    BY <1>1
  <2> QED BY <2>1, <2>2
<1> QED BY <1>1, <1>2, ImagesAssumption

(* The image of a process is the same after a step.                        *)
ImageKept(q) ==
  /\ Size(q)' = Size(q)
  /\ \A v \in VPages : v < Size(q) => mem'[Behind(q, v)'] = mem[Behind(q, v)]

LEMMA SameImage ==
  ASSUME IInv, IInv', Presence, Presence', NEW q \in Procs,
         HasImage(q)' <=> HasImage(q), HasImage(q) => ImageKept(q)
  PROVE  Image'[q] = Image[q]
<1>1. CASE HasImage(q)
  <2>1. Image[q] = [v \in VPages |-> IF v < Size(q) THEN mem[Behind(q, v)] ELSE Absent]
    BY <1>1, ImageIs
  <2>2. Image'[q] = [v \in VPages |->
                       IF v < Size(q)' THEN mem'[Behind(q, v)'] ELSE Absent]
    BY <1>1, ImageWillBe
  <2> QED BY <1>1, <2>1, <2>2 DEF ImageKept
<1>2. CASE ~HasImage(q)
  BY <1>2, ImageIs, ImageWillBe
<1> QED BY <1>1, <1>2

-----------------------------------------------------------------------------
(* One hart: whoever handles a store fault handles it alone.               *)

LEMMA Alone ==
  ASSUME IInv, Presence, NCPU = 1, NEW p \in Threads, CanRun(p), NEW q \in Threads \ {p}
  PROVE  th[q].caller = "none" /\ th[q].ret # "cow"
<1> DEFINE K == {r \in Threads \ {p} : KeepsHart(r)}
<1>1. IsFiniteSet(Threads)
  BY FS_AddElement DEF Threads
<1>2. IsFiniteSet(K)
  BY <1>1, FS_Subset
<1>3. Cardinality(K) \in Nat /\ Cardinality(K) < 1
  BY <1>2, FS_CardinalityType DEF CanRun
<1>4. K = {}
  BY <1>2, <1>3, FS_EmptySet
<1>5. ~KeepsHart(q)
  BY <1>4
<1>6. th[q].caller \in {"none", "fault", "copyout"} /\ PlaceOK(q)
  BY DEF IInv, TypeOK, Locals, Presence, Knows
<1> QED BY <1>5, <1>6 DEF KeepsHart, PlaceOK

(* What a step of p does not touch looks the same.                         *)
LEMMA OthersImages ==
  ASSUME IInv, IInv', Presence, Presence', NCPU = 1, NEW p \in Threads, CanRun(p),
         NEW D, Touches(p, D), NEW q \in Procs \ {p},
         q \notin D \/ (st[q] # "live" /\ st'[q] # "live")
  PROVE  Image'[q] = Image[q] /\ LetGoOK(q)'
<1>1. th'[q] = th[q] /\ th[q].caller = "none" /\ th[q].ret # "cow" /\ q \in Threads
  BY Alone DEF Touches, Threads
<1>2. LetGoOK(q)'
  BY <1>1 DEF LetGoOK
<1>3. CASE q \notin D
  <2>1. ProcessKept(q)
    BY <1>3 DEF Touches
  <2>2. HasImage(q)' <=> HasImage(q)
    BY <1>1, <2>1 DEF HasImage, ProcessKept
  <2>3. ASSUME HasImage(q) PROVE ImageKept(q)
    <3>1. Size(q)' = Size(q)
      BY <1>1, <2>1 DEF Size, Shrinking, ProcessKept
    <3>2. \A v \in VPages : v < Size(q) => Valid(pt[q][v])
      BY <1>1, <2>3 DEF Presence, Knows, PresentOK, HasImage, LetGo
    <3> QED BY <2>1, <3>1, <3>2 DEF ImageKept, Behind, ProcessKept
  <2> QED BY <1>2, <2>2, <2>3, SameImage
<1>4. CASE st[q] # "live" /\ st'[q] # "live"
  BY <1>2, <1>4, SameImage DEF HasImage
<1> QED BY <1>3, <1>4

(* A step after which all images are what they were.                       *)
LEMMA Unseen ==
  ASSUME IInv, IInv', Presence, Presence', NCPU = 1, NEW p \in Threads, CanRun(p),
         NEW D, Touches(p, D), \A q \in D \ {p} : st[q] # "live" /\ st'[q] # "live",
         p \in Procs =>
           /\ HasImage(p)' <=> HasImage(p)
           /\ HasImage(p) => ImageKept(p)
           /\ LetGoOK(p)'
  PROVE  OldPageKept' /\ Image' = Image
<1>1. \A q \in Procs \ {p} : Image'[q] = Image[q] /\ LetGoOK(q)'
  BY OthersImages
<1>2. p \in Procs => Image'[p] = Image[p]
  BY SameImage
<1>3. \A q \in Procs : Image'[q] = Image[q]
  BY <1>1, <1>2
<1>4. Image' = Image
  BY <1>3 DEF Image
<1>5. OldPageKept'
  BY <1>1 DEF OldPageKept
<1> QED BY <1>4, <1>5

OneHart(p) ==
  /\ IInv /\ IInv' /\ Presence /\ Presence' /\ OldPageKept
  /\ NCPU = 1 /\ CanRun(p)

LEMMA Targets ==
  ASSUME IInv, NEW p \in Threads,
         \A c \in Procs \ {p} : th[p].tgt = c => st'[c] \in {st[c], "unused"}
  PROVE  \A q \in ({th[p].tgt} \cap Procs) \ {p} : st[q] # "live" /\ st'[q] # "live"
<1> SUFFICES ASSUME NEW q \in Procs \ {p}, th[p].tgt = q
             PROVE  st[q] # "live" /\ st'[q] # "live"
  OBVIOUS
<1>1. st[q] # "live" /\ st'[q] \in {st[q], "unused"}
  BY TargetIsNotLive
<1> QED BY <1>1

(* ... which it is when the thread goes on in the same process.            *)
LEMMA UnseenStep ==
  ASSUME NEW p \in Threads, OneHart(p),
         Touches(p, {th[p].tgt} \cap Procs),
         \A c \in Procs \ {p} : th[p].tgt = c => st'[c] \in {st[c], "unused"},
         p \in Procs =>
           /\ HasImage(p)' <=> HasImage(p)
           /\ HasImage(p) => ImageKept(p)
           /\ LetGoOK(p)'
  PROVE  OldPageKept' /\ Image' = Image
<1>1. \A q \in ({th[p].tgt} \cap Procs) \ {p} : st[q] # "live" /\ st'[q] # "live"
  BY Targets DEF OneHart
<1> HIDE DEF HasImage, ImageKept
<1> QED BY <1>1, Unseen DEF OneHart

(* A step after which only the image of p is another one.                  *)
LEMMA OneImage ==
  ASSUME NEW p \in Procs, OneHart(p), Touches(p, {th[p].tgt} \cap Procs),
         \A c \in Procs \ {p} : th[p].tgt = c => st'[c] \in {st[c], "unused"},
         th'[p].ret # "cow"
  PROVE  OldPageKept' /\ Image' = [Image EXCEPT ![p] = Image'[p]]
<1>1. p \in Threads
  BY DEF Threads
<1>2. \A q \in ({th[p].tgt} \cap Procs) \ {p} : st[q] # "live" /\ st'[q] # "live"
  BY <1>1, Targets DEF OneHart
<1>3. \A q \in Procs \ {p} : Image'[q] = Image[q] /\ LetGoOK(q)'
  BY <1>1, <1>2, OthersImages DEF OneHart
<1>4. LetGoOK(p)'
  BY DEF LetGoOK
<1>5. OldPageKept'
  BY <1>3, <1>4 DEF OldPageKept
<1>6. DOMAIN Image = Procs /\ DOMAIN Image' = Procs
  BY DEF Image
<1>7. Image' = [q \in Procs |-> Image'[q]]
  BY DEF Image
<1>8. Image' = [Image EXCEPT ![p] = Image'[p]]
  BY <1>3, <1>6, <1>7
<1> QED BY <1>5, <1>8

(* The pages of p stay mapped where they are.                              *)
LEMMA PlainKept ==
  ASSUME IInv, Presence, NEW p \in Procs, st[p] = "live", st'[p] = "live",
         th[p].pc # "killed", th'[p].pc # "killed",
         th[p].caller = "none" \/ th[p].pa = NoFrame,
         Size(p)' = Size(p),
         \A v \in VPages : v < Size(p) => pt'[p][v].pa = pt[p][v].pa,
         \A v \in VPages : v < Size(p) /\ Valid(pt[p][v]) => mem'[pt[p][v].pa] = mem[pt[p][v].pa]
  PROVE  HasImage(p)' /\ HasImage(p) /\ ImageKept(p)
<1>1. \A v \in VPages : v < Size(p) => Valid(pt[p][v])
  BY DEF Presence, Knows, PresentOK, LetGo, Threads
<1>2. \A v \in VPages : v < Size(p) => Behind(p, v) = pt[p][v].pa /\ Behind(p, v)' = pt[p][v].pa
  BY <1>1 DEF Behind, Valid
<1> QED BY <1>1, <1>2 DEF HasImage, ImageKept

LEMMA PlainStep ==
  ASSUME NEW p \in Procs, OneHart(p), Touches(p, {th[p].tgt} \cap Procs),
         \A c \in Procs \ {p} : th[p].tgt = c => st'[c] \in {st[c], "unused"},
         st[p] = "live", st'[p] = "live", th[p].pc # "killed", th'[p].pc # "killed",
         th[p].caller = "none" \/ th[p].pa = NoFrame, Size(p)' = Size(p),
         \A v \in VPages : v < Size(p) => pt'[p][v].pa = pt[p][v].pa,
         \A v \in VPages : v < Size(p) /\ Valid(pt[p][v]) => mem'[pt[p][v].pa] = mem[pt[p][v].pa],
         th'[p].ret # "cow"
  PROVE  OldPageKept' /\ Image' = Image
<1>1. p \in Threads /\ LetGoOK(p)'
  BY DEF Threads, LetGoOK
<1>2. HasImage(p)' /\ HasImage(p) /\ ImageKept(p)
  BY PlainKept DEF OneHart
<1> QED BY <1>1, <1>2, UnseenStep

(* A process that goes has no image any more.                              *)
LEMMA Gone ==
  ASSUME NEW p \in Procs, OneHart(p), Touches(p, {th[p].tgt} \cap Procs),
         UNCHANGED st \/ th[p].tgt = NoProc,
         HasImage(p), ~HasImage(p)', th'[p].ret # "cow"
  PROVE  OldPageKept' /\ Private!Next
<1>1. OldPageKept' /\ Image' = [Image EXCEPT ![p] = Image'[p]]
  BY OneImage
<1>2. Image'[p] = NoSpace /\ Image[p] # NoSpace
  BY ImageWillBe, ImageIsThere DEF OneHart
<1>3. Private!Exit(p)
  BY <1>1, <1>2 DEF Private!Exit
<1> QED BY <1>1, <1>2, <1>3 DEF Private!Next

-----------------------------------------------------------------------------
(* Step by step: what the processes see on one hart.                       *)

LEMMA StoreIsolated ==
  ASSUME NEW p \in Procs, OneHart(p), NEW v \in VPages, NEW d \in Data, Store(p, v, d)
  PROVE  OldPageKept' /\ Private!Next
<1>1. /\ InUser(p) /\ UNCHANGED <<pt, sz, st, th>>
      /\ mem' = [mem EXCEPT ![pt[p][v].pa] = d]
  BY DEF Store
<1>2. /\ st[p] = "live" /\ th[p] = User /\ Size(p) = sz[p]
      /\ \A w \in VPages : Valid(pt[p][w]) <=> w < sz[p]
  BY <1>1, AtRest DEF OneHart
<1>3. HasImage(p) /\ HasImage(p)' /\ Size(p)' = Size(p) /\ th'[p].ret = "none"
  BY <1>1, <1>2, UserFields DEF HasImage, Size, Shrinking
<1>4. OldPageKept' /\ Image' = [Image EXCEPT ![p] = Image'[p]]
  BY <1>1, <1>3, StoreKnows, OneImage DEF OneHart
<1>5. PICK a \in Frames : a = pt[p][v].pa /\ \A w \in VPages \ {v} : pt[p][w].pa # a
  BY StoreKnows DEF OneHart
<1>6. Valid(pt[p][v]) /\ v < Size(p)
  BY <1>2, <1>5 DEF Valid
<1>7. \A w \in VPages : w < Size(p) =>
        /\ Behind(p, w) = pt[p][w].pa /\ Behind(p, w)' = pt[p][w].pa
        /\ pt[p][w].pa \in Frames
  BY <1>1, <1>2 DEF Behind, Valid, OneHart, IInv, TypeOK, PteType
<1>8. mem'[a] = d /\ \A f \in Frames \ {a} : mem'[f] = mem[f]
  BY <1>1, <1>5 DEF OneHart, IInv, TypeOK
<1>9. Image[p] = [w \in VPages |-> IF w < Size(p) THEN mem[Behind(p, w)] ELSE Absent]
  BY <1>3, ImageIs DEF OneHart
<1>10. Image'[p] = [w \in VPages |-> IF w < Size(p)' THEN mem'[Behind(p, w)'] ELSE Absent]
  BY <1>3, ImageWillBe DEF OneHart
<1>11. Image'[p] = [Image[p] EXCEPT ![v] = d]
  BY <1>3, <1>5, <1>6, <1>7, <1>8, <1>9, <1>10
<1>12. Image[p] # NoSpace /\ Image[p][v] # Absent
  BY <1>3, <1>6, <1>9, ImageIsThere DEF OneHart
<1>13. Private!Store(p, v, d)
  BY <1>4, <1>11, <1>12 DEF Private!Store
<1> QED BY <1>4, <1>12, <1>13 DEF Private!Next, Private!VPages, VPages

LEMMA StoreFaultIsolated ==
  ASSUME NEW p \in Procs, OneHart(p), NEW v \in VPages, StoreFault(p, v)
  PROVE  OldPageKept' /\ Image' = Image
<1>1. /\ InUser(p) /\ Touches(p, {th[p].tgt} \cap Procs)
      /\ UNCHANGED <<mem, pt, sz, st>> /\ th'[p].pc = "cow" /\ th'[p].ret = "none"
  BY StoreFaultKnows DEF OneHart, StoreFault
<1>2. st[p] = "live" /\ th[p] = User /\ Size(p) = sz[p]
  BY <1>1, AtRest DEF OneHart
<1>3. Size(p)' = Size(p)
  BY <1>1, <1>2 DEF Size, Shrinking
<1> QED BY <1>1, <1>2, <1>3, UserFields, PlainStep

LEMMA CowRefuseIsolated ==
  ASSUME NEW p \in Procs, OneHart(p), CowRefuse(p)
  PROVE  OldPageKept' /\ Private!Next
<1>1. Touches(p, {th[p].tgt} \cap Procs) /\ th'[p].pc = "killed" /\ th'[p].ret = "none"
  BY CowRefuseKnows DEF OneHart
<1>2. th[p].pc = "cow" /\ UNCHANGED st
  BY DEF CowRefuse
<1>3. st[p] = "live"
  BY <1>2, AtCow DEF OneHart
<1> QED BY <1>1, <1>2, <1>3, Gone DEF HasImage

LEMMA CowInPlaceIsolated ==
  ASSUME NEW p \in Procs, OneHart(p), CowInPlace(p)
  PROVE  OldPageKept' /\ Image' = Image
<1>1. /\ Touches(p, {th[p].tgt} \cap Procs) /\ th'[p] = User
      /\ \A v \in VPages : pt'[p][v].pa = pt[p][v].pa
      /\ th[p].pc = "cow" /\ UNCHANGED <<mem, sz, st>>
  BY CowInPlaceKnows DEF OneHart, CowInPlace
<1>2. st[p] = "live" /\ th[p].pa = NoFrame /\ Size(p) = sz[p]
  BY <1>1, AtCow DEF OneHart
<1>3. Size(p)' = Size(p)
  BY <1>1, <1>2, UserFields DEF Size, Shrinking
<1> QED BY <1>1, <1>2, <1>3, UserFields, PlainStep

LEMMA CowLetGoIsolated ==
  ASSUME NEW p \in Procs, OneHart(p), CowLetGo(p)
  PROVE  OldPageKept' /\ Image' = Image
<1>1. /\ Touches(p, {th[p].tgt} \cap Procs)
      /\ UNCHANGED <<mem_rc, mem, pt, sz, st>>
      /\ th'[p].pc = "unmap" /\ th'[p].ret = "cow"
      /\ th'[p].v = th[p].lo /\ th'[p].lo = th[p].lo
      /\ th'[p].pa = pt[p][th[p].lo].pa /\ mem_rc[th'[p].pa] > 1
      /\ th[p].pc = "cow" /\ p \in Threads
  BY CowLetGoKnows DEF OneHart, CowLetGo, Threads
<1>2. st[p] = "live" /\ th[p].pa = NoFrame /\ Size(p) = sz[p]
  BY <1>1, AtCow DEF OneHart
<1>3. Size(p)' = Size(p)
  BY <1>1, <1>2 DEF Size, Shrinking
<1>4. HasImage(p)' /\ HasImage(p) /\ ImageKept(p)
  BY <1>1, <1>2, <1>3, PlainKept DEF OneHart
<1>5. LetGoOK(p)'
  BY <1>1 DEF LetGoOK
<1> QED BY <1>1, <1>4, <1>5, UnseenStep

LEMMA CowNoMemoryIsolated ==
  ASSUME NEW p \in Procs, OneHart(p), CowNoMemory(p)
  PROVE  OldPageKept' /\ Private!Next
<1>1. Touches(p, {th[p].tgt} \cap Procs) /\ th'[p].pc = "killed" /\ th'[p].ret = "none"
  BY CowNoMemoryKnows DEF OneHart
<1>2. Unmapped(p, "cow") /\ UNCHANGED st
  BY DEF CowNoMemory
<1>3. st[p] = "live" /\ th[p].pc = "unmap"
  BY <1>2, AtCowUnmapped DEF OneHart
<1> QED BY <1>1, <1>2, <1>3, Gone DEF HasImage

(* The page that is let go has a reference left, so kalloc does not return *)
(* it.                                                                     *)
LEMMA CowAllocIsolated ==
  ASSUME NEW p \in Procs, OneHart(p), NEW f \in Frames, CowAlloc(p, f)
  PROVE  OldPageKept' /\ Image' = Image
<1>1. /\ Touches(p, {th[p].tgt} \cap Procs)
      /\ mem_rc[f] = 0 /\ Mappings(f) = {}
      /\ th'[p].pc = "cow_copy" /\ th'[p].ret = "none"
      /\ th'[p].lo = th[p].lo /\ th'[p].pa = th[p].pa
      /\ Unmapped(p, "cow") /\ mem' = [mem EXCEPT ![f] = JunkAlloc]
      /\ UNCHANGED <<pt, sz, st>>
  BY CowAllocKnows DEF OneHart, CowAlloc, Fill
<1>2. /\ p \in Threads /\ st[p] = "live" /\ th[p].v # th[p].lo
      /\ th[p].pa \in Frames /\ th[p].pc = "unmap" /\ th[p].ret = "cow" /\ Size(p) = sz[p]
  BY <1>1, AtCowUnmapped DEF OneHart
<1>3. th[p].pa # f
  BY <1>1, <1>2 DEF OneHart, OldPageKept, LetGoOK
<1>4. \A v \in VPages : pt[p][v].pa # f
  BY <1>1, MappingsDef
<1>5. Size(p)' = Size(p)
  BY <1>1, <1>2 DEF Size, Shrinking
<1>6. ASSUME NEW v \in VPages PROVE mem'[Behind(p, v)'] = mem[Behind(p, v)]
  <2>1. Behind(p, v)' = Behind(p, v)
    BY <1>1 DEF Behind
  <2>2. Behind(p, v) \in Frames \ {f}
    BY <1>2, <1>3, <1>4 DEF Behind, Valid, OneHart, IInv, TypeOK, PteType
  <2> QED BY <1>1, <2>1, <2>2 DEF OneHart, IInv, TypeOK
<1>7. HasImage(p)' /\ HasImage(p) /\ ImageKept(p)
  BY <1>1, <1>2, <1>5, <1>6 DEF HasImage, ImageKept
<1>8. LetGoOK(p)'
  BY <1>1 DEF LetGoOK
<1> QED BY <1>1, <1>2, <1>7, <1>8, UnseenStep

LEMMA CowCopyIsolated ==
  ASSUME NEW p \in Procs, OneHart(p), CowCopy(p)
  PROVE  OldPageKept' /\ Image' = Image
<1>1. /\ Touches(p, {th[p].tgt} \cap Procs)
      /\ st[p] = "live" /\ th'[p] = User /\ UNCHANGED <<sz, st>>
      /\ th[p].ret = "none" /\ th[p].pc = "cow_copy" /\ p \in Threads
  BY CowCopyKnows DEF OneHart, CowCopy, Threads
<1>2. PICK l \in VPages : l = th[p].lo
  BY CowCopyKnows DEF OneHart
<1>3. /\ ~Valid(pt[p][l]) /\ Valid(pt'[p][l]) /\ mem'[pt'[p][l].pa] = mem[th[p].pa]
      /\ \A v \in VPages \ {l} :
           pt'[p][v] = pt[p][v] /\ (Valid(pt[p][v]) => mem'[pt[p][v].pa] = mem[pt[p][v].pa])
  BY <1>2, CowCopyKnows DEF OneHart
<1>4. Size(p)' = Size(p) /\ Size(p) = sz[p]
  BY <1>1, UserFields DEF Size, Shrinking
<1>5. ASSUME NEW v \in VPages, v < Size(p)
      PROVE  mem'[Behind(p, v)'] = mem[Behind(p, v)]
  <2>1. CASE v = l
    BY <1>3, <2>1 DEF Behind
  <2>2. CASE v # l
    <3>1. Valid(pt[p][v])
      BY <1>1, <1>2, <1>5, <2>2 DEF OneHart, Presence, Knows, PresentOK, LetGo
    <3> QED BY <1>3, <2>2, <3>1 DEF Behind
  <2> QED BY <2>1, <2>2
<1>6. HasImage(p)' /\ HasImage(p) /\ ImageKept(p)
  BY <1>1, <1>4, <1>5, UserFields DEF HasImage, ImageKept
<1>7. LetGoOK(p)'
  BY <1>1, UserFields DEF LetGoOK
<1> QED BY <1>1, <1>6, <1>7, UnseenStep

(* uvmunmap for cow() is at the page that is let go, and nowhere else.     *)
LEMMA UnmapForCow ==
  ASSUME NEW p \in Procs, OneHart(p), th[p].ret = "cow",
         Unmaps(p) \/ Kfrees(p) \/ th[p].pc = "kfree_push"
  PROVE  /\ th[p].pc = "unmap" /\ th[p].tgt = p /\ th[p].v = th[p].lo /\ th[p].lo \in VPages
         /\ KfreePa(p) = th[p].pa /\ Valid(TargetPte(p)) /\ mem_rc[th[p].pa] > 1
         /\ pt[p][th[p].lo].pa = th[p].pa
<1>1. LetGoOK(p) /\ p \in Threads
  BY DEF OneHart, OldPageKept, Threads
<1>2. th[p].pc = "unmap" /\ th[p].v < th[p].end
  BY <1>1 DEF LetGoOK, Kfrees, Unmaps
<1>3. UnmapOK(p) /\ th[p].kret = "unmap"
  BY <1>1, <1>2, UnmappingThread DEF OneHart
<1>4. /\ th[p].tgt = p /\ th[p].lo <= th[p].v /\ th[p].end = th[p].lo + 1
      /\ th[p].end <= sz[p] /\ th[p].pa \in Frames
  BY <1>2, <1>3 DEF UnmapOK, Unmapper, RetOK
<1>5. th[p].lo \in 0..MaxSz /\ th[p].v \in 0..MaxSz /\ sz[p] \in 0..MaxSz
  BY <1>1 DEF OneHart, IInv, TypeOK, Locals
<1>6. th[p].v = th[p].lo /\ th[p].lo \in VPages
  BY <1>2, <1>4, <1>5 DEF VPages
<1>7. mem_rc[th[p].pa] > 1 /\ pt[p][th[p].lo].pa = th[p].pa
  BY <1>1, <1>6 DEF LetGoOK
<1> QED BY <1>2, <1>3, <1>4, <1>6, <1>7 DEF KfreePa, TargetPte, Valid

(* Away from cow() a thread that unmaps has let go of nothing.             *)
LEMMA NothingLetGo ==
  ASSUME Presence, IInv, NEW p \in Threads, th[p].pc \in {"unmap", "kfree", "kfree_push"},
         th[p].ret # "cow"
  PROVE  th[p].caller = "none" /\ \A v : ~LetGo(p, v)
BY DEF Presence, Knows, PlaceOK, LetGo, IInv, TypeOK, Locals

LEMMA UnmapSkipIsolated ==
  ASSUME NEW p \in Threads, OneHart(p), UnmapSkip(p)
  PROVE  OldPageKept' /\ Image' = Image
<1>1. /\ Touches(p, {th[p].tgt} \cap Procs)
      /\ th'[p].pc = "unmap" /\ th'[p].ret = th[p].ret
      /\ th'[p].lo = th[p].lo /\ th'[p].pa = th[p].pa
      /\ th[p].pc = "unmap" /\ Unmaps(p) /\ ~Valid(TargetPte(p)) /\ UNCHANGED <<mem, pt, sz, st>>
  BY UnmapSkipKnows DEF OneHart, UnmapSkip, Unmaps
<1>2. ASSUME p \in Procs PROVE HasImage(p)' /\ HasImage(p) /\ ImageKept(p)
  <2>1. st[p] = "live"
    BY <1>1, <1>2, UnmappingThread DEF OneHart
  <2>2. \A v \in VPages : Behind(p, v)' = Behind(p, v)
    BY <1>1 DEF Behind
  <2>3. Size(p)' = Size(p)
    BY <1>1 DEF Size, Shrinking
  <2> QED BY <1>1, <2>1, <2>2, <2>3 DEF HasImage, ImageKept
<1>3. p \in Procs => LetGoOK(p)'
  BY <1>1, UnmapForCow DEF LetGoOK
<1> QED BY <1>1, <1>2, <1>3, UnseenStep

(* kfree fills a page only when cow() is not the caller: the page that     *)
(* cow() lets go has a second reference, and on one hart keeps it.         *)
LEMMA KfreeLastIsolated ==
  ASSUME NEW p \in Threads, OneHart(p), KfreeLast(p)
  PROVE  OldPageKept' /\ Image' = Image
<1>1. /\ Touches(p, {th[p].tgt} \cap Procs)
      /\ UNCHANGED <<pt, sz, st>>
      /\ th'[p].ret = th[p].ret /\ th'[p].lo = th[p].lo /\ th'[p].pc = "kfree_push"
      /\ mem_rc[KfreePa(p)] = 1 /\ Kfrees(p)
      /\ th[p].pc \in {"unmap", "kfree", "kfree_push"}
  BY KfreeLastKnows DEF OneHart, KfreeLast, Kfrees, Unmaps
<1>2. ASSUME p \in Procs PROVE HasImage(p)' /\ HasImage(p) /\ ImageKept(p) /\ LetGoOK(p)'
  <2>1. st[p] = "live"
    BY <1>1, <1>2, FreedIsReferenced DEF OneHart
  <2>2. th[p].ret # "cow"
    BY <1>1, <1>2, UnmapForCow
  <2>3. th[p].caller = "none" /\ \A v : ~LetGo(p, v)
    BY <1>1, <2>2, NothingLetGo DEF OneHart
  <2>4. Size(p)' = Size(p)
    BY <1>1 DEF Size, Shrinking
  <2>5. \A v \in VPages : v < Size(p) /\ Valid(pt[p][v]) => mem'[pt[p][v].pa] = mem[pt[p][v].pa]
    BY <1>2, <2>3, KfreeLastKnows DEF OneHart
  <2>6. HasImage(p)' /\ HasImage(p) /\ ImageKept(p)
    BY <1>1, <1>2, <2>1, <2>3, <2>4, <2>5, PlainKept DEF OneHart
  <2> QED BY <1>1, <2>2, <2>6 DEF LetGoOK
<1> QED BY <1>1, <1>2, UnseenStep

LEMMA KfreeReturnsIsolated ==
  ASSUME NEW p \in Threads, OneHart(p), Kfrees(p) \/ th[p].pc = "kfree_push",
         KfreeReturns(p), UNCHANGED <<mem, sz, st>>,
         p \in Procs /\ th[p].pc = "unmap" /\ th[p].ret = "cow" => mem_rc'[th[p].pa] > 0
  PROVE  OldPageKept' /\ Image' = Image
<1>1. /\ Touches(p, {th[p].tgt} \cap Procs) /\ th'[p].pc = "unmap"
      /\ th[p].kret = "unmap" =>
              /\ th'[p].ret = th[p].ret
              /\ th'[p].lo = th[p].lo /\ th'[p].pa = th[p].pa /\ th'[p].v = th[p].v + 1
      /\ th[p].kret # "unmap" =>
              /\ UNCHANGED pt /\ th'[p].ret \in {"uvmcopy", "uvmalloc"}
              /\ th[p].ret = "none"
      /\ p \in Procs => Size(p)' = Size(p)
      /\ th[p].pc \in {"unmap", "kfree", "kfree_push"}
  BY KfreeReturnsKnows DEF OneHart, Kfrees, Unmaps
<1>2. ASSUME p \in Procs PROVE HasImage(p)' /\ HasImage(p) /\ ImageKept(p) /\ LetGoOK(p)'
  <2>1. st[p] = "live"
    BY <1>2, FreedIsReferenced DEF OneHart
  <2>2. CASE th[p].ret # "cow"
    <3>1. th[p].caller = "none" /\ \A v : ~LetGo(p, v)
      BY <1>1, <2>2, NothingLetGo DEF OneHart
    <3>2. \A v \in VPages : v < Size(p) => pt'[p][v] = pt[p][v]
      BY <1>2, <3>1, KfreeReturnsKnows DEF OneHart
    <3>3. HasImage(p)' /\ HasImage(p) /\ ImageKept(p)
      BY <1>1, <1>2, <2>1, <3>1, <3>2, PlainKept DEF OneHart
    <3>4. th'[p].ret # "cow"
      BY <1>1, <2>2
    <3> QED BY <3>3, <3>4 DEF LetGoOK
  <2>3. CASE th[p].ret = "cow"
    <3>1. /\ th[p].pc = "unmap" /\ th[p].v = th[p].lo /\ pt[p][th[p].lo].pa = th[p].pa
          /\ th[p].lo \in VPages
      BY <1>2, <2>3, UnmapForCow
    <3>2. /\ th'[p].ret = "cow" /\ th'[p].lo = th[p].lo /\ th'[p].pa = th[p].pa
          /\ th'[p].v = th[p].v + 1
      BY <1>1, <2>3
    <3>3. LetGoOK(p)'
      <4>1. th'[p].v # th'[p].lo
        BY <3>1, <3>2 DEF VPages
      <4> QED BY <1>1, <1>2, <2>3, <3>1, <3>2, <4>1 DEF LetGoOK
    <3>4. ASSUME NEW v \in VPages, v < Size(p) PROVE Behind(p, v)' = Behind(p, v)
      <4>1. \/ pt'[p][v] = pt[p][v]
            \/ v = th[p].v /\ ~Valid(pt'[p][v])
        BY <1>2, <3>4, KfreeReturnsKnows DEF OneHart
      <4> QED BY <3>1, <3>2, <4>1 DEF Behind
    <3>5. HasImage(p)' /\ HasImage(p) /\ ImageKept(p)
      BY <1>1, <1>2, <2>1, <3>1, <3>4 DEF HasImage, ImageKept
    <3> QED BY <3>3, <3>5
  <2> QED BY <2>2, <2>3
<1> QED BY <1>1, <1>2, UnseenStep

LEMMA KfreeSharedIsolated ==
  ASSUME NEW p \in Threads, OneHart(p), KfreeShared(p)
  PROVE  OldPageKept' /\ Image' = Image
<1>1. /\ Kfrees(p) /\ KfreeReturns(p) /\ UNCHANGED <<mem, sz, st>>
      /\ DropShared(KfreePa(p))
  BY DEF KfreeShared
<1>2. ASSUME p \in Procs, th[p].pc = "unmap", th[p].ret = "cow" PROVE mem_rc'[th[p].pa] > 0
  <2>1. PICK f \in Frames : f = KfreePa(p)
    BY <1>1, FreedIsReferenced DEF OneHart
  <2>2. f = th[p].pa
    BY <1>1, <1>2, <2>1, UnmapForCow
  <2>3. mem_rc[f] > 1 /\ mem_rc' = [mem_rc EXCEPT ![f] = mem_rc[f] - 1]
    BY <1>1, <2>1 DEF DropShared, Shared
  <2>4. mem_rc \in [Frames -> 0..RcMax]
    BY DEF OneHart, IInv, TypeOK
  <2>5. mem_rc'[f] = mem_rc[f] - 1 /\ mem_rc[f] \in Nat
    BY <2>3, <2>4
  <2> QED BY <2>2, <2>3, <2>5
<1> QED BY <1>1, <1>2, KfreeReturnsIsolated

LEMMA KfreePushIsolated ==
  ASSUME NEW p \in Threads, OneHart(p), KfreePush(p)
  PROVE  OldPageKept' /\ Image' = Image
BY KfreeReturnsIsolated DEF KfreePush

(* A child in the making has no image yet.                                 *)
LEMMA ForkIsolated ==
  ASSUME NEW p \in Procs, OneHart(p), NEW c \in Procs, Fork(p, c)
  PROVE  OldPageKept' /\ Image' = Image
<1>1. /\ Touches(p, {c}) /\ c # p /\ st[c] # "live" /\ st'[c] # "live"
      /\ UNCHANGED <<pt, sz, mem>> /\ st'[p] = st[p]
      /\ th'[p].pc = "uvmcopy" /\ th'[p].ret = "none" /\ InUser(p) /\ p \in Threads
  BY ForkKnows DEF OneHart, Fork, Threads
<1>2. st[p] = "live" /\ th[p] = User /\ Size(p) = sz[p]
  BY <1>1, AtRest DEF OneHart
<1>3. Size(p)' = Size(p)
  BY <1>1, <1>2 DEF Size, Shrinking
<1>4. HasImage(p)' /\ HasImage(p) /\ ImageKept(p)
  BY <1>1, <1>2, <1>3, UserFields, PlainKept DEF OneHart
<1>5. LetGoOK(p)'
  BY <1>1 DEF LetGoOK
<1>6. \A q \in {c} \ {p} : st[q] # "live" /\ st'[q] # "live"
  BY <1>1
<1> QED BY <1>1, <1>4, <1>5, <1>6, Unseen DEF OneHart

LEMMA UvmcopyPageIsolated ==
  ASSUME NEW p \in Procs, OneHart(p), UvmcopyPage(p)
  PROVE  OldPageKept' /\ Image' = Image
<1>1. /\ Touches(p, {th[p].tgt} \cap Procs)
      /\ th'[p].pc = "uvmcopy" /\ th'[p].ret = "none"
      /\ \A v \in VPages : pt'[p][v].pa = pt[p][v].pa
      /\ Copying(p) /\ th[p].pc = "uvmcopy" /\ UNCHANGED <<mem, sz, st>>
  BY UvmcopyPageKnows, UvmcopyPageGoesOn DEF OneHart, Copying
<1>2. th[p].caller = "none" /\ Size(p) = sz[p] /\ st[p] = "live"
  BY <1>1, ParentIsThere DEF OneHart
<1>3. Size(p)' = Size(p)
  BY <1>1, <1>2 DEF Size, Shrinking
<1> QED BY <1>1, <1>2, <1>3, PlainStep

LEMMA UvmcopyFailIsolated ==
  ASSUME NEW p \in Procs, OneHart(p), UvmcopyFail(p)
  PROVE  OldPageKept' /\ Image' = Image
<1>1. /\ Touches(p, {th[p].tgt} \cap Procs)
      /\ th'[p].pc = "kfree" /\ th'[p].ret = "none"
      /\ \A v \in VPages : pt'[p][v].pa = pt[p][v].pa
      /\ Copying(p) /\ th[p].pc = "uvmcopy" /\ UNCHANGED <<mem, sz, st>>
  BY UvmcopyFailKnows, UvmcopyFailGoesOn DEF OneHart, Copying
<1>2. th[p].caller = "none" /\ Size(p) = sz[p] /\ st[p] = "live"
  BY <1>1, ParentIsThere DEF OneHart
<1>3. Size(p)' = Size(p)
  BY <1>1, <1>2 DEF Size, Shrinking
<1> QED BY <1>1, <1>2, <1>3, PlainStep

(* The child is there, all at once, with the image of its parent.          *)
LEMMA ForkDoneIsolated ==
  ASSUME NEW p \in Procs, OneHart(p), ForkDone(p)
  PROVE  OldPageKept' /\ Private!Next
<1>0. PICK c : c = th[p].tgt
  OBVIOUS
<1>1. /\ Touches(p, {c} \cap Procs)
      /\ c \in Procs \ {p} /\ st[c] = "embryo" /\ st[p] = "live"
      /\ th[p].pc = "uvmcopy" /\ th[p].ret = "none" /\ th[p].caller = "none"
      /\ th'[p] = User /\ th'[c] = User /\ UNCHANGED <<pt, mem>>
      /\ st' = [st EXCEPT ![c] = "live"] /\ sz' = [sz EXCEPT ![c] = sz[p]]
  BY <1>0, ForkDoneKnows DEF OneHart
<1>2. \A v \in VPages : v < sz[p] => Valid(pt[p][v]) /\ pt[c][v].pa = pt[p][v].pa
  <2>1. IInv /\ Knows(p) /\ p \in Threads /\ th[p].pc = "uvmcopy" /\ th[p].v = th[p].end
    BY DEF OneHart, ForkDone, Presence, Threads
  <2>2. th[p].end = sz[p] /\ th[p].ret = "none"
    BY <2>1 DEF IInv, ThreadOK, CopyOK, Alive, ShapeOK
  <2>3. Size(p) = sz[p] /\ \A v : ~LetGo(p, v)
    BY <1>1, <2>2 DEF Size, Shrinking, LetGo
  <2> QED BY <1>0, <1>1, <2>1, <2>2, <2>3 DEF Knows, PresentOK, ChildOK
<1>3. st'[c] = "live" /\ sz'[c] = sz[p] /\ st'[p] = "live" /\ sz'[p] = sz[p]
  BY <1>1 DEF OneHart, IInv, TypeOK
<1>4. Size(p) = sz[p] /\ Size(p)' = sz[p] /\ Size(c)' = sz[p]
  BY <1>1, <1>3, UserFields DEF Size, Shrinking
<1>5. HasImage(p) /\ HasImage(p)' /\ HasImage(c)' /\ ~HasImage(c)
  BY <1>1, <1>3, UserFields DEF HasImage
<1>6. \A v \in VPages : v < sz[p] =>
        /\ Behind(p, v) = pt[p][v].pa /\ Behind(p, v)' = pt[p][v].pa
        /\ Behind(c, v)' = pt[p][v].pa
  BY <1>1, <1>2 DEF Behind, Valid
<1>7. Image[p] = [v \in VPages |-> IF v < sz[p] THEN mem[pt[p][v].pa] ELSE Absent]
  <2>1. Image[p] = [v \in VPages |-> IF v < Size(p) THEN mem[Behind(p, v)] ELSE Absent]
    BY <1>5, ImageIs DEF OneHart
  <2> QED BY <1>4, <1>6, <2>1
<1>8. Image'[p] = [v \in VPages |-> IF v < sz[p] THEN mem[pt[p][v].pa] ELSE Absent]
  <2>1. Image'[p] = [v \in VPages |-> IF v < Size(p)' THEN mem'[Behind(p, v)'] ELSE Absent]
    BY <1>5, ImageWillBe DEF OneHart
  <2> QED BY <1>1, <1>4, <1>6, <2>1
<1>9. Image'[c] = [v \in VPages |-> IF v < sz[p] THEN mem[pt[p][v].pa] ELSE Absent]
  <2>1. Image'[c] = [v \in VPages |-> IF v < Size(c)' THEN mem'[Behind(c, v)'] ELSE Absent]
    BY <1>1, <1>5, ImageWillBe DEF OneHart
  <2> QED BY <1>1, <1>4, <1>6, <2>1
<1>10. p \in Threads
  BY DEF Threads
<1>11. \A q \in Procs \ {p, c} : Image'[q] = Image[q] /\ LetGoOK(q)'
  BY <1>1, <1>10, OthersImages DEF OneHart
<1>12. LetGoOK(p)' /\ LetGoOK(c)'
  BY <1>1, UserFields DEF LetGoOK
<1>13. OldPageKept'
  BY <1>11, <1>12 DEF OldPageKept
<1>14. DOMAIN Image = Procs /\ Image' = [q \in Procs |-> Image'[q]]
  BY DEF Image
<1>15. Image' = [Image EXCEPT ![c] = Image[p]]
  BY <1>1, <1>7, <1>8, <1>9, <1>11, <1>14
<1>16. Image[c] = NoSpace /\ Image[p] # NoSpace
  BY <1>1, <1>5, ImageIs, ImageIsThere DEF OneHart
<1>17. Private!Fork(p, c)
  BY <1>15, <1>16 DEF Private!Fork
<1> QED BY <1>1, <1>13, <1>16, <1>17 DEF Private!Next

LEMMA FreeProcIsolated ==
  ASSUME NEW p \in Threads, OneHart(p), th[p].pc = "unmap",
         th[p].ret \in {"uvmcopy", "uvmfree"}, FreeProc(p, th[p].tgt)
  PROVE  OldPageKept' /\ Image' = Image
<1>1. /\ Touches(p, {th[p].tgt} \cap Procs)
      /\ th'[p] = User /\ UNCHANGED <<pt, mem>>
      /\ p \in Procs => th[p].tgt # p /\ st'[p] = st[p] /\ sz'[p] = sz[p]
  BY FreeProcKnows DEF OneHart
<1>2. \A c \in Procs \ {p} : th[p].tgt = c => st'[c] \in {st[c], "unused"}
  BY DEF FreeProc, Panic, OneHart, IInv, TypeOK
<1>3. ASSUME p \in Procs PROVE HasImage(p)' /\ HasImage(p) /\ ImageKept(p)
  <2>1. st[p] = "live"
    BY <1>3, UnmappingThread DEF OneHart
  <2>2. th[p].caller = "none"
    BY NothingLetGo DEF OneHart
  <2>3. Size(p)' = Size(p)
    BY <1>1, <1>3, UserFields DEF Size, Shrinking
  <2> QED BY <1>1, <1>3, <2>1, <2>2, <2>3, UserFields, PlainKept DEF OneHart
<1>4. p \in Procs => LetGoOK(p)'
  BY <1>1, UserFields DEF LetGoOK
<1> QED BY <1>1, <1>2, <1>3, <1>4, UnseenStep

LEMMA ExitIsolated ==
  ASSUME NEW p \in Procs, OneHart(p), Exit(p)
  PROVE  OldPageKept' /\ (Image' = Image \/ Private!Next)
<1>1. /\ Touches(p, {th[p].tgt} \cap Procs)
      /\ st[p] = "live" /\ st'[p] = "zombie" /\ th'[p] = User
      /\ p \in Threads /\ th[p].pc \in {"user", "killed"}
  BY ExitKnows DEF OneHart, Exit, InUser, Threads
<1>2. th[p].tgt = NoProc
  BY <1>1 DEF OneHart, IInv, ThreadOK, ShapeOK, QuietPcs
<1>3. ~HasImage(p)' /\ th'[p].ret = "none"
  BY <1>1, UserFields DEF HasImage
<1>4. CASE th[p].pc = "user"
  <2>1. HasImage(p)
    BY <1>1, <1>4 DEF HasImage
  <2> QED BY <1>1, <1>2, <1>3, <2>1, Gone
<1>5. CASE th[p].pc = "killed"
  <2>1. ~HasImage(p)
    BY <1>5 DEF HasImage
  <2>2. LetGoOK(p)'
    BY <1>3 DEF LetGoOK
  <2> QED BY <1>1, <1>2, <1>3, <2>1, <2>2, UnseenStep
<1> QED BY <1>1, <1>4, <1>5

LEMMA WaitIsolated ==
  ASSUME NEW p \in Threads, OneHart(p), NEW c \in Procs, Wait(p, c)
  PROVE  OldPageKept' /\ Image' = Image
<1>1. /\ Touches(p, {c}) /\ c # p /\ st[c] # "live" /\ st'[c] # "live"
      /\ UNCHANGED <<pt, sz, st, mem>>
      /\ th[p] = User /\ th'[p].pc = "unmap" /\ th'[p].ret = "uvmfree"
      /\ p \in Procs => InUser(p)
  BY WaitKnows DEF OneHart, Wait
<1>2. ASSUME p \in Procs PROVE HasImage(p)' /\ HasImage(p) /\ ImageKept(p) /\ LetGoOK(p)'
  <2>1. st[p] = "live" /\ Size(p) = sz[p]
    BY <1>1, <1>2, AtRest DEF OneHart
  <2>2. Size(p)' = Size(p)
    BY <1>1, <2>1 DEF Size, Shrinking
  <2>3. HasImage(p)' /\ HasImage(p) /\ ImageKept(p)
    BY <1>1, <1>2, <2>1, <2>2, UserFields, PlainKept DEF OneHart
  <2> QED BY <1>1, <2>3 DEF LetGoOK
<1>3. \A q \in {c} \ {p} : st[q] # "live" /\ st'[q] # "live"
  BY <1>1
<1> QED BY <1>1, <1>2, <1>3, Unseen DEF OneHart

LEMMA GrowIsolated ==
  ASSUME NEW p \in Procs, OneHart(p), NEW n, Grow(p, n)
  PROVE  OldPageKept' /\ Image' = Image
<1>1. /\ Touches(p, {th[p].tgt} \cap Procs) /\ UNCHANGED <<mem, pt, sz, st>>
      /\ th'[p].pc = "uvmalloc" /\ th'[p].ret = "none" /\ InUser(p)
  BY GrowKnows DEF OneHart, Grow
<1>2. st[p] = "live" /\ th[p] = User /\ Size(p) = sz[p]
  BY <1>1, AtRest DEF OneHart
<1>3. Size(p)' = Size(p)
  BY <1>1, <1>2 DEF Size, Shrinking
<1> QED BY <1>1, <1>2, <1>3, UserFields, PlainStep

LEMMA UvmallocPageIsolated ==
  ASSUME NEW p \in Procs, OneHart(p), NEW f \in Frames, UvmallocPage(p, f)
  PROVE  OldPageKept' /\ Image' = Image
<1>1. /\ Touches(p, {th[p].tgt} \cap Procs) /\ UNCHANGED <<sz, st>>
      /\ th'[p].pc = "uvmalloc" /\ th'[p].ret = "none"
      /\ \A v \in VPages : v < sz[p] => pt'[p][v] = pt[p][v]
      /\ \A v \in VPages : Valid(pt[p][v]) => mem'[pt[p][v].pa] = mem[pt[p][v].pa]
      /\ th[p].pc = "uvmalloc"
  BY UvmallocPageKnows DEF OneHart, UvmallocPage, Growing
<1>2. st[p] = "live" /\ th[p].caller = "none" /\ Size(p) = sz[p]
  BY <1>1, AtUvmalloc DEF OneHart
<1>3. Size(p)' = Size(p)
  BY <1>1, <1>2 DEF Size, Shrinking
<1> QED BY <1>1, <1>2, <1>3, PlainStep

(* The error paths of uvmalloc, and the return from them.                  *)
LEMMA UvmallocFailsIsolated ==
  ASSUME NEW p \in Procs, OneHart(p),
         \/ UvmallocNoMemory(p)
         \/ \E f \in Frames : UvmallocFail(p, f)
  PROVE  OldPageKept' /\ Image' = Image
<1>1. /\ Touches(p, {th[p].tgt} \cap Procs) /\ UNCHANGED <<pt, sz, st>>
      /\ \A v \in VPages : Valid(pt[p][v]) => mem'[pt[p][v].pa] = mem[pt[p][v].pa]
      /\ th'[p].pc # "killed" /\ th'[p].ret # "sbrk" /\ th[p].pc = "uvmalloc"
  BY UvmallocNoMemoryKnows, UvmallocFailKnows
     DEF OneHart, UvmallocNoMemory, UvmallocFail, Growing
<1>2. th'[p].ret # "cow"
  <2>1. th'[p].caller = "none"
    BY UvmallocNoMemoryKnows, UvmallocFailKnows DEF OneHart
  <2> QED BY <2>1 DEF OneHart, Presence, Knows, PlaceOK, Threads
<1>3. st[p] = "live" /\ th[p].caller = "none" /\ Size(p) = sz[p]
  BY <1>1, AtUvmalloc DEF OneHart
<1>4. Size(p)' = Size(p)
  BY <1>1, <1>3 DEF Size, Shrinking
<1> QED BY <1>1, <1>2, <1>3, <1>4, PlainStep

LEMMA SbrkFailedIsolated ==
  ASSUME NEW p \in Procs, OneHart(p), ShrinkDone(p) \/ GrowFailed(p)
  PROVE  OldPageKept' /\ Image' = Image
<1>1. /\ Touches(p, {th[p].tgt} \cap Procs) /\ th'[p] = User
      /\ UNCHANGED <<mem, pt, st>> /\ st[p] = "live" /\ th[p].pc # "killed"
      /\ sz'[p] = Size(p) /\ th[p].caller = "none"
  BY ShrinkDoneKnows, GrowFailedKnows DEF OneHart
<1>2. Size(p)' = Size(p)
  BY <1>1, UserFields DEF Size, Shrinking
<1> QED BY <1>1, <1>2, UserFields, PlainStep

(* The new pages are there, all at once, and full of zeros.                *)
LEMMA GrowDoneIsolated ==
  ASSUME NEW p \in Procs, OneHart(p), GrowDone(p)
  PROVE  OldPageKept' /\ Private!Next
<1>1. /\ Touches(p, {th[p].tgt} \cap Procs) /\ th'[p] = User
      /\ UNCHANGED <<mem, pt, st>> /\ st[p] = "live" /\ th[p].pc # "killed"
      /\ sz[p] <= sz'[p] /\ Size(p) = sz[p]
      /\ \A v \in VPages : v < sz'[p] => Valid(pt[p][v])
      /\ \A v \in VPages : sz[p] <= v /\ v < sz'[p] => mem[pt[p][v].pa] = Zero
  BY GrowDoneKnows DEF OneHart
<1>2. PICK n \in 0..MaxSz : n = sz'[p]
  BY GrowDoneKnows DEF OneHart
<1>3. Size(p)' = n /\ HasImage(p) /\ HasImage(p)' /\ th'[p].ret = "none"
  BY <1>1, <1>2, UserFields DEF Size, Shrinking, HasImage
<1>4. OldPageKept' /\ Image' = [Image EXCEPT ![p] = Image'[p]]
  BY <1>1, <1>3, OneImage
<1>5. PICK m \in 0..MaxSz : m = sz[p] /\ m <= n
  BY <1>1, <1>2 DEF OneHart, IInv, TypeOK
<1>6. \A v \in VPages : v < n => Behind(p, v) = pt[p][v].pa /\ Behind(p, v)' = pt[p][v].pa
  BY <1>1, <1>2 DEF Behind, Valid
<1>7. Image[p] = [v \in VPages |-> IF v < m THEN mem[Behind(p, v)] ELSE Absent]
  BY <1>1, <1>3, <1>5, ImageIs DEF OneHart
<1>8. Image'[p] = [v \in VPages |-> IF v < n THEN mem'[Behind(p, v)'] ELSE Absent]
  BY <1>3, ImageWillBe DEF OneHart
<1>9. Image[p] # NoSpace /\ \A v \in VPages : v < m => mem[Behind(p, v)] # Absent
  BY <1>1, <1>3, <1>5, ImageIsThere DEF OneHart
<1>10. ASSUME NEW v \in VPages
       PROVE  Image'[p][v] = IF v >= n THEN Absent
                             ELSE IF Image[p][v] = Absent THEN Zero ELSE Image[p][v]
  <2>1. v \in Int /\ m \in Int /\ n \in Int
    BY DEF VPages
  <2>2. CASE v >= n
    BY <1>8, <2>1, <2>2
  <2>3. CASE m <= v /\ v < n
    <3>1. Image'[p][v] = Zero
      BY <1>1, <1>2, <1>5, <1>6, <1>8, <2>3
    <3>2. Image[p][v] = Absent
      BY <1>7, <2>1, <2>3
    <3> QED BY <2>1, <2>3, <3>1, <3>2
  <2>4. CASE v < m
    <3>1. v < n
      BY <1>5, <2>1, <2>4
    <3>2. Image'[p][v] = mem[Behind(p, v)]
      BY <1>1, <1>6, <1>8, <3>1
    <3>3. Image[p][v] = mem[Behind(p, v)] /\ Image[p][v] # Absent
      BY <1>7, <1>9, <2>4
    <3> QED BY <2>1, <3>1, <3>2, <3>3
  <2> QED BY <2>1, <2>2, <2>3, <2>4
<1>11. Private!Resize(p, n)
  <2>1. Image'[p] = [v \in VPages |-> Image'[p][v]]
    BY <1>8
  <2>2. Image'[p] = [v \in VPages |-> IF v >= n THEN Absent
                                      ELSE IF Image[p][v] = Absent THEN Zero ELSE Image[p][v]]
    BY <1>10, <2>1
  <2> QED BY <1>4, <2>2 DEF Private!Resize, Private!VPages, VPages
<1> QED BY <1>4, <1>9, <1>11 DEF Private!Next

(* sbrk() gives up its pages before it begins to unmap them.               *)
LEMMA ShrinkIsolated ==
  ASSUME NEW p \in Procs, OneHart(p), NEW n \in 0..MaxSz, Shrink(p, n)
  PROVE  OldPageKept' /\ Private!Next
<1>1. /\ Touches(p, {th[p].tgt} \cap Procs) /\ UNCHANGED <<mem, pt, sz, st>>
      /\ InUser(p) /\ n < sz[p]
      /\ th'[p].pc = "unmap" /\ th'[p].ret = "sbrk" /\ th'[p].lo = n
  BY ShrinkKnows DEF OneHart
<1>2. /\ st[p] = "live" /\ th[p] = User /\ Size(p) = sz[p]
      /\ \A v \in VPages : v < sz[p] => Valid(pt[p][v])
  BY <1>1, AtRest DEF OneHart
<1>3. Size(p)' = n /\ HasImage(p) /\ HasImage(p)'
  BY <1>1, <1>2, UserFields DEF Size, Shrinking, HasImage
<1>4. OldPageKept' /\ Image' = [Image EXCEPT ![p] = Image'[p]]
  BY <1>1, OneImage
<1>5. PICK m \in 0..MaxSz : m = sz[p] /\ n < m
  BY <1>1 DEF OneHart, IInv, TypeOK
<1>6. \A v \in VPages : v < m => Behind(p, v) = pt[p][v].pa /\ Behind(p, v)' = pt[p][v].pa
  BY <1>1, <1>2, <1>5 DEF Behind, Valid
<1>7. Image[p] = [v \in VPages |-> IF v < m THEN mem[Behind(p, v)] ELSE Absent]
  BY <1>2, <1>3, <1>5, ImageIs DEF OneHart
<1>8. Image'[p] = [v \in VPages |-> IF v < n THEN mem'[Behind(p, v)'] ELSE Absent]
  BY <1>3, ImageWillBe DEF OneHart
<1>9. Image[p] # NoSpace /\ \A v \in VPages : v < m => mem[Behind(p, v)] # Absent
  BY <1>2, <1>3, <1>5, ImageIsThere DEF OneHart
<1>10. ASSUME NEW v \in VPages
       PROVE  Image'[p][v] = IF v >= n THEN Absent
                             ELSE IF Image[p][v] = Absent THEN Zero ELSE Image[p][v]
  <2>1. v \in Int /\ m \in Int /\ n \in Int
    BY DEF VPages
  <2>2. CASE v >= n
    BY <1>8, <2>1, <2>2
  <2>3. CASE v < n
    <3>1. v < m
      BY <1>5, <2>1, <2>3
    <3>2. Image'[p][v] = mem[Behind(p, v)]
      BY <1>1, <1>6, <1>8, <2>3, <3>1
    <3>3. Image[p][v] = mem[Behind(p, v)] /\ Image[p][v] # Absent
      BY <1>7, <1>9, <3>1
    <3> QED BY <2>1, <2>3, <3>2, <3>3
  <2> QED BY <2>1, <2>2, <2>3
<1>11. Private!Resize(p, n)
  <2>1. Image'[p] = [v \in VPages |-> Image'[p][v]]
    BY <1>8
  <2>2. Image'[p] = [v \in VPages |-> IF v >= n THEN Absent
                                      ELSE IF Image[p][v] = Absent THEN Zero ELSE Image[p][v]]
    BY <1>10, <2>1
  <2> QED BY <1>4, <2>2 DEF Private!Resize, Private!VPages, VPages
<1> QED BY <1>4, <1>9, <1>11 DEF Private!Next

-----------------------------------------------------------------------------
LEMMA OldPageInit == Init => OldPageKept
<1> SUFFICES ASSUME Init, NEW p \in Procs PROVE LetGoOK(p)
  BY DEF OldPageKept
<1>1. th[p] = User
  BY DEF Init, Threads
<1> QED BY <1>1, UserFields DEF LetGoOK

LEMMA ImageInit == Init => Private!Init
<1> SUFFICES ASSUME Init PROVE Private!Init
  OBVIOUS
<1>1. IInv /\ Presence /\ OldPageKept
  BY IInvInit, PresenceInit, OldPageInit
<1>2. PICK p \in Procs :
        /\ sz = [q \in Procs |-> IF q = p THEN InitSz ELSE 0]
        /\ st = [q \in Procs |-> IF q = p THEN "live" ELSE "unused"]
        /\ th = [q \in Threads |-> User]
  BY DEF Init
<1>3. th[p] = User /\ st[p] = "live" /\ sz[p] = InitSz
  BY <1>2 DEF Threads
<1>4. Size(p) = InitSz /\ HasImage(p)
  BY <1>3, UserFields DEF Size, Shrinking, HasImage
<1>5. Image[p] = [v \in VPages |-> IF v < InitSz THEN mem[Behind(p, v)] ELSE Absent]
  BY <1>1, <1>4, ImageIs
<1>6. Image[p] # NoSpace /\ \A v \in VPages : v < InitSz => mem[Behind(p, v)] # Absent
  BY <1>1, <1>4, ImageIsThere
<1>7. Private!HasSize(Image[p], InitSz)
  BY <1>5, <1>6 DEF Private!HasSize, Private!VPages, VPages
<1>8. ASSUME NEW q \in Procs \ {p} PROVE Image[q] = NoSpace
  <2>1. ~HasImage(q)
    BY <1>2 DEF HasImage
  <2> QED BY <1>1, <2>1, ImageIs
<1> QED BY <1>6, <1>7, <1>8 DEF Private!Init

(* Every step of the one hart is a step of AddressSpaces, or changes no    *)
(* image.                                                                  *)
Implements == OldPageKept' /\ (Image' = Image \/ Private!Next)

LEMMA IsolatedProcStep ==
  ASSUME NEW p \in Procs, OneHart(p), OutPages = {}, ProcStep(p)
  PROVE  Implements
<1> USE DEF Implements
<1>1. CowStep(p) => Implements
  BY CowRefuseIsolated, CowInPlaceIsolated, CowLetGoIsolated, CowNoMemoryIsolated,
     CowAllocIsolated, CowCopyIsolated DEF CowStep
<1>2. ASSUME ForkFailed(p) PROVE Implements
  <2>1. /\ p \in Threads /\ th[p].pc = "unmap" /\ th[p].ret = "uvmcopy"
        /\ FreeProc(p, th[p].tgt)
    BY <1>2 DEF ForkFailed, Unmapped, Threads
  <2> QED BY <2>1, FreeProcIsolated
<1>3. ForkStep(p) => Implements
  <2>1. ~UvmcopyPanic(p)
    BY ParentIsThere DEF UvmcopyPanic, OneHart
  <2> QED BY <1>2, <2>1, ForkIsolated, UvmcopyPageIsolated, UvmcopyFailIsolated,
          ForkDoneIsolated DEF ForkStep
<1>4. SbrkStep(p) => Implements
  <2>1. UvmallocNoMemory(p) \/ (\E f \in Frames : UvmallocFail(p, f)) => Implements
    BY UvmallocFailsIsolated
  <2>2. ShrinkDone(p) \/ GrowFailed(p) => Implements
    BY SbrkFailedIsolated
  <2> QED BY <2>1, <2>2, GrowIsolated, ShrinkIsolated, UvmallocPageIsolated, GrowDoneIsolated
          DEF SbrkStep
<1>5. \A d : ~CopyoutWrite(p, d)
  BY NoCopyout DEF OneHart
<1> QED BY <1>1, <1>3, <1>4, <1>5, StoreIsolated, StoreFaultIsolated, ExitIsolated DEF ProcStep

LEMMA IsolatedStep ==
  ASSUME IInv, IInv', Presence, Presence', OldPageKept, NCPU = 1, OutPages = {}, Next
  PROVE  Implements
<1>1. ASSUME NEW p \in Threads, OneHart(p), UnmapStep(p) PROVE Implements
  BY <1>1, UnmapSkipIsolated, KfreeLastIsolated, KfreeSharedIsolated, KfreePushIsolated
     DEF UnmapStep, Implements
<1>2. ASSUME NEW p \in Threads, OneHart(p), WaitStep(p) PROVE Implements
  <2>1. ASSUME Waited(p) PROVE Implements
    <3>1. th[p].pc = "unmap" /\ th[p].ret = "uvmfree" /\ FreeProc(p, th[p].tgt)
      BY <2>1 DEF Waited, Unmapped
    <3> QED BY <1>2, <3>1, FreeProcIsolated DEF Implements
  <2> QED BY <1>2, <2>1, WaitIsolated DEF WaitStep, Implements
<1>3. ASSUME NEW p, CanRun(p) PROVE OneHart(p)
  BY <1>3 DEF OneHart
<1> QED BY <1>1, <1>2, <1>3, IsolatedProcStep DEF Next

LEMMA IsolatedNext ==
  IInv /\ IInv' /\ Presence /\ Presence' /\ NCPU = 1 /\ OutPages = {} /\ OldPageKept
    /\ [Next]_vars => OldPageKept' /\ [Private!Next]_Image
<1> SUFFICES ASSUME IInv, IInv', Presence, Presence', NCPU = 1, OutPages = {}, OldPageKept,
                    [Next]_vars
             PROVE  OldPageKept' /\ [Private!Next]_Image
  OBVIOUS
<1>1. CASE UNCHANGED vars
  <2>1. OldPageKept'
    BY <1>1 DEF vars, OldPageKept, LetGoOK
  <2>2. \A q \in Procs, v \in VPages : PageOf(q, v)' = PageOf(q, v)
    BY <1>1 DEF vars, PageOf, LetGo, Size, Shrinking
  <2>3. Image' = Image
    BY <1>1, <2>2 DEF vars, Image
  <2> QED BY <2>1, <2>3
<1> QED BY <1>1, IsolatedStep DEF Implements

(* On one hart, and when no system call writes to user memory, the shared  *)
(* pages cannot be seen: every process has an image of its own, which its  *)
(* own stores, sbrk and exit change and nobody else's, and a child begins  *)
(* with its parent's.  It takes that nobody drops a reference between the  *)
(* test of the count in cow() and the copy (OldPageKept), so that the page *)
(* cow() has let go is not on the free list when it is copied.             *)
THEOREM Isolation == OutPages = {} /\ NCPU = 1 => (Spec => ImplementsAddressSpaces)
<1> SUFFICES ASSUME OutPages = {}, NCPU = 1 PROVE Spec => ImplementsAddressSpaces
  OBVIOUS
<1>1. Init => Presence /\ PagesPresent
  BY PresenceInit DEF Init, PagesPresent
<1>2. IInv /\ IInv' /\ Presence /\ PagesPresent /\ [Next]_vars => Presence' /\ PagesPresent'
  BY PresenceNext
<1>3. Init => OldPageKept /\ Private!Init
  BY OldPageInit, ImageInit
<1>4. IInv /\ IInv' /\ Presence /\ Presence' /\ OldPageKept /\ [Next]_vars =>
        OldPageKept' /\ [Private!Next]_Image
  BY IsolatedNext
<1> QED BY <1>1, <1>2, <1>3, <1>4, Invariance, PTL DEF Spec, ImplementsAddressSpaces, Private!Spec
=============================================================================
