---------------------------- MODULE KallocProofs ----------------------------
(***************************************************************************)
(* Proofs about Kalloc, for any number of pages and of threads.            *)
(***************************************************************************)
EXTENDS Kalloc, FiniteSetTheorems, TLAPS

USE RcMaxAssumption, FramesAssumption, ThreadsAssumption

-----------------------------------------------------------------------------
(* Kmem: the arithmetic of a count in a char, and what the two operations  *)
(* on the linked list do to what is on it.                                 *)

(* A count that fits in a signed char is stored as it is.                  *)
LEMMA SignedCharFits ==
  ASSUME NEW n \in 0..RcMax
  PROVE  SignedChar(n) = n
BY DEF SignedChar

(* ... and read back from an unsigned char as it is.                       *)
LEMMA UnsignedCharFits ==
  ASSUME NEW n \in 0..RcMax
  PROVE  UnsignedChar(n) = n
BY DEF UnsignedChar

InList(f, s) == \E i \in DOMAIN s : s[i] = f
NoDuplicates(s) == \A i, j \in DOMAIN s : s[i] = s[j] => i = j

(* What is on the list when its head has left it.                          *)
LEMMA TailList ==
  ASSUME NEW s \in Seq(Frames), s # <<>>, NoDuplicates(s)
  PROVE  /\ Head(s) \in Frames
         /\ InList(Head(s), s)
         /\ Tail(s) \in Seq(Frames)
         /\ NoDuplicates(Tail(s))
         /\ \A f \in Frames : InList(f, Tail(s)) <=> InList(f, s) /\ f # Head(s)
<1>1. Head(s) \in Frames /\ Tail(s) \in Seq(Frames) /\ Head(s) = s[1] /\ Len(s) \in Nat \ {0}
  OBVIOUS
<1>2. DOMAIN s = 1..Len(s) /\ DOMAIN Tail(s) = 1..(Len(s) - 1)
  OBVIOUS
<1>3. \A i \in 1..(Len(s) - 1) : Tail(s)[i] = s[i + 1]
  OBVIOUS
<1>4. NoDuplicates(Tail(s))
  BY <1>1, <1>2, <1>3 DEF NoDuplicates
<1>5. ASSUME NEW f \in Frames
      PROVE  InList(f, Tail(s)) <=> InList(f, s) /\ f # Head(s)
  <2>1. ASSUME InList(f, Tail(s)) PROVE InList(f, s) /\ f # Head(s)
    BY <1>1, <1>2, <1>3, <2>1 DEF InList, NoDuplicates
  <2>2. ASSUME InList(f, s), f # Head(s) PROVE InList(f, Tail(s))
    <3>1. PICK i \in 1..Len(s) : s[i] = f
      BY <1>2, <2>2 DEF InList
    <3>2. i - 1 \in 1..(Len(s) - 1) /\ Tail(s)[i - 1] = f
      BY <1>1, <1>3, <2>2, <3>1
    <3> QED BY <1>2, <3>2 DEF InList
  <2> QED BY <2>1, <2>2
<1>6. InList(Head(s), s)
  BY <1>1, <1>2 DEF InList
<1> QED BY <1>1, <1>4, <1>5, <1>6

(* What is on the list when a page has been put at its head.               *)
LEMMA ConsList ==
  ASSUME NEW s \in Seq(Frames), NoDuplicates(s), NEW g \in Frames, ~InList(g, s)
  PROVE  /\ <<g>> \o s \in Seq(Frames)
         /\ NoDuplicates(<<g>> \o s)
         /\ \A f \in Frames : InList(f, <<g>> \o s) <=> InList(f, s) \/ f = g
<1> DEFINE c == <<g>> \o s
<1>1. c \in Seq(Frames) /\ Len(c) = Len(s) + 1 /\ Len(s) \in Nat
  OBVIOUS
<1>2. DOMAIN s = 1..Len(s) /\ DOMAIN c = 1..(Len(s) + 1)
  BY <1>1
<1>3. c[1] = g /\ \A i \in 1..Len(s) : c[i + 1] = s[i]
  OBVIOUS
<1>4. \A i \in 2..(Len(s) + 1) : i - 1 \in 1..Len(s) /\ c[i] = s[i - 1]
  BY <1>1, <1>3
<1>5. DOMAIN c = {1} \cup 2..(Len(s) + 1) /\ 1 \in DOMAIN c
  BY <1>1, <1>2
<1> HIDE DEF c
<1>6. ASSUME NEW i \in DOMAIN c, NEW j \in DOMAIN c, c[i] = c[j] PROVE i = j
  <2>1. CASE i = 1 /\ j = 1
    BY <2>1
  <2>2. CASE i = 1 /\ j \in 2..(Len(s) + 1)
    BY <2>2, <1>2, <1>3, <1>4, <1>6 DEF InList
  <2>3. CASE j = 1 /\ i \in 2..(Len(s) + 1)
    BY <2>3, <1>2, <1>3, <1>4, <1>6 DEF InList
  <2>4. CASE i \in 2..(Len(s) + 1) /\ j \in 2..(Len(s) + 1)
    <3>1. s[i - 1] = s[j - 1] /\ i - 1 \in DOMAIN s /\ j - 1 \in DOMAIN s
      BY <2>4, <1>2, <1>4, <1>6
    <3>2. i - 1 = j - 1
      BY <3>1 DEF NoDuplicates
    <3> QED BY <2>4, <3>2, <1>1
  <2> QED BY <1>5, <2>1, <2>2, <2>3, <2>4
<1>7. NoDuplicates(c)
  BY <1>6 DEF NoDuplicates
<1>8. ASSUME NEW f \in Frames PROVE InList(f, c) <=> InList(f, s) \/ f = g
  <2>1. ASSUME InList(f, c) PROVE InList(f, s) \/ f = g
    <3>1. PICK i \in DOMAIN c : c[i] = f
      BY <2>1 DEF InList
    <3> QED BY <3>1, <1>2, <1>3, <1>4, <1>5 DEF InList
  <2>2. ASSUME InList(f, s) PROVE InList(f, c)
    <3>1. PICK i \in 1..Len(s) : s[i] = f
      BY <2>2, <1>2 DEF InList
    <3>2. i + 1 \in DOMAIN c /\ c[i + 1] = f
      BY <3>1, <1>1, <1>2, <1>3
    <3> QED BY <3>2 DEF InList
  <2>3. ASSUME f = g PROVE InList(f, c)
    BY <2>3, <1>3, <1>5 DEF InList
  <2> QED BY <2>1, <2>2, <2>3
<1> QED BY <1>1, <1>7, <1>8 DEF c

-----------------------------------------------------------------------------

(* The references to a page are finitely many, and fit in a signed char.   *)
LEMMA RefsBounded ==
  ASSUME NEW R \in SUBSET Threads
  PROVE  /\ IsFiniteSet(R)
         /\ Cardinality(R) \in 0..RcMax
<1>1. IsFiniteSet(R) /\ Cardinality(R) <= Cardinality(Threads)
  BY FS_Subset
<1>2. Cardinality(R) \in Nat /\ Cardinality(Threads) \in Nat
  BY <1>1, FS_CardinalityType
<1> QED BY <1>1, <1>2

(* A thread that refers to a page with at most one reference is alone.     *)
LEMMA OneMeansAlone ==
  ASSUME NEW R \in SUBSET Threads, NEW t \in R, Cardinality(R) <= 1
  PROVE  R = {t}
<1>1. IsFiniteSet(R) /\ Cardinality(R) \in Nat
  BY RefsBounded
<1>2. Cardinality(R) # 0
  BY <1>1, FS_EmptySet
<1>3. Cardinality(R) = 1
  BY <1>1, <1>2
<1>4. \E x : R = {x}
  BY <1>1, <1>3, FS_Singleton, Zenon
<1> QED BY <1>4

(* With a reference, the count is not bad.                                 *)
LEMMA HeldIsNotBad ==
  ASSUME IInv, NEW t \in Threads, NEW f \in Frames, t \in refs[f]
  PROVE  ~BadRc(f) /\ mem_rc[f] \in 1..RcMax
<1>1. refs[f] \in SUBSET Threads /\ mem_rc[f] = Cardinality(refs[f])
  BY DEF IInv, TypeOK, RcExact
<1>2. IsFiniteSet(refs[f]) /\ Cardinality(refs[f]) \in 0..RcMax
  BY <1>1, RefsBounded
<1>3. Cardinality(refs[f]) # 0
  BY <1>2, FS_EmptySet
<1> QED BY <1>1, <1>2, <1>3 DEF BadRc

-----------------------------------------------------------------------------
(* The invariant holds when kinit() is done.                               *)
LEMMA IInvInit == Init => IInv
<1> SUFFICES ASSUME Init PROVE IInv
  OBVIOUS
<1> USE DEF Init, KinitDone
<1>1. Cardinality(Frames) \in Nat
  BY FS_CardinalityType
<1>2. freelist \in Bijection(1..Cardinality(Frames), Frames)
  OBVIOUS
<1>3. freelist \in Seq(Frames) /\ DOMAIN freelist = 1..Cardinality(Frames)
  BY <1>1, <1>2 DEF Bijection, Injection
<1>4. TypeOK
  BY <1>3 DEF TypeOK
<1>5. CallersHold /\ NoPanic /\ FillIsExclusive /\ OneStaysOne
  BY DEF CallersHold, NoPanic, FillIsExclusive, OneStaysOne, At, Idle, Call
<1>6. RcExact
  BY FS_EmptySet DEF RcExact
<1>7. \A i, j \in DOMAIN freelist : freelist[i] = freelist[j] => i = j
  BY <1>2, <1>3 DEF Bijection, Injection, IsInjective
<1>8. \A f \in Frames : \E i \in DOMAIN freelist : freelist[i] = f
  BY <1>2, <1>3 DEF Bijection, Surjection
<1>9. FreelistExact
  BY <1>7, <1>8 DEF FreelistExact
<1> QED BY <1>4, <1>5, <1>6, <1>9 DEF IInv

(* A step that only moves thread t along, or only writes a page, leaves    *)
(* the counts, the free list and the references as they are.               *)
LEMMA QuietStep ==
  ASSUME IInv, UNCHANGED <<freelist, mem_rc, refs>>
  PROVE  RcExact' /\ FreelistExact'
BY DEF IInv, RcExact, FreelistExact

(* Nothing changes in a stuttering step.                                   *)
LEMMA StutterStep ==
  ASSUME IInv, UNCHANGED vars
  PROVE  IInv'
<1> USE DEF IInv, vars
<1>1. TypeOK'
  BY DEF TypeOK
<1>2. CallersHold' /\ NoPanic'
  BY DEF CallersHold, NoPanic, At
<1>3. FillIsExclusive' /\ OneStaysOne'
  BY DEF FillIsExclusive, OneStaysOne, At
<1>4. RcExact' /\ FreelistExact'
  BY DEF RcExact, FreelistExact
<1> QED BY <1>1, <1>2, <1>3, <1>4

(* The memset of kalloc keeps the invariant.                               *)
LEMMA KallocFillStep ==
  ASSUME IInv, NEW t \in Threads, NEW f \in Frames, KallocFill(t, f)
  PROVE  IInv'
<1> USE DEF KallocFill, Return, Fill, Idle, Call, At
<1>1. TypeOK'
  BY DEF IInv, TypeOK
<1>2. CallersHold'
  BY DEF IInv, TypeOK, CallersHold
<1>3. NoPanic' /\ FillIsExclusive' /\ OneStaysOne'
  <2>1. NoPanic'
    BY DEF IInv, TypeOK, NoPanic
  <2>2. FillIsExclusive'
    BY DEF IInv, TypeOK, FillIsExclusive
  <2>3. OneStaysOne'
    BY DEF IInv, TypeOK, OneStaysOne
  <2> QED BY <2>1, <2>2, <2>3
<1> QED BY <1>1, <1>2, <1>3, QuietStep DEF IInv

(* ... so does the call of kfree: its check finds a good count,            *)
LEMMA KfreeCallStep ==
  ASSUME IInv, NEW t \in Threads, NEW f \in Frames, KfreeCall(t, f)
  PROVE  IInv'
<1> USE DEF KfreeCall, Idle, Call, At
<1>0. ~BadRc(f)
  BY HeldIsNotBad
<1>1. op' = [op EXCEPT ![t] = Call("kfree_drop", f, NoThread, 0)]
  BY <1>0 DEF GoTo
<1>2. TypeOK'
  BY <1>1 DEF IInv, TypeOK, Calls, Pcs
<1>3. CallersHold'
  BY <1>1 DEF IInv, TypeOK, CallersHold
<1>4. NoPanic' /\ FillIsExclusive' /\ OneStaysOne'
  <2>1. NoPanic'
    BY <1>1 DEF IInv, TypeOK, NoPanic
  <2>2. FillIsExclusive'
    BY <1>1 DEF IInv, TypeOK, FillIsExclusive
  <2>3. OneStaysOne'
    BY <1>1 DEF IInv, TypeOK, OneStaysOne
  <2> QED BY <2>1, <2>2, <2>3
<1> QED BY <1>2, <1>3, <1>4, QuietStep DEF IInv

(* ... the first critical section of kfree for a page nobody else has,     *)
LEMMA KfreeLastStep ==
  ASSUME IInv, NEW t \in Threads, NEW f \in Frames, KfreeLast(t, f)
  PROVE  IInv'
<1> USE DEF KfreeLast, GoTo, Idle, Call, At
<1>1. refs[f] = {t}
  <2>1. refs[f] \in SUBSET Threads /\ mem_rc[f] = Cardinality(refs[f]) /\ t \in refs[f]
    BY DEF IInv, TypeOK, CallersHold, RcExact
  <2>2. Cardinality(refs[f]) <= 1
    BY <2>1, RefsBounded DEF Shared
  <2> QED BY <2>1, <2>2, OneMeansAlone
<1>2. TypeOK'
  BY DEF IInv, TypeOK, Calls, Pcs
<1>3. CallersHold'
  BY DEF IInv, TypeOK, CallersHold
<1>4. NoPanic' /\ OneStaysOne'
  BY DEF IInv, TypeOK, NoPanic, OneStaysOne
<1>5. FillIsExclusive'
  BY <1>1 DEF IInv, TypeOK, FillIsExclusive
<1> QED BY <1>2, <1>3, <1>4, <1>5, QuietStep DEF IInv

(* ... the memset between the two critical sections,                       *)
LEMMA KfreeFillStep ==
  ASSUME IInv, NEW t \in Threads, NEW f \in Frames, KfreeFill(t, f)
  PROVE  IInv'
<1> USE DEF KfreeFill, GoTo, Fill, Idle, Call, At
<1>1. TypeOK'
  BY DEF IInv, TypeOK, Calls, Pcs
<1>2. CallersHold'
  BY DEF IInv, TypeOK, CallersHold
<1>3. NoPanic' /\ FillIsExclusive' /\ OneStaysOne'
  <2>1. NoPanic'
    BY DEF IInv, TypeOK, NoPanic
  <2>2. FillIsExclusive'
    BY DEF IInv, TypeOK, FillIsExclusive
  <2>3. OneStaysOne'
    BY DEF IInv, TypeOK, OneStaysOne
  <2> QED BY <2>1, <2>2, <2>3
<1> QED BY <1>1, <1>2, <1>3, QuietStep DEF IInv

(* ... the call of cowalloc, whose check finds a good count too,           *)
LEMMA CowallocCallStep ==
  ASSUME IInv, NEW t \in Threads, NEW u \in Threads, NEW f \in Frames, CowallocCall(t, u, f)
  PROVE  IInv'
<1>1. op' = [op EXCEPT ![t] = Call("cowalloc_inc", f, u, 0)]
  <2>1. ~BadRc(f)
    BY HeldIsNotBad DEF CowallocCall
  <2> QED BY <2>1 DEF CowallocCall
<1>2. /\ t \in refs[f]
      /\ u \notin refs[f]
      /\ \A s \in Threads : ~(At(s, "cowalloc_inc", f) /\ op[s].heir = u)
      /\ UNCHANGED <<freelist, mem_rc, mem, refs>>
  BY DEF CowallocCall
<1> USE DEF Call, At
<1>3. TypeOK'
  BY <1>1, <1>2 DEF IInv, TypeOK, Calls, Pcs
<1>4. CallersHold'
  BY <1>1, <1>2 DEF IInv, TypeOK, CallersHold
<1>5. NoPanic' /\ FillIsExclusive'
  BY <1>1, <1>2 DEF IInv, TypeOK, NoPanic, FillIsExclusive
<1>6. OneStaysOne'
  BY <1>1, <1>2 DEF IInv, TypeOK, OneStaysOne
<1> QED BY <1>2, <1>3, <1>4, <1>5, <1>6, QuietStep DEF IInv

(* ... and kmemrc, which learns that the count is 1 only from its holder.  *)
LEMMA KmemrcStep ==
  ASSUME IInv, NEW t \in Threads, NEW f \in Frames, Kmemrc(t, f)
  PROVE  IInv'
<1>0. t \in refs[f] /\ UNCHANGED <<freelist, mem_rc, mem, refs>>
  BY DEF Kmemrc
<1> USE DEF Call, At
<1>1. mem_rc[f] \in 1..RcMax /\ ReadRc(f) = mem_rc[f]
  BY <1>0, HeldIsNotBad, UnsignedCharFits DEF ReadRc
<1>2. op' = [op EXCEPT ![t] = Call("have_rc", f, NoThread, mem_rc[f])]
  BY <1>1 DEF Kmemrc
<1>3. mem_rc[f] = 1 => refs[f] = {t}
  <2>1. refs[f] \in SUBSET Threads /\ mem_rc[f] = Cardinality(refs[f]) /\ t \in refs[f]
    BY <1>0 DEF IInv, TypeOK, RcExact
  <2>2. ASSUME mem_rc[f] = 1 PROVE Cardinality(refs[f]) <= 1
    BY <2>1, <2>2
  <2> QED BY <2>1, <2>2, OneMeansAlone
<1>4. TypeOK'
  BY <1>0, <1>1, <1>2 DEF IInv, TypeOK, Calls, Pcs
<1>5. CallersHold'
  BY <1>0, <1>2 DEF IInv, TypeOK, CallersHold
<1>6. NoPanic' /\ FillIsExclusive'
  BY <1>0, <1>2 DEF IInv, TypeOK, NoPanic, FillIsExclusive
<1>7. OneStaysOne'
  BY <1>0, <1>2, <1>3 DEF IInv, TypeOK, OneStaysOne
<1> QED BY <1>0, <1>4, <1>5, <1>6, <1>7, QuietStep DEF IInv

(* KmemrcUsed and StoreInPlace both end the call that kmemrc began.        *)
LEMMA KmemrcEndStep ==
  ASSUME IInv, NEW t \in Threads, NEW f \in Frames, At(t, "have_rc", f), Return(t),
         UNCHANGED <<freelist, mem_rc, refs>>,
         mem' = mem \/ \E d \in Data : mem' = [mem EXCEPT ![f] = d]
  PROVE  IInv'
<1> USE DEF Return, Idle, Call, At
<1>1. TypeOK'
  BY ZenonT(60) DEF IInv, TypeOK
<1>2. CallersHold'
  BY DEF IInv, TypeOK, CallersHold
<1>3. NoPanic' /\ FillIsExclusive' /\ OneStaysOne'
  BY ZenonT(60) DEF IInv, TypeOK, NoPanic, FillIsExclusive, OneStaysOne
<1> QED BY <1>1, <1>2, <1>3, QuietStep DEF IInv

-----------------------------------------------------------------------------
(* The steps that change a count.  First, what a change of the references  *)
(* to one page does to their number.                                       *)
LEMMA AddOne ==
  ASSUME NEW R \in SUBSET Threads, NEW u \in Threads \ R
  PROVE  Cardinality(R \cup {u}) = Cardinality(R) + 1 /\ Cardinality(R) + 1 \in 0..RcMax
<1>1. IsFiniteSet(R) /\ Cardinality(R) \in 0..RcMax
  BY RefsBounded
<1>2. Cardinality(R \cup {u}) = Cardinality(R) + 1
  BY <1>1, FS_AddElement
<1>3. R \cup {u} \in SUBSET Threads
  OBVIOUS
<1>4. Cardinality(R \cup {u}) \in 0..RcMax
  BY <1>3, RefsBounded
<1> QED BY <1>2, <1>4

(* One reference less.                                                     *)
LEMMA RemoveOne ==
  ASSUME NEW R \in SUBSET Threads, NEW t \in R
  PROVE  Cardinality(R \ {t}) = Cardinality(R) - 1 /\ Cardinality(R) - 1 \in 0..RcMax
<1>1. IsFiniteSet(R) /\ Cardinality(R) \in 0..RcMax
  BY RefsBounded
<1>2. Cardinality(R \ {t}) = Cardinality(R) - 1
  BY <1>1, FS_RemoveElement
<1>3. R \ {t} \in SUBSET Threads
  OBVIOUS
<1>4. Cardinality(R \ {t}) \in 0..RcMax
  BY <1>3, RefsBounded
<1> QED BY <1>2, <1>4

(* FreelistExact in terms of the lemmas about lists.                       *)
LEMMA FreelistAsList ==
  FreelistExact <=>
    NoDuplicates(freelist) /\ \A f \in Frames : InList(f, freelist) <=> refs[f] = {}
BY DEF FreelistExact, NoDuplicates, InList

(* kalloc takes a page that nobody refers to.                              *)
LEMMA KallocPopStep ==
  ASSUME IInv, NEW t \in Threads, NEW f \in Frames, KallocPop(t, f)
  PROVE  IInv'
<1>1. /\ freelist # <<>> /\ f = Head(freelist)
      /\ freelist' = Tail(freelist)
      /\ mem_rc' = [mem_rc EXCEPT ![f] = 1]
      /\ refs' = [refs EXCEPT ![f] = @ \cup {t}]
      /\ op[t].pc = "idle"
      /\ op' = [op EXCEPT ![t] = Call("kalloc_fill", f, NoThread, 0)]
      /\ mem' = mem
  BY DEF KallocPop, PopFrame, GoTo
<1>2. /\ freelist \in Seq(Frames) /\ NoDuplicates(freelist)
      /\ \A g \in Frames : InList(g, freelist) <=> refs[g] = {}
  BY FreelistAsList DEF IInv, TypeOK
<1>3. /\ InList(f, freelist)
      /\ freelist' \in Seq(Frames) /\ NoDuplicates(freelist')
      /\ \A g \in Frames : InList(g, freelist') <=> InList(g, freelist) /\ g # f
  BY <1>1, <1>2, TailList
<1>4. refs[f] = {} /\ refs \in [Frames -> SUBSET Threads] /\ refs'[f] = {t}
  BY <1>1, <1>2, <1>3 DEF IInv, TypeOK
<1>5. TypeOK'
  BY <1>1, <1>3, <1>4 DEF IInv, TypeOK, Calls, Call, Pcs
<1>6. CallersHold'
  <2>1. \A s \in Threads : op[s].pc = "cowalloc_inc" => op[s].pa # f
    BY <1>4 DEF IInv, CallersHold
  <2> QED BY <1>1, <1>4, <2>1 DEF IInv, TypeOK, CallersHold, Call, At
<1>7. RcExact'
  BY <1>1, <1>4, FS_Singleton DEF IInv, TypeOK, RcExact
<1>8. FreelistExact'
  BY ZenonT(60), <1>1, <1>2, <1>3, <1>4 DEF FreelistExact, NoDuplicates, InList
<1>9. NoPanic'
  BY <1>1 DEF IInv, TypeOK, NoPanic, Call
<1>10. ASSUME NEW s \in Threads, NEW g \in Frames
       PROVE  /\ (\E pc \in {"kfree_fill", "kfree_push", "kalloc_fill"} : At(s, pc, g))'
                 => refs'[g] = {s}
              /\ At(s, "have_rc", g)' /\ op'[s].rc = 1 => refs'[g] = {s}
  <2>1. CASE s = t
    BY <1>1, <2>1, <1>4 DEF IInv, TypeOK, At, Call
  <2>2. CASE s # t /\ g = f
    <3>1. op'[s] = op[s]
      BY <1>1, <2>2 DEF IInv, TypeOK
    <3>2. op[s].pc = "idle" \/ op[s].pa # f
      BY <1>4 DEF IInv, TypeOK, CallersHold
    <3> QED BY <3>1, <3>2, <2>2 DEF At
  <2>3. CASE s # t /\ g # f
    <3>1. op'[s] = op[s] /\ refs'[g] = refs[g]
      BY <1>1, <1>4, <2>3 DEF IInv, TypeOK
    <3> QED BY <3>1 DEF IInv, FillIsExclusive, OneStaysOne, At
  <2> QED BY <2>1, <2>2, <2>3
<1>11. FillIsExclusive' /\ OneStaysOne'
  BY <1>10 DEF FillIsExclusive, OneStaysOne, At
<1> QED BY <1>5, <1>6, <1>7, <1>8, <1>9, <1>11 DEF IInv

(* kfree drops a reference to a page that others have.                     *)
LEMMA KfreeSharedStep ==
  ASSUME IInv, NEW t \in Threads, NEW f \in Frames, KfreeShared(t, f)
  PROVE  IInv'
<1>1. /\ At(t, "kfree_drop", f)
      /\ mem_rc[f] > 1 /\ mem_rc' = [mem_rc EXCEPT ![f] = @ - 1]
      /\ refs' = [refs EXCEPT ![f] = @ \ {t}]
      /\ op' = [op EXCEPT ![t] = Idle]
      /\ UNCHANGED <<freelist, mem>>
  BY DEF KfreeShared, DropShared, Shared, Return
<1>2. t \in refs[f] /\ refs \in [Frames -> SUBSET Threads]
  BY <1>1 DEF IInv, TypeOK, CallersHold, At
<1>3. /\ mem_rc[f] = Cardinality(refs[f])
      /\ Cardinality(refs[f] \ {t}) = mem_rc[f] - 1
      /\ mem_rc[f] - 1 \in 0..RcMax
  BY <1>2, RemoveOne DEF IInv, RcExact
<1>4. refs[f] \ {t} # {}
  <2>1. mem_rc[f] - 1 # 0
    BY <1>1, <1>3
  <2> QED BY <1>3, <2>1, FS_EmptySet
<1>5. TypeOK'
  BY <1>1, <1>2, <1>3 DEF IInv, TypeOK
<1>6. CallersHold'
  BY <1>1, <1>2 DEF IInv, TypeOK, CallersHold, Idle, Call, At
<1>7. RcExact'
  BY <1>1, <1>2, <1>3 DEF IInv, TypeOK, RcExact
<1>8. FreelistExact'
  BY <1>1, <1>2, <1>4 DEF IInv, FreelistExact
<1>9. NoPanic'
  BY <1>1 DEF IInv, TypeOK, NoPanic, Idle, Call
<1>10. ASSUME NEW s \in Threads, NEW g \in Frames
       PROVE  /\ (\E pc \in {"kfree_fill", "kfree_push", "kalloc_fill"} : At(s, pc, g))'
                 => refs'[g] = {s}
              /\ At(s, "have_rc", g)' /\ op'[s].rc = 1 => refs'[g] = {s}
  <2>1. CASE s = t
    BY <1>1, <2>1 DEF IInv, TypeOK, At, Call, Idle
  <2>2. CASE s # t /\ g = f
    <3>1. op'[s] = op[s]
      BY <1>1, <2>2 DEF IInv, TypeOK
    <3>2. ~(\E pc \in {"kfree_fill", "kfree_push", "kalloc_fill"} : At(s, pc, g))
          /\ ~(At(s, "have_rc", g) /\ op[s].rc = 1)
      BY <1>2, <2>2 DEF IInv, FillIsExclusive, OneStaysOne
    <3> QED BY <3>1, <3>2, <2>2 DEF At
  <2>3. CASE s # t /\ g # f
    <3>1. op'[s] = op[s] /\ refs'[g] = refs[g]
      BY <1>1, <1>2, <2>3 DEF IInv, TypeOK
    <3> QED BY <3>1 DEF IInv, FillIsExclusive, OneStaysOne, At
  <2> QED BY <2>1, <2>2, <2>3
<1>11. FillIsExclusive' /\ OneStaysOne'
  BY <1>10 DEF FillIsExclusive, OneStaysOne, At
<1> QED BY <1>5, <1>6, <1>7, <1>8, <1>9, <1>11 DEF IInv

(* kfree drops the last reference and frees the page.                      *)
LEMMA KfreePushStep ==
  ASSUME IInv, NEW t \in Threads, NEW f \in Frames, KfreePush(t, f)
  PROVE  IInv'
<1>1. /\ At(t, "kfree_push", f)
      /\ mem_rc' = [mem_rc EXCEPT ![f] = 0]
      /\ freelist' = <<f>> \o freelist
      /\ refs' = [refs EXCEPT ![f] = @ \ {t}]
      /\ op' = [op EXCEPT ![t] = Idle]
      /\ mem' = mem
  BY DEF KfreePush, PushFrame, Return
<1>2. refs[f] = {t} /\ refs \in [Frames -> SUBSET Threads] /\ refs'[f] = {}
  BY <1>1 DEF IInv, TypeOK, FillIsExclusive
<1>3. /\ freelist \in Seq(Frames) /\ NoDuplicates(freelist)
      /\ \A g \in Frames : InList(g, freelist) <=> refs[g] = {}
  BY FreelistAsList DEF IInv, TypeOK
<1>4. /\ freelist' \in Seq(Frames) /\ NoDuplicates(freelist')
      /\ \A g \in Frames : InList(g, freelist') <=> InList(g, freelist) \/ g = f
  BY <1>1, <1>2, <1>3, ConsList
<1>5. TypeOK'
  BY <1>1, <1>2, <1>4 DEF IInv, TypeOK
<1>6. CallersHold'
  BY <1>1, <1>2 DEF IInv, TypeOK, CallersHold, Idle, Call, At
<1>7. RcExact'
  BY <1>1, <1>2, FS_EmptySet DEF IInv, TypeOK, RcExact
<1>8. FreelistExact'
  BY ZenonT(60), <1>1, <1>2, <1>3, <1>4 DEF FreelistExact, NoDuplicates, InList
<1>9. NoPanic'
  BY <1>1 DEF IInv, TypeOK, NoPanic, Idle, Call
<1>10. ASSUME NEW s \in Threads, NEW g \in Frames
       PROVE  /\ (\E pc \in {"kfree_fill", "kfree_push", "kalloc_fill"} : At(s, pc, g))'
                 => refs'[g] = {s}
              /\ At(s, "have_rc", g)' /\ op'[s].rc = 1 => refs'[g] = {s}
  <2>1. CASE s = t
    BY <1>1, <2>1 DEF IInv, TypeOK, At, Call, Idle
  <2>2. CASE s # t /\ g = f
    <3>1. op'[s] = op[s]
      BY <1>1, <2>2 DEF IInv, TypeOK
    <3>2. op[s].pc = "idle" \/ op[s].pa # f
      BY <1>2, <2>2 DEF IInv, TypeOK, CallersHold
    <3> QED BY <3>1, <3>2, <2>2 DEF At
  <2>3. CASE s # t /\ g # f
    <3>1. op'[s] = op[s] /\ refs'[g] = refs[g]
      BY <1>1, <1>2, <2>3 DEF IInv, TypeOK
    <3> QED BY <3>1 DEF IInv, FillIsExclusive, OneStaysOne, At
  <2> QED BY <2>1, <2>2, <2>3
<1>11. FillIsExclusive' /\ OneStaysOne'
  BY <1>10 DEF FillIsExclusive, OneStaysOne, At
<1> QED BY <1>5, <1>6, <1>7, <1>8, <1>9, <1>11 DEF IInv

(* cowalloc adds a reference, and the count does not wrap.                 *)
LEMMA CowallocIncStep ==
  ASSUME IInv, NEW t \in Threads, NEW f \in Frames, CowallocInc(t, f)
  PROVE  IInv'
<1> DEFINE u == op[t].heir
<1>1. /\ At(t, "cowalloc_inc", f)
      /\ mem_rc' = [mem_rc EXCEPT ![f] = SignedChar(@ + 1)]
      /\ refs' = [refs EXCEPT ![f] = @ \cup {u}]
      /\ op' = [op EXCEPT ![t] = Idle]
      /\ UNCHANGED <<freelist, mem>>
  BY DEF CowallocInc, AddRef, Return
<1>2. /\ t \in refs[f] /\ u \in Threads \ refs[f]
      /\ refs \in [Frames -> SUBSET Threads]
  BY <1>1 DEF IInv, TypeOK, CallersHold, At
<1>3. \A s \in Threads \ {t} : ~(At(s, "cowalloc_inc", f) /\ op[s].heir = u)
  BY <1>1 DEF IInv, CallersHold
<1> HIDE DEF u
<1>4. /\ mem_rc[f] = Cardinality(refs[f])
      /\ Cardinality(refs[f] \cup {u}) = mem_rc[f] + 1
      /\ mem_rc[f] + 1 \in 0..RcMax
  BY <1>2, AddOne DEF IInv, RcExact
<1>5. mem_rc' = [mem_rc EXCEPT ![f] = @ + 1]
  BY <1>1, <1>4, SignedCharFits
<1>6. TypeOK'
  BY <1>1, <1>2, <1>4, <1>5 DEF IInv, TypeOK
<1>7. CallersHold'
  BY <1>1, <1>2, <1>3 DEF IInv, TypeOK, CallersHold, Idle, Call, At
<1>8. RcExact'
  BY <1>1, <1>2, <1>4, <1>5 DEF IInv, TypeOK, RcExact
<1>9. FreelistExact'
  BY <1>1, <1>2 DEF IInv, FreelistExact
<1>10. NoPanic'
  BY <1>1 DEF IInv, TypeOK, NoPanic, Idle, Call
<1>11. ASSUME NEW s \in Threads, NEW g \in Frames
       PROVE  /\ (\E pc \in {"kfree_fill", "kfree_push", "kalloc_fill"} : At(s, pc, g))'
                 => refs'[g] = {s}
              /\ At(s, "have_rc", g)' /\ op'[s].rc = 1 => refs'[g] = {s}
  <2>1. CASE s = t
    BY <1>1, <2>1 DEF IInv, TypeOK, At, Call, Idle
  <2>2. CASE s # t /\ g = f
    <3>1. op'[s] = op[s]
      BY <1>1, <2>2 DEF IInv, TypeOK
    <3>2. ~(\E pc \in {"kfree_fill", "kfree_push", "kalloc_fill"} : At(s, pc, g))
          /\ ~(At(s, "have_rc", g) /\ op[s].rc = 1)
      BY <1>2, <2>2 DEF IInv, FillIsExclusive, OneStaysOne
    <3> QED BY <3>1, <3>2, <2>2 DEF At
  <2>3. CASE s # t /\ g # f
    <3>1. op'[s] = op[s] /\ refs'[g] = refs[g]
      BY <1>1, <1>2, <2>3 DEF IInv, TypeOK
    <3> QED BY <3>1 DEF IInv, FillIsExclusive, OneStaysOne, At
  <2> QED BY <2>1, <2>2, <2>3
<1>12. FillIsExclusive' /\ OneStaysOne'
  BY <1>11 DEF FillIsExclusive, OneStaysOne, At
<1> QED BY <1>6, <1>7, <1>8, <1>9, <1>10, <1>12 DEF IInv

-----------------------------------------------------------------------------
(* Every step keeps the invariant.                                         *)
LEMMA IInvNext == IInv /\ [Next]_vars => IInv'
<1> SUFFICES ASSUME IInv, [Next]_vars PROVE IInv'
  OBVIOUS
<1>1. CASE UNCHANGED vars
  BY <1>1, StutterStep
<1>2. ASSUME NEW t \in Threads, KallocNone(t) PROVE IInv'
  BY <1>2, StutterStep DEF KallocNone, FreelistEmpty, vars
<1>3. ASSUME NEW t \in Threads, NEW f \in Frames, KallocOp(t, f) PROVE IInv'
  BY <1>3, KallocPopStep, KallocFillStep DEF KallocOp
<1>4. ASSUME NEW t \in Threads, NEW f \in Frames, KfreeOp(t, f) PROVE IInv'
  BY <1>4, KfreeCallStep, KfreeSharedStep, KfreeLastStep, KfreeFillStep, KfreePushStep
  DEF KfreeOp
<1>5. ASSUME NEW t \in Threads, NEW f \in Frames, CowallocOp(t, f) PROVE IInv'
  BY <1>5, CowallocCallStep, CowallocIncStep DEF CowallocOp
<1>6. ASSUME NEW t \in Threads, NEW f \in Frames, KmemrcOp(t, f) PROVE IInv'
  <2>1. CASE Kmemrc(t, f)
    BY <2>1, KmemrcStep
  <2>2. CASE KmemrcUsed(t, f)
    BY <2>2, KmemrcEndStep DEF KmemrcUsed
  <2>3. CASE \E d \in Data : StoreInPlace(t, f, d)
    BY <2>3, KmemrcEndStep DEF StoreInPlace
  <2> QED BY <1>6, <2>1, <2>2, <2>3 DEF KmemrcOp
<1> QED BY <1>1, <1>2, <1>3, <1>4, <1>5, <1>6 DEF Next

(* IInv holds in every reachable state.                                    *)
THEOREM Invariance == Spec => []IInv
BY IInvInit, IInvNext, PTL DEF Spec

(* The count of a page is the number of references to it; kalloc.c keeps   *)
(* it in a signed char, and it never wraps to a negative number.           *)
THEOREM CountsAreExact == Spec => []CountsInv
<1>1. IInv => CountsInv
  BY DEF IInv, CountsInv
<1> QED BY <1>1, Invariance, PTL

(* A page is on the free list, once, exactly when nobody refers to it: it  *)
(* is never handed out twice, and none is ever lost.                       *)
THEOREM FreelistIsExact == Spec => []FreelistExact
<1>1. IInv => FreelistExact
  BY DEF IInv
<1> QED BY <1>1, Invariance, PTL

(* The checks that kfree and cowalloc make without the lock never panic.   *)
THEOREM NeverPanics == Spec => []NoPanic
<1>1. IInv => NoPanic
  BY DEF IInv
<1> QED BY <1>1, Invariance, PTL

(* A page is filled with junk outside the lock only while the thread that  *)
(* fills it is the only one to refer to it.                                *)
THEOREM FillsAreExclusive == Spec => []FillIsExclusive
<1>1. IInv => FillIsExclusive
  BY DEF IInv
<1> QED BY <1>1, Invariance, PTL

(* A count of 1 stays 1 after kmemrc has released the lock.                *)
THEOREM OneIsStable == Spec => []OneStaysOne
<1>1. IInv => OneStaysOne
  BY DEF IInv
<1> QED BY <1>1, Invariance, PTL

-----------------------------------------------------------------------------
(* What a page holds changes only in the hands of its one holder.          *)
LEMMA ContentStep ==
  ASSUME IInv, Next, NEW g \in Frames, mem'[g] # mem[g]
  PROVE  \E t \in Threads : op[t].pa = g /\ refs[g] = {t}
<1>1. PICK t \in Threads, f \in Frames :
         \/ KallocFill(t, f)
         \/ KfreeFill(t, f)
         \/ \E d \in Data : StoreInPlace(t, f, d)
  BY DEF Next, KallocOp, KfreeOp, CowallocOp, KmemrcOp, KallocNone, KallocPop, KfreeCall,
         KfreeShared, KfreeLast, KfreePush, CowallocCall, CowallocInc, Kmemrc, KmemrcUsed
<1>2. At(t, "kalloc_fill", f) \/ At(t, "kfree_fill", f) \/ (At(t, "have_rc", f) /\ op[t].rc = 1)
  BY <1>1 DEF KallocFill, KfreeFill, StoreInPlace
<1>3. refs[f] = {t}
  BY <1>2 DEF IInv, FillIsExclusive, OneStaysOne
<1>4. \E v : mem' = [mem EXCEPT ![f] = v]
  BY <1>1 DEF KallocFill, KfreeFill, StoreInPlace, Fill
<1>5. g = f
  BY <1>4 DEF IInv, TypeOK
<1> QED BY <1>2, <1>3, <1>5 DEF At

(* No junk and no store reaches a page that two threads refer to, or one   *)
(* that is free.                                                           *)
THEOREM ContentIsExclusive == Spec => ContentChangesAlone
<1>1. IInv /\ [Next]_vars =>
        [\A f \in Frames : mem'[f] # mem[f] =>
           \E t \in Threads : op[t].pa = f /\ refs[f] = {t}]_vars
  BY ContentStep
<1> QED BY <1>1, Invariance, PTL DEF Spec, ContentChangesAlone

-----------------------------------------------------------------------------
(* A step of t outside cowalloc leaves what is being given away alone.     *)
LEMMA GivingSame ==
  ASSUME TypeOK, NEW t \in Threads, NEW call,
         op' = [op EXCEPT ![t] = call],
         op[t].pc # "cowalloc_inc", call.pc # "cowalloc_inc"
  PROVE  Giving' = Giving /\ Giving[t] = NoThread
BY DEF Giving, TypeOK

(* The free list and the counts implement FrameRefs.  A page leaves the    *)
(* list only when nobody refers to it; a reference is added only for the   *)
(* heir that the call of cowalloc has named.                               *)
LEMMA RefinementStep ==
  ASSUME IInv, [Next]_vars
  PROVE  [Abstract!Next]_(Abstract!vars)
<1> USE DEF Abstract!vars
<1>1. CASE UNCHANGED vars
  BY <1>1 DEF vars, Giving
<1>2. CASE \E t \in Threads : KallocNone(t)
  BY <1>2 DEF KallocNone, Giving
<1>3. ASSUME NEW t \in Threads, NEW f \in Frames, KallocPop(t, f)
      PROVE  Abstract!Next
  <2>1. freelist # <<>> /\ f = Head(freelist) /\ refs' = [refs EXCEPT ![f] = @ \cup {t}]
    BY <1>3 DEF KallocPop, PopFrame
  <2>2. InList(f, freelist)
    BY <2>1, TailList, FreelistAsList DEF IInv, TypeOK
  <2>3. refs[f] = {}
    BY <2>2, FreelistAsList DEF IInv
  <2>4. UNCHANGED Giving
    <3>1. op' = [op EXCEPT ![t] = Call("kalloc_fill", f, NoThread, 0)] /\ op[t].pc = "idle"
      BY <1>3 DEF KallocPop, GoTo
    <3>2. op[t].pc # "cowalloc_inc" /\ Call("kalloc_fill", f, NoThread, 0).pc # "cowalloc_inc"
      BY <3>1 DEF Call
    <3>3. TypeOK
      BY DEF IInv
    <3> QED BY <3>1, <3>2, <3>3, GivingSame
  <2>5. Abstract!Alloc(t, f)
    BY <2>1, <2>3, <2>4 DEF Abstract!Alloc
  <2> QED BY <2>5 DEF Abstract!Next
<1>4. ASSUME NEW t \in Threads, NEW f \in Frames, KfreeShared(t, f) \/ KfreePush(t, f)
      PROVE  Abstract!Next
  <2>1. t \in refs[f] /\ refs' = [refs EXCEPT ![f] = @ \ {t}]
    BY <1>4 DEF IInv, CallersHold, KfreeShared, KfreePush, At
  <2>2. UNCHANGED Giving /\ Giving[t] = NoThread
    BY <1>4, GivingSame DEF KfreeShared, KfreePush, Return, Idle, Call, At, IInv
  <2>3. Abstract!Drop(t, f)
    BY <2>1, <2>2 DEF Abstract!Drop
  <2> QED BY <2>3 DEF Abstract!Next
<1>5. ASSUME NEW t \in Threads, NEW f \in Frames, NEW u \in Threads, CowallocCall(t, u, f)
      PROVE  Abstract!Next
  <2>1. t \in refs[f] /\ u \notin refs[f] /\ UNCHANGED refs
    BY <1>5 DEF CowallocCall
  <2>2. ~BadRc(f)
    BY <2>1, HeldIsNotBad
  <2>3. op' = [op EXCEPT ![t] = Call("cowalloc_inc", f, u, 0)] /\ op[t].pc = "idle"
    BY <1>5, <2>2 DEF CowallocCall
  <2>4. Giving[t] = NoThread /\ Giving' = [Giving EXCEPT ![t] = <<f, u>>]
    BY <2>3 DEF Giving, Call, IInv, TypeOK
  <2>5. Abstract!Offer(t, u, f)
    BY <2>1, <2>4 DEF Abstract!Offer
  <2> QED BY <2>5 DEF Abstract!Next
<1>6. ASSUME NEW t \in Threads, NEW f \in Frames, CowallocInc(t, f)
      PROVE  Abstract!Next
  <2>1. /\ t \in refs[f] /\ op[t].heir \in Threads \ refs[f]
        /\ refs' = [refs EXCEPT ![f] = @ \cup {op[t].heir}]
    BY <1>6 DEF IInv, CallersHold, CowallocInc, At
  <2>2. op[t].pc = "cowalloc_inc" /\ op[t].pa = f /\ op' = [op EXCEPT ![t] = Idle]
    BY <1>6 DEF CowallocInc, At, Return
  <2>3. Giving[t] = <<f, op[t].heir>> /\ Giving' = [Giving EXCEPT ![t] = NoThread]
    BY <2>2 DEF Giving, Idle, Call, IInv, TypeOK
  <2>4. Abstract!Share(t, op[t].heir, f)
    BY <2>1, <2>3 DEF Abstract!Share
  <2> QED BY <2>1, <2>4 DEF Abstract!Next
<1>7. ASSUME NEW t \in Threads, NEW f \in Frames,
             \/ KallocFill(t, f) \/ KfreeLast(t, f) \/ KfreeFill(t, f)
             \/ KmemrcUsed(t, f) \/ \E d \in Data : StoreInPlace(t, f, d)
      PROVE  UNCHANGED <<refs, Giving>>
  BY <1>7, GivingSame DEF KallocFill, KfreeLast, KfreeFill, KmemrcUsed, StoreInPlace,
     GoTo, Return, Idle, Call, At, IInv
<1>8. ASSUME NEW t \in Threads, NEW f \in Frames, KfreeCall(t, f) \/ Kmemrc(t, f)
      PROVE  UNCHANGED <<refs, Giving>>
  BY <1>8, GivingSame DEF KfreeCall, Kmemrc, GoTo, Call, IInv
<1> QED BY <1>1, <1>2, <1>3, <1>4, <1>5, <1>6, <1>7, <1>8
        DEF Next, KallocOp, KfreeOp, CowallocOp, KmemrcOp

(* kalloc.c implements the specification of page ownership.                *)
THEOREM Refinement == Spec => ImplementsFrameRefs
<1>1. Init => Abstract!Init
  BY DEF Init, Abstract!Init, Giving, Idle, Call
<1>2. IInv /\ [Next]_vars => [Abstract!Next]_(Abstract!vars)
  BY RefinementStep
<1> QED BY <1>1, <1>2, Invariance, PTL DEF Spec, ImplementsFrameRefs, Abstract!Spec
=============================================================================
