-------------------------- MODULE PageTableProofs --------------------------
(***************************************************************************)
(* Proofs about PageTable, and about the operators of UserVm that build,   *)
(* copy and free one address space, for any size of memory and of the      *)
(* tables: who owns which page, what walk() finds, and what each function  *)
(* does to both when memory lasts and when it does not.                    *)
(***************************************************************************)
EXTENDS UserVm, FiniteSetTheorems, WellFoundedInduction, TLAPS

USE SizeAssumption

-----------------------------------------------------------------------------
(* Numbers.                                                                *)

(* Every set of numbers has a least one.                                   *)
LEMMA LeastNumber ==
  ASSUME NEW S \in SUBSET Nat, S # {}
  PROVE  \E n \in S : \A k \in S : n <= k
<1>1. PICK n \in S : \A k \in S : ~(<<k, n>> \in OpToRel(<, Nat))
  BY WFMin, NatLessThanWellFounded
<1>2. ASSUME NEW k \in S PROVE n <= k
  <2>1. k \in Nat /\ n \in Nat /\ <<k, n>> \notin OpToRel(<, Nat)
    BY <1>1
  <2>2. <<k, n>> \in Nat \X Nat /\ <<k, n>>[1] = k /\ <<k, n>>[2] = n
    BY <2>1
  <2>3. ~(k < n)
    BY <2>1, <2>2 DEF OpToRel
  <2>4. k \in Nat /\ n \in Nat
    OBVIOUS
  <2> QED BY <2>3, <2>4
<1> QED BY <1>2

(* Induction, over the set of the numbers that have a property.            *)
LEMMA SetInduction ==
  ASSUME NEW S, 0 \in S, \A n \in Nat : n \in S => n + 1 \in S
  PROVE  \A n \in Nat : n \in S
<1> SUFFICES ASSUME Nat \ S # {} PROVE FALSE
  OBVIOUS
<1>1. PICK n \in Nat \ S : \A k \in Nat \ S : n <= k
  BY LeastNumber
<1>2. n # 0 /\ n - 1 \in Nat
  BY <1>1
<1>3. n - 1 \in S
  BY <1>1, <1>2
<1>4. (n - 1) + 1 = n
  BY <1>1
<1> QED BY <1>1, <1>2, <1>3, <1>4

(* Quotient and remainder.                                                 *)
LEMMA Division ==
  ASSUME NEW a \in Nat, NEW b \in Nat \ {0}
  PROVE  /\ a \div b \in Nat /\ a % b \in 0..(b - 1)
         /\ a = b * (a \div b) + (a % b)
OBVIOUS

LEMMA Quotient ==
  ASSUME NEW b \in Nat \ {0}, NEW q \in Nat, NEW r \in 0..(b - 1)
  PROVE  (b * q + r) \div b = q /\ (b * q + r) % b = r
OBVIOUS

LEMMA Products ==
  ASSUME NEW a \in Nat, NEW b \in Nat, NEW c \in Nat
  PROVE  /\ a * (b + c) = a * b + a * c /\ a * (b * c) = (a * b) * c
         /\ a * b \in Nat /\ (a * b = c * b /\ b # 0 => a = c)
<1>1. /\ a * (b + c) = a * b + a * c /\ a * (b * c) = (a * b) * c /\ a * b \in Nat
  OBVIOUS
<1>2. ASSUME a * b = c * b, b # 0 PROVE a = c
  <2>1. (b * a + 0) \div b = a /\ (b * c + 0) \div b = c
    BY <1>2, Quotient
  <2> QED BY <1>2, <2>1
<1> QED BY <1>1, <1>2

-----------------------------------------------------------------------------
(* The tables of an address space.                                         *)
VA == 0..(MAXVA - 1)
Half == Fan \div 2

LEMMA Layout ==
  /\ Half \in Nat /\ Fan = 2 * Half /\ Half > 0
  /\ MAXVA = Half * (Fan * Fan)
  /\ MAXVA \in Nat /\ USYSCALL \in Nat /\ USYSCALL > NFrames
  /\ TRAPFRAME = USYSCALL + 1 /\ TRAMPOLINE = USYSCALL + 2 /\ MAXVA = USYSCALL + 3
  /\ VA \subseteq Nat
<1>1. Half \in Nat /\ Fan = 2 * Half /\ Half > 0
  BY DEF Half
<1>2. Fan * Fan \in Nat
  OBVIOUS
<1> DEFINE s == Fan * Fan
<1>3. Fan * Fan * Fan = 2 * (Half * s)
  <2>1. Fan * Fan * Fan = s * Fan
    OBVIOUS
  <2>2. s * Fan = s * (2 * Half)
    BY <1>1
  <2>3. s * (2 * Half) = 2 * (Half * s)
    BY <1>1, <1>2
  <2> QED BY <2>1, <2>2, <2>3
<1>4. Half * s \in Nat
  BY <1>1, <1>2
<1>5. MAXVA = Half * s
  <2> HIDE DEF s
  <2>1. (2 * (Half * s)) \div 2 = Half * s
    BY <1>4
  <2> QED BY <2>1, <1>3 DEF MAXVA
<1>6. MAXVA \in Nat
  BY <1>4, <1>5
<1>7. TRAPFRAME = USYSCALL + 1 /\ TRAMPOLINE = USYSCALL + 2 /\ MAXVA = USYSCALL + 3 /\ USYSCALL \in Int
  BY <1>6 DEF TRAPFRAME, TRAMPOLINE, USYSCALL
<1>8. USYSCALL \in Nat /\ USYSCALL > NFrames
  BY <1>7, MemoryAssumption
<1> QED BY <1>1, <1>5, <1>6, <1>7, <1>8 DEF VA

(* The three indices of a page, and that they identify it.                 *)
LEMMA Indices ==
  ASSUME NEW v \in VA
  PROVE  /\ PX(2, v) \in 0..(Half - 1) /\ PX(2, v) \in Entries
         /\ PX(1, v) \in Entries /\ PX(0, v) \in Entries
         /\ v = (PX(2, v) * Fan + PX(1, v)) * Fan + PX(0, v)
<1> DEFINE a == v \div Fan
           c == a \div Fan
<1>1. v \in Nat /\ v < Half * (Fan * Fan) /\ Half \in Nat /\ Fan = 2 * Half
  BY Layout DEF VA
<1>2. /\ a \in Nat /\ v % Fan \in 0..(Fan - 1) /\ v = Fan * a + (v % Fan)
  BY <1>1, Division
<1>3. /\ c \in Nat /\ a % Fan \in 0..(Fan - 1) /\ a = Fan * c + (a % Fan)
  BY <1>2, Division
<1> HIDE DEF a, c
<1> DEFINE s == Fan * Fan
           r == Fan * (a % Fan) + (v % Fan)
<1>4. s \in Nat \ {0} /\ r \in 0..(s - 1) /\ v = s * c + r
  <2>1. v = Fan * (Fan * c + (a % Fan)) + (v % Fan)
    BY <1>2, <1>3
  <2>2. Fan * (Fan * c + (a % Fan)) = s * c + Fan * (a % Fan)
    <3>1. Fan * c \in Nat /\ Fan * (Fan * c) = s * c
      BY <1>3, Products
    <3> QED BY <1>3, <3>1, Products
  <2>3. Fan * (a % Fan) \in Nat /\ Fan * (a % Fan) <= Fan * (Fan - 1)
    BY <1>3
  <2>4. Fan * (Fan - 1) = s - Fan
    OBVIOUS
  <2> QED BY <1>2, <1>3, <2>1, <2>2, <2>3, <2>4
<1>5. v \div s = c
  <2> HIDE DEF s, r
  <2> QED BY <1>3, <1>4, Quotient
<1>6. c < Half
  <2>1. CASE c >= Half
    <3>1. c * s >= Half * s
      <4> HIDE DEF s
      <4> QED BY <1>1, <1>3, <1>4, <2>1
    <3> QED BY <1>1, <1>3, <1>4, <3>1
  <2> QED BY <2>1, <1>1, <1>3
<1>7. c % Fan = c
  BY <1>1, <1>3, <1>6
<1>8. PX(2, v) = c
  BY <1>5, <1>7 DEF PX, Reach
<1>9. PX(1, v) = a % Fan /\ PX(0, v) = v % Fan
  BY <1>1 DEF PX, Reach, a
<1>10. v = (c * Fan + (a % Fan)) * Fan + (v % Fan)
  <2>1. Fan * a = a * Fan /\ Fan * c = c * Fan
    BY <1>2, <1>3
  <2> QED BY <1>2, <1>3, <2>1
<1>11. c \in 0..(Half - 1) /\ c \in 0..(Fan - 1)
  BY <1>1, <1>3, <1>6
<1> QED BY <1>2, <1>3, <1>8, <1>9, <1>10, <1>11 DEF Entries

(* Every entry below the top half is the one of a page.                    *)
LEMMA PageOf ==
  ASSUME NEW i \in 0..(Half - 1), NEW j \in Entries, NEW k \in Entries
  PROVE  \E v \in VA : PX(2, v) = i /\ PX(1, v) = j /\ PX(0, v) = k
<1> DEFINE a == Fan * i + j
           v == Fan * a + k
<1>1. i \in Nat /\ j \in 0..(Fan - 1) /\ k \in 0..(Fan - 1) /\ Half \in Nat /\ Fan = 2 * Half
  BY Layout DEF Entries
<1>2. a \in Nat /\ v \in Nat
  BY <1>1
<1>3. a \div Fan = i /\ a % Fan = j
  BY <1>1, Quotient
<1> HIDE DEF a
<1>4. v \div Fan = a /\ v % Fan = k
  BY <1>1, <1>2, Quotient
<1>5. v < MAXVA
  <2>1. Fan * i <= Fan * (Half - 1)
    BY <1>1
  <2>2. Fan * (Half - 1) = Fan * Half - Fan
    BY <1>1
  <2>3. a <= Fan * Half - 1 /\ Fan * Half \in Nat
    BY <1>1, <2>1, <2>2 DEF a
  <2>4. Fan * a <= Fan * (Fan * Half - 1)
    BY <1>2, <2>3
  <2>5. Fan * (Fan * Half - 1) = Fan * (Fan * Half) - Fan
    BY <2>3
  <2>6. Fan * (Fan * Half) = Half * (Fan * Fan)
    BY <1>1
  <2>7. v < Half * (Fan * Fan)
    BY <1>1, <1>2, <2>3, <2>4, <2>5, <2>6
  <2> QED BY <2>7, Layout
<1> HIDE DEF v
<1>6. v \in VA
  BY <1>2, <1>5, Layout DEF VA
<1>7. PX(0, v) = k /\ PX(1, v) = j
  BY <1>2, <1>3, <1>4 DEF PX, Reach
<1>8. PX(2, v) = i
  <2>1. v = (PX(2, v) * Fan + PX(1, v)) * Fan + PX(0, v) /\ PX(2, v) \in Nat
    BY <1>6, Indices
  <2>2. v = (i * Fan + j) * Fan + k
    BY <1>1, <1>2 DEF v, a
  <2>3. PX(2, v) * Fan + j = i * Fan + j
    <3>1. PX(2, v) * Fan + j \in Nat /\ i * Fan + j \in Nat
      BY <1>1, <2>1
    <3>2. (PX(2, v) * Fan + j) * Fan = (i * Fan + j) * Fan
      <4>1. v = (PX(2, v) * Fan + j) * Fan + k
        BY <1>7, <2>1
      <4> DEFINE x == (PX(2, v) * Fan + j) * Fan
                 y == (i * Fan + j) * Fan
      <4>2. x \in Nat /\ y \in Nat /\ v = x + k /\ v = y + k
        BY <1>1, <2>2, <3>1, <4>1
      <4> HIDE DEF x, y
      <4>3. x = y
        BY <1>1, <4>2
      <4> QED BY <4>3 DEF x, y
    <3> QED BY <3>1, <3>2, Products
  <2>4. PX(2, v) * Fan = i * Fan
    <3>1. PX(2, v) * Fan \in Nat /\ i * Fan \in Nat
      BY <1>1, <2>1
    <3> QED BY <1>1, <2>3, <3>1
  <2> QED BY <1>1, <2>1, <2>4, Products
<1> QED BY <1>6, <1>7, <1>8

-----------------------------------------------------------------------------
(* What the loops of the code do, iteration by iteration.                  *)

(* uvmunmap().                                                             *)
Find(w, r, v) == Walk(w, r, v, FALSE)
Unmap(w, r, v, df) == UnmapIn(Find(w, r, v), v, df)

UnmapTurns(f, w, r, va, n, df) ==
  f[0] = w /\ \A k \in 0..(n - 1) : f[k + 1] = Unmap(f[k], r, va + k, df)

LEMMA UvmunmapRun ==
  ASSUME NEW w, NEW r, NEW va, NEW n \in Nat, NEW df
  PROVE  \E f : UnmapTurns(f, w, r, va, n, df) /\ Uvmunmap(w, r, va, n, df) = f[n]
<1> DEFINE Turn(x, i) == UnmapIn(Walk(x, r, va + i, FALSE), va + i, df)
           Start == w
           Run(f, N) == f = [k \in 0..N |-> IF k = 0 THEN Start ELSE Turn(f[k - 1], k - 1)]
<1> HIDE DEF Turn, Start
<1>1. \A N \in Nat : \E f : Run(f, N)
  <2> DEFINE S == {N \in Nat : \E f : Run(f, N)}
  <2>1. 0 \in S
    <3>1. Run([k \in 0..0 |-> Start], 0)
      OBVIOUS
    <3> QED BY <3>1
  <2>2. ASSUME NEW N \in Nat, N \in S PROVE N + 1 \in S
    <3>1. PICK f : Run(f, N)
      BY <2>2
    <3> DEFINE g == [k \in 0..(N + 1) |-> IF k = N + 1 THEN Turn(f[N], N) ELSE f[k]]
    <3>2. Run(g, N + 1)
      BY <3>1
    <3> HIDE DEF g, Run
    <3> QED BY <3>2
  <2> HIDE DEF S
  <2>3. \A N \in Nat : N \in S
    BY <2>1, <2>2, SetInduction
  <2> QED BY <2>3 DEF S
<1> DEFINE F == CHOOSE f : Run(f, n)
<1>2. Run(F, n)
  BY <1>1
<1>3. Uvmunmap(w, r, va, n, df) = F[n]
  BY DEF Uvmunmap, Loop, Turn, Start
<1> HIDE DEF F
<1>4. F[0] = Start /\ \A k \in 0..(n - 1) : F[k + 1] = Turn(F[k], k)
  BY <1>2
<1> QED BY <1>3, <1>4 DEF Turn, Start, UnmapTurns, Unmap, Find

(* uvmalloc().                                                             *)
AllocTurn(x, r, k, oldsz, newsz) ==
  IF x.ret = 0 THEN x ELSE MapOrFail(Kalloc(x), r, Pages(oldsz) + k, oldsz, newsz)

AllocTurns(f, w, r, n, oldsz, newsz) ==
  f[0] = Ret(w, newsz) /\ \A k \in 0..(n - 1) : f[k + 1] = AllocTurn(f[k], r, k, oldsz, newsz)

LEMMA UvmallocRun ==
  ASSUME NEW w, NEW r, NEW oldsz, NEW newsz, NEW n \in Nat, ~(newsz < oldsz), n = Pages(newsz) - Pages(oldsz)
  PROVE  \E f : AllocTurns(f, w, r, n, oldsz, newsz) /\ Uvmalloc(w, r, oldsz, newsz) = f[n]
<1> DEFINE Turn(x, i) == (IF x.ret = 0 THEN x ELSE MapOrFail(Kalloc(x), r, Pages(oldsz) + i, oldsz, newsz))
           Start == Ret(w, newsz)
           Run(f, N) == f = [k \in 0..N |-> IF k = 0 THEN Start ELSE Turn(f[k - 1], k - 1)]
<1> HIDE DEF Turn, Start
<1>1. \A N \in Nat : \E f : Run(f, N)
  <2> DEFINE S == {N \in Nat : \E f : Run(f, N)}
  <2>1. 0 \in S
    <3>1. Run([k \in 0..0 |-> Start], 0)
      OBVIOUS
    <3> QED BY <3>1
  <2>2. ASSUME NEW N \in Nat, N \in S PROVE N + 1 \in S
    <3>1. PICK f : Run(f, N)
      BY <2>2
    <3> DEFINE g == [k \in 0..(N + 1) |-> IF k = N + 1 THEN Turn(f[N], N) ELSE f[k]]
    <3>2. Run(g, N + 1)
      BY <3>1
    <3> HIDE DEF g, Run
    <3> QED BY <3>2
  <2> HIDE DEF S
  <2>3. \A N \in Nat : N \in S
    BY <2>1, <2>2, SetInduction
  <2> QED BY <2>3 DEF S
<1> DEFINE F == CHOOSE f : Run(f, n)
<1>2. Run(F, n)
  BY <1>1
<1>3. Uvmalloc(w, r, oldsz, newsz) = F[n]
  BY DEF Uvmalloc, Loop, Turn, Start
<1> HIDE DEF F
<1>4. F[0] = Start /\ \A k \in 0..(n - 1) : F[k + 1] = Turn(F[k], k)
  BY <1>2
<1> QED BY <1>3, <1>4 DEF Turn, Start, AllocTurns, AllocTurn

FreeEntry(x, t, i, y) ==
  IF ~Valid(x.pt[t][i]) THEN x
  ELSE IF IsLeaf(x.pt[t][i]) THEN Panic(x, "freewalk: leaf")
  ELSE [y EXCEPT !.pt[t][i] = NoPte]

(* freewalk, of a table. *)
LEMMA FreeLevel0Run ==
  ASSUME NEW w, NEW t, NEW n \in Nat, n = Fan
  PROVE  \E f : /\ f[0] = w
               /\ \A k \in 0..(n - 1) : f[k + 1] = FreeEntry(f[k], t, k, NoFourthLevel(f[k], f[k].pt[t][k].pa))
               /\ FreeLevel0(w, t) = Kfree(f[n], t)
<1> DEFINE Turn(x, i) == FreeEntry(x, t, i, NoFourthLevel(x, x.pt[t][i].pa))
           Start == w
           Run(f, N) == f = [k \in 0..N |-> IF k = 0 THEN Start ELSE Turn(f[k - 1], k - 1)]
<1> HIDE DEF Turn, Start
<1>1. \A N \in Nat : \E f : Run(f, N)
  <2> DEFINE S == {N \in Nat : \E f : Run(f, N)}
  <2>1. 0 \in S
    <3>1. Run([k \in 0..0 |-> Start], 0)
      OBVIOUS
    <3> QED BY <3>1
  <2>2. ASSUME NEW N \in Nat, N \in S PROVE N + 1 \in S
    <3>1. PICK f : Run(f, N)
      BY <2>2
    <3> DEFINE g == [k \in 0..(N + 1) |-> IF k = N + 1 THEN Turn(f[N], N) ELSE f[k]]
    <3>2. Run(g, N + 1)
      BY <3>1
    <3> HIDE DEF g, Run
    <3> QED BY <3>2
  <2> HIDE DEF S
  <2>3. \A N \in Nat : N \in S
    BY <2>1, <2>2, SetInduction
  <2> QED BY <2>3 DEF S
<1> DEFINE F == CHOOSE f : Run(f, n)
<1>2. Run(F, n)
  BY <1>1
<1>3. FreeLevel0(w, t) = Kfree(F[n], t)
  BY DEF FreeLevel0, FreeTable, Loop, FreeEntry, Turn, Start
<1> HIDE DEF F
<1>4. F[0] = Start /\ \A k \in 0..(n - 1) : F[k + 1] = Turn(F[k], k)
  BY <1>2
<1> QED BY <1>3, <1>4 DEF Turn, Start

(* freewalk, of a table. *)
LEMMA FreeLevel1Run ==
  ASSUME NEW w, NEW t, NEW n \in Nat, n = Fan
  PROVE  \E f : /\ f[0] = w
               /\ \A k \in 0..(n - 1) : f[k + 1] = FreeEntry(f[k], t, k, FreeLevel0(f[k], f[k].pt[t][k].pa))
               /\ FreeLevel1(w, t) = Kfree(f[n], t)
<1> DEFINE Turn(x, i) == FreeEntry(x, t, i, FreeLevel0(x, x.pt[t][i].pa))
           Start == w
           Run(f, N) == f = [k \in 0..N |-> IF k = 0 THEN Start ELSE Turn(f[k - 1], k - 1)]
<1> HIDE DEF Turn, Start
<1>1. \A N \in Nat : \E f : Run(f, N)
  <2> DEFINE S == {N \in Nat : \E f : Run(f, N)}
  <2>1. 0 \in S
    <3>1. Run([k \in 0..0 |-> Start], 0)
      OBVIOUS
    <3> QED BY <3>1
  <2>2. ASSUME NEW N \in Nat, N \in S PROVE N + 1 \in S
    <3>1. PICK f : Run(f, N)
      BY <2>2
    <3> DEFINE g == [k \in 0..(N + 1) |-> IF k = N + 1 THEN Turn(f[N], N) ELSE f[k]]
    <3>2. Run(g, N + 1)
      BY <3>1
    <3> HIDE DEF g, Run
    <3> QED BY <3>2
  <2> HIDE DEF S
  <2>3. \A N \in Nat : N \in S
    BY <2>1, <2>2, SetInduction
  <2> QED BY <2>3 DEF S
<1> DEFINE F == CHOOSE f : Run(f, n)
<1>2. Run(F, n)
  BY <1>1
<1>3. FreeLevel1(w, t) = Kfree(F[n], t)
  BY DEF FreeLevel1, FreeTable, Loop, FreeEntry, Turn, Start
<1> HIDE DEF F
<1>4. F[0] = Start /\ \A k \in 0..(n - 1) : F[k + 1] = Turn(F[k], k)
  BY <1>2
<1> QED BY <1>3, <1>4 DEF Turn, Start

(* freewalk, of a table. *)
LEMMA FreewalkRun ==
  ASSUME NEW w, NEW t, NEW n \in Nat, n = Fan
  PROVE  \E f : /\ f[0] = w
               /\ \A k \in 0..(n - 1) : f[k + 1] = FreeEntry(f[k], t, k, FreeLevel1(f[k], f[k].pt[t][k].pa))
               /\ Freewalk(w, t) = Kfree(f[n], t)
<1> DEFINE Turn(x, i) == FreeEntry(x, t, i, FreeLevel1(x, x.pt[t][i].pa))
           Start == w
           Run(f, N) == f = [k \in 0..N |-> IF k = 0 THEN Start ELSE Turn(f[k - 1], k - 1)]
<1> HIDE DEF Turn, Start
<1>1. \A N \in Nat : \E f : Run(f, N)
  <2> DEFINE S == {N \in Nat : \E f : Run(f, N)}
  <2>1. 0 \in S
    <3>1. Run([k \in 0..0 |-> Start], 0)
      OBVIOUS
    <3> QED BY <3>1
  <2>2. ASSUME NEW N \in Nat, N \in S PROVE N + 1 \in S
    <3>1. PICK f : Run(f, N)
      BY <2>2
    <3> DEFINE g == [k \in 0..(N + 1) |-> IF k = N + 1 THEN Turn(f[N], N) ELSE f[k]]
    <3>2. Run(g, N + 1)
      BY <3>1
    <3> HIDE DEF g, Run
    <3> QED BY <3>2
  <2> HIDE DEF S
  <2>3. \A N \in Nat : N \in S
    BY <2>1, <2>2, SetInduction
  <2> QED BY <2>3 DEF S
<1> DEFINE F == CHOOSE f : Run(f, n)
<1>2. Run(F, n)
  BY <1>1
<1>3. Freewalk(w, t) = Kfree(F[n], t)
  BY DEF Freewalk, FreeTable, Loop, FreeEntry, Turn, Start
<1> HIDE DEF F
<1>4. F[0] = Start /\ \A k \in 0..(n - 1) : F[k + 1] = Turn(F[k], k)
  BY <1>2
<1> QED BY <1>3, <1>4 DEF Turn, Start

(* uvmcopy().                                                              *)
CopyTurn(x, old, new, k) ==
  IF x.ret # 0 THEN x
  ELSE IF ~Valid(PteAt(x, old, k)) THEN Panic(x, "uvmcopy: page not present")
  ELSE CopyOrFail(Kalloc(x), old, new, k)

CopyTurns(f, w, old, new, n) ==
  f[0] = Ret(w, 0) /\ \A k \in 0..(n - 1) : f[k + 1] = CopyTurn(f[k], old, new, k)

LEMMA UvmcopyRun ==
  ASSUME NEW w, NEW old, NEW new, NEW sz, NEW n \in Nat, n = Pages(sz)
  PROVE  \E f : CopyTurns(f, w, old, new, n) /\ Uvmcopy(w, old, new, sz) = f[n]
<1> DEFINE Turn(x, i) == (IF x.ret # 0 THEN x ELSE IF ~Valid(PteAt(x, old, i)) THEN Panic(x, "uvmcopy: page not present") ELSE CopyOrFail(Kalloc(x), old, new, i))
           Start == Ret(w, 0)
           Run(f, N) == f = [k \in 0..N |-> IF k = 0 THEN Start ELSE Turn(f[k - 1], k - 1)]
<1> HIDE DEF Turn, Start
<1>1. \A N \in Nat : \E f : Run(f, N)
  <2> DEFINE S == {N \in Nat : \E f : Run(f, N)}
  <2>1. 0 \in S
    <3>1. Run([k \in 0..0 |-> Start], 0)
      OBVIOUS
    <3> QED BY <3>1
  <2>2. ASSUME NEW N \in Nat, N \in S PROVE N + 1 \in S
    <3>1. PICK f : Run(f, N)
      BY <2>2
    <3> DEFINE g == [k \in 0..(N + 1) |-> IF k = N + 1 THEN Turn(f[N], N) ELSE f[k]]
    <3>2. Run(g, N + 1)
      BY <3>1
    <3> HIDE DEF g, Run
    <3> QED BY <3>2
  <2> HIDE DEF S
  <2>3. \A N \in Nat : N \in S
    BY <2>1, <2>2, SetInduction
  <2> QED BY <2>3 DEF S
<1> DEFINE F == CHOOSE f : Run(f, n)
<1>2. Run(F, n)
  BY <1>1
<1>3. Uvmcopy(w, old, new, sz) = F[n]
  BY DEF Uvmcopy, Loop, Turn, Start
<1> HIDE DEF F
<1>4. F[0] = Start /\ \A k \in 0..(n - 1) : F[k + 1] = Turn(F[k], k)
  BY <1>2
<1> QED BY <1>3, <1>4 DEF Turn, Start, CopyTurns, CopyTurn

(* loadseg().                                                              *)
LoadTurns(f, w, r, seg, first, n) ==
  /\ f[0] = Ret(w, 0)
  /\ \A k \in 0..(n - 1) : f[k + 1] = LoadPage(f[k], seg, Walkaddr(f[k], r, first + k))

LEMMA LoadsegRun ==
  ASSUME NEW w, NEW r, NEW seg, NEW n \in Nat, NEW first, first = seg.vaddr \div PGSIZE, n = Pages(seg.vaddr + seg.filesz) - first
  PROVE  \E f : LoadTurns(f, w, r, seg, first, n) /\ Loadseg(w, r, seg) = f[n]
<1> DEFINE Turn(x, i) == LoadPage(x, seg, Walkaddr(x, r, first + i))
           Start == Ret(w, 0)
           Run(f, N) == f = [k \in 0..N |-> IF k = 0 THEN Start ELSE Turn(f[k - 1], k - 1)]
<1> HIDE DEF Turn, Start
<1>1. \A N \in Nat : \E f : Run(f, N)
  <2> DEFINE S == {N \in Nat : \E f : Run(f, N)}
  <2>1. 0 \in S
    <3>1. Run([k \in 0..0 |-> Start], 0)
      OBVIOUS
    <3> QED BY <3>1
  <2>2. ASSUME NEW N \in Nat, N \in S PROVE N + 1 \in S
    <3>1. PICK f : Run(f, N)
      BY <2>2
    <3> DEFINE g == [k \in 0..(N + 1) |-> IF k = N + 1 THEN Turn(f[N], N) ELSE f[k]]
    <3>2. Run(g, N + 1)
      BY <3>1
    <3> HIDE DEF g, Run
    <3> QED BY <3>2
  <2> HIDE DEF S
  <2>3. \A N \in Nat : N \in S
    BY <2>1, <2>2, SetInduction
  <2> QED BY <2>3 DEF S
<1> DEFINE F == CHOOSE f : Run(f, n)
<1>2. Run(F, n)
  BY <1>1
<1>3. Loadseg(w, r, seg) = F[n]
  BY DEF Loadseg, Loop, Turn, Start
<1> HIDE DEF F
<1>4. F[0] = Start /\ \A k \in 0..(n - 1) : F[k + 1] = Turn(F[k], k)
  BY <1>2
<1> QED BY <1>3, <1>4 DEF Turn, Start, LoadTurns

(* The loop over the program headers in exec().                            *)
SegmentTurns(f, w, r, segs, n) ==
  /\ f[0] = [w |-> w, sz |-> 0, ok |-> TRUE]
  /\ \A k \in 0..(n - 1) : f[k + 1] = LoadSegment(f[k], r, segs[k + 1])

LEMMA LoadSegmentsRun ==
  ASSUME NEW w, NEW r, NEW segs, NEW n \in Nat, n = Len(segs)
  PROVE  \E f : SegmentTurns(f, w, r, segs, n) /\ LoadSegments(w, r, segs) = f[n]
<1> DEFINE Turn(x, i) == LoadSegment(x, r, segs[i + 1])
           Start == [w |-> w, sz |-> 0, ok |-> TRUE]
           Run(f, N) == f = [k \in 0..N |-> IF k = 0 THEN Start ELSE Turn(f[k - 1], k - 1)]
<1> HIDE DEF Turn, Start
<1>1. \A N \in Nat : \E f : Run(f, N)
  <2> DEFINE S == {N \in Nat : \E f : Run(f, N)}
  <2>1. 0 \in S
    <3>1. Run([k \in 0..0 |-> Start], 0)
      OBVIOUS
    <3> QED BY <3>1
  <2>2. ASSUME NEW N \in Nat, N \in S PROVE N + 1 \in S
    <3>1. PICK f : Run(f, N)
      BY <2>2
    <3> DEFINE g == [k \in 0..(N + 1) |-> IF k = N + 1 THEN Turn(f[N], N) ELSE f[k]]
    <3>2. Run(g, N + 1)
      BY <3>1
    <3> HIDE DEF g, Run
    <3> QED BY <3>2
  <2> HIDE DEF S
  <2>3. \A N \in Nat : N \in S
    BY <2>1, <2>2, SetInduction
  <2> QED BY <2>3 DEF S
<1> DEFINE F == CHOOSE f : Run(f, n)
<1>2. Run(F, n)
  BY <1>1
<1>3. LoadSegments(w, r, segs) = F[n]
  BY DEF LoadSegments, Loop, Turn, Start
<1> HIDE DEF F
<1>4. F[0] = Start /\ \A k \in 0..(n - 1) : F[k + 1] = Turn(F[k], k)
  BY <1>2
<1> QED BY <1>3, <1>4 DEF Turn, Start, SegmentTurns

(* The loop of sys_pgaccess().                                             *)
ScanTurns(f, w, r, base, len) ==
  /\ f[0] = [w |-> w, mask |-> {}, ok |-> TRUE]
  /\ \A k \in 0..(len - 1) : f[k + 1] = Look(f[k], r, base + k)

LEMMA ScanRun ==
  ASSUME NEW w, NEW r, NEW base, NEW len \in Nat
  PROVE  \E f : ScanTurns(f, w, r, base, len) /\ ScanPages(w, r, base, len) = f[len]
<1> DEFINE Turn(x, i) == Look(x, r, base + i)
           Start == [w |-> w, mask |-> {}, ok |-> TRUE]
           Run(f, N) == f = [k \in 0..N |-> IF k = 0 THEN Start ELSE Turn(f[k - 1], k - 1)]
<1> HIDE DEF Turn, Start
<1>1. \A N \in Nat : \E f : Run(f, N)
  <2> DEFINE S == {N \in Nat : \E f : Run(f, N)}
  <2>1. 0 \in S
    <3>1. Run([k \in 0..0 |-> Start], 0)
      OBVIOUS
    <3> QED BY <3>1
  <2>2. ASSUME NEW N \in Nat, N \in S PROVE N + 1 \in S
    <3>1. PICK f : Run(f, N)
      BY <2>2
    <3> DEFINE g == [k \in 0..(N + 1) |-> IF k = N + 1 THEN Turn(f[N], N) ELSE f[k]]
    <3>2. Run(g, N + 1)
      BY <3>1
    <3> HIDE DEF g, Run
    <3> QED BY <3>2
  <2> HIDE DEF S
  <2>3. \A N \in Nat : N \in S
    BY <2>1, <2>2, SetInduction
  <2> QED BY <2>3 DEF S
<1> DEFINE F == CHOOSE f : Run(f, len)
<1>2. Run(F, len)
  BY <1>1
<1>3. ScanPages(w, r, base, len) = F[len]
  BY DEF ScanPages, Loop, Turn, Start
<1> HIDE DEF F
<1>4. F[0] = Start /\ \A k \in 0..(len - 1) : F[k + 1] = Turn(F[k], k)
  BY <1>2
<1> QED BY <1>3, <1>4 DEF Turn, Start, ScanTurns

-----------------------------------------------------------------------------
(* Machines, and who owns the pages.                                       *)
PteType == [pa : 0..TrampolinePa, perm : SUBSET (UserPerm \cup {"A"})]
DataType == Data \cup {Junk} \cup 1..(NPROC + 1)
ProcType == [state : States \cup {"USED"}, pid : 0..(NPROC + 1), sz : 0..(NFrames * PGSIZE),
             parent : 0..NPROC, pagetable : 0..NFrames, trapframe : 0..NFrames,
             usyscall : 0..NFrames]

Machine == [pt : [Frames -> [Entries -> PteType]], data : [Frames -> DataType],
            free : SUBSET Frames, left : Nat, ret : Int, panic : {"no"},
            proc : [Procs -> ProcType]]

(* The place of each page: <<"free", 0, 0>>, <<"root", 0, p>> for the page *)
(* table of p (0 for one that no process has yet), <<"mid", t, i>> and     *)
(* <<"bot", t, i>> for a table of level 1 and 0 that entry i of t refers   *)
(* to, <<"page", t, i>> for user memory, and <<"loose", k, p>> for a page  *)
(* that only the kernel refers to: the trapframe (k is 1) or the page for  *)
(* user space (2) of p, or one that has just been allocated (0).           *)
Places == {"free", "root", "mid", "bot", "page", "loose"} \X Nat \X Nat
Free == <<"free", 0, 0>>
New == <<"loose", 0, 0>>

(* User memory can be written and executed; nothing else can.              *)
Mine(e) == {"W", "X"} \subseteq e.perm

EntryOK(e, o, t, i) ==
  /\ o[t][1] \in {"root", "mid", "bot"} /\ e.pa = 0 => e = NoPte
  /\ o[t][1] = "root" =>
       e.perm = {} /\ (e.pa # 0 => i < Half /\ e.pa \in Frames /\ o[e.pa] = <<"mid", t, i>>)
  /\ o[t][1] = "mid" =>
       e.perm = {} /\ (e.pa # 0 => e.pa \in Frames /\ o[e.pa] = <<"bot", t, i>>)
  /\ o[t][1] = "bot" /\ e.pa # 0 =>
       e.perm # {} /\ (Mine(e) => e.pa \in Frames /\ o[e.pa] = <<"page", t, i>>)

PlaceOK(pt, o, f) ==
  LET t == o[f][2]
      i == o[f][3]
  IN /\ o[f][1] \in {"mid", "bot", "page"} => t \in Frames /\ i \in Entries /\ pt[t][i].pa = f
     /\ o[f][1] = "mid" => o[t][1] = "root"
     /\ o[f][1] = "bot" => o[t][1] = "mid"
     /\ o[f][1] = "page" => o[t][1] = "bot" /\ Mine(pt[t][i])

Own(w, o) ==
  /\ w \in Machine /\ o \in [Frames -> Places]
  /\ \A f \in Frames : f \in w.free <=> o[f][1] = "free"
  /\ \A t \in Frames, i \in Entries : EntryOK(w.pt[t][i], o, t, i)
  /\ \A f \in Frames : PlaceOK(w.pt, o, f)

TableAt(f) == [pa |-> f, perm |-> {}]
Put(o, f, l) == [o EXCEPT ![f] = l]
SetEntry(w, t, i, e) == [w EXCEPT !.pt[t][i] = e]

LEMMA MachineFields ==
  ASSUME NEW w \in Machine
  PROVE  /\ w.pt \in [Frames -> [Entries -> PteType]] /\ w.data \in [Frames -> DataType]
         /\ w.free \in SUBSET Frames /\ w.left \in Nat /\ w.ret \in Int /\ w.panic = "no"
         /\ w.proc \in [Procs -> ProcType]
         /\ \A t \in Frames, i \in Entries :
              /\ w.pt[t][i] \in PteType /\ w.pt[t][i].pa \in Nat
              /\ w.pt[t][i] = [pa |-> w.pt[t][i].pa, perm |-> w.pt[t][i].perm]
<1>1. \A e \in PteType : e.pa \in Nat /\ e = [pa |-> e.pa, perm |-> e.perm]
  BY DEF PteType, TrampolinePa
<1> QED BY <1>1 DEF Machine

LEMMA RetFields ==
  ASSUME NEW w \in Machine, NEW r \in Int
  PROVE  LET x == Ret(w, r)
         IN /\ x \in Machine /\ x.pt = w.pt /\ x.data = w.data /\ x.free = w.free
            /\ x.left = w.left /\ x.ret = r /\ x.panic = w.panic /\ x.proc = w.proc
BY DEF Machine, Ret

LEMMA KallocFields ==
  ASSUME NEW w \in Machine
  PROVE  LET x == Kalloc(w)
         IN /\ x \in Machine /\ x.pt = w.pt /\ x.data = w.data /\ x.proc = w.proc
            /\ \/ /\ x.ret = 0 /\ x.free = w.free /\ x.left = w.left
                  /\ w.left = 0 \/ w.free = {}
               \/ /\ x.ret \in w.free /\ x.free = w.free \ {x.ret} /\ x.left = w.left - 1
                  /\ x.ret # 0 /\ x.ret \in Frames
<1>1. CASE w.left = 0 \/ w.free = {}
  <2> DEFINE x == Ret(w, 0)
  <2>1. /\ x \in Machine /\ x.pt = w.pt /\ x.data = w.data /\ x.free = w.free
        /\ x.left = w.left /\ x.ret = 0 /\ x.proc = w.proc
    BY RetFields
  <2>2. Kalloc(w) = x
    BY <1>1 DEF Kalloc
  <2> HIDE DEF x
  <2> QED BY <1>1, <2>1, <2>2
<1>2. CASE ~(w.left = 0 \/ w.free = {})
  <2>1. PICK f : f = CHOOSE g \in w.free : TRUE
    OBVIOUS
  <2>2. f \in w.free /\ f \in Frames /\ f # 0 /\ f \in Int
    BY <1>2, <2>1, MachineFields DEF Frames
  <2>3. Kalloc(w) = [w EXCEPT !.free = w.free \ {f}, !.left = w.left - 1, !.ret = f]
    BY <1>2, <2>1 DEF Kalloc
  <2>4. w.left - 1 \in Nat
    BY <1>2, MachineFields
  <2>5. w.free \ {f} \in SUBSET Frames
    BY MachineFields
  <2> DEFINE x == Kalloc(w)
  <2>6. /\ x \in Machine /\ x.pt = w.pt /\ x.data = w.data /\ x.proc = w.proc
        /\ x.ret = f /\ x.free = w.free \ {f} /\ x.left = w.left - 1
    BY <2>2, <2>3, <2>4, <2>5 DEF Machine
  <2> QED BY <2>2, <2>6
<1> QED BY <1>1, <1>2

LEMMA EmptyTables ==
  /\ EmptyTable \in [Entries -> PteType] /\ JunkTable \in [Entries -> PteType]
  /\ NoPte \in PteType /\ \A i \in Entries : EmptyTable[i] = NoPte
  /\ Zero \in DataType /\ Junk \in DataType
BY DEF EmptyTable, JunkTable, NoPte, PteType, TrampolinePa, UserPerm, DataType, Data

LEMMA MemsetFields ==
  ASSUME NEW w \in Machine, NEW f \in Frames
  PROVE  LET x == Memset0(w, f)
         IN /\ x \in Machine /\ x.pt[f] = EmptyTable /\ x.data[f] = Zero
            /\ \A g \in Frames : g # f => x.pt[g] = w.pt[g] /\ x.data[g] = w.data[g]
            /\ x.free = w.free /\ x.left = w.left
            /\ x.ret = w.ret /\ x.proc = w.proc
<1>1. f # 0
  BY DEF Frames
<1>2. Memset0(w, f) = [w EXCEPT !.pt = [w.pt EXCEPT ![f] = EmptyTable],
                                !.data = [w.data EXCEPT ![f] = Zero]]
  BY <1>1 DEF Memset0
<1>3. /\ [w.pt EXCEPT ![f] = EmptyTable] \in [Frames -> [Entries -> PteType]]
      /\ [w.data EXCEPT ![f] = Zero] \in [Frames -> DataType]
  BY MachineFields, EmptyTables
<1> QED BY ZenonT(60), <1>2, <1>3 DEF Machine

LEMMA KfreeFields ==
  ASSUME NEW w \in Machine, NEW f \in Frames \ w.free
  PROVE  LET x == Kfree(w, f)
         IN /\ x \in Machine /\ x.pt[f] = JunkTable /\ x.data[f] = Junk
            /\ \A g \in Frames : g # f => x.pt[g] = w.pt[g] /\ x.data[g] = w.data[g]
            /\ x.free = w.free \cup {f}
            /\ x.left = w.left /\ x.ret = w.ret /\ x.proc = w.proc
<1> DEFINE a == [w.pt EXCEPT ![f] = JunkTable]
           b == [w.data EXCEPT ![f] = Junk]
           x == Kfree(w, f)
<1>1. x = [w EXCEPT !.free = w.free \cup {f}, !.pt = a, !.data = b]
  BY DEF Kfree
<1>2. /\ a \in [Frames -> [Entries -> PteType]] /\ b \in [Frames -> DataType]
      /\ w.free \cup {f} \in SUBSET Frames
  BY MachineFields, EmptyTables
<1>3. a[f] = JunkTable /\ b[f] = Junk /\ \A g \in Frames : g # f => a[g] = w.pt[g] /\ b[g] = w.data[g]
  BY MachineFields
<1> HIDE DEF a, b
<1>4. /\ x \in Machine /\ x.pt = a /\ x.data = b /\ x.free = w.free \cup {f}
      /\ x.left = w.left /\ x.ret = w.ret /\ x.proc = w.proc
  BY <1>1, <1>2 DEF Machine
<1> HIDE DEF x
<1> QED BY <1>3, <1>4 DEF x

LEMMA EntryFields ==
  ASSUME NEW w \in Machine, NEW t \in Frames, NEW i \in Entries, NEW e \in PteType
  PROVE  LET x == SetEntry(w, t, i, e)
         IN /\ x \in Machine /\ x.data = w.data /\ x.free = w.free /\ x.left = w.left
            /\ x.ret = w.ret /\ x.proc = w.proc
            /\ \A s \in Frames : s # t => x.pt[s] = w.pt[s]
            /\ \A j \in Entries : x.pt[t][j] = IF j = i THEN e ELSE w.pt[t][j]
<1> DEFINE u == [w.pt EXCEPT ![t] = [w.pt[t] EXCEPT ![i] = e]]
<1>1. SetEntry(w, t, i, e) = [w EXCEPT !.pt = u]
  BY DEF SetEntry
<1>2. u \in [Frames -> [Entries -> PteType]]
  BY MachineFields
<1>3. /\ \A s \in Frames : s # t => u[s] = w.pt[s]
      /\ \A j \in Entries : u[t][j] = IF j = i THEN e ELSE w.pt[t][j]
  BY MachineFields
<1> HIDE DEF u
<1> QED BY <1>1, <1>2, <1>3 DEF Machine

-----------------------------------------------------------------------------
(* What the steps of the code do to the places.                            *)

LEMMA OwnKinds ==
  ASSUME NEW w, NEW o, Own(w, o), NEW f \in Frames
  PROVE  /\ o[f] \in Places /\ o[f] = <<o[f][1], o[f][2], o[f][3]>>
         /\ o[f][1] \in {"free", "root", "mid", "bot", "page", "loose"}
         /\ o[f][2] \in Nat /\ o[f][3] \in Nat
BY DEF Own, Places

LEMMA PutFields ==
  ASSUME NEW o \in [Frames -> Places], NEW f \in Frames, NEW l
  PROVE  Put(o, f, l)[f] = l /\ \A g \in Frames : g # f => Put(o, f, l)[g] = o[g]
BY DEF Put

(* A page is taken from the free list.                                     *)
LEMMA OwnAlloc ==
  ASSUME NEW w, NEW o, Own(w, o), NEW f \in w.free,
         NEW x \in Machine, x.pt = w.pt, x.free = w.free \ {f}
  PROVE  Own(x, Put(o, f, New))
<1> DEFINE p == Put(o, f, New)
<1>1. f \in Frames /\ o[f][1] = "free" /\ o \in [Frames -> Places]
  BY DEF Own, Machine
<1>2. p \in [Frames -> Places] /\ p[f] = New /\ \A g \in Frames \ {f} : p[g] = o[g]
  BY <1>1 DEF Places, New, Put
<1> HIDE DEF p
<1>3. \A g \in Frames : g \in x.free <=> p[g][1] = "free"
  BY <1>1, <1>2 DEF Own, New
<1>4. ASSUME NEW t \in Frames, NEW i \in Entries PROVE EntryOK(x.pt[t][i], p, t, i)
  BY Z3T(30), <1>1, <1>2 DEF Own, New, EntryOK
<1>5. ASSUME NEW g \in Frames PROVE PlaceOK(x.pt, p, g)
  BY <1>1, <1>2 DEF Own, New, PlaceOK
<1> QED BY <1>2, <1>3, <1>4, <1>5 DEF Own, p

(* What a page that is not a table holds does not matter.                  *)
LEMMA OwnFill ==
  ASSUME NEW w, NEW o, Own(w, o), NEW x \in Machine, x.free = w.free,
         \A t \in Frames : o[t][1] \in {"root", "mid", "bot"} => x.pt[t] = w.pt[t]
  PROVE  Own(x, o)
<1>1. ASSUME NEW t \in Frames, NEW i \in Entries PROVE EntryOK(x.pt[t][i], o, t, i)
  BY DEF Own, EntryOK
<1>2. ASSUME NEW g \in Frames PROVE PlaceOK(x.pt, o, g)
  BY DEF Own, PlaceOK
<1> QED BY <1>1, <1>2 DEF Own

(* A page that only the kernel refers to goes back to the free list.       *)
LEMMA OwnFree ==
  ASSUME NEW w, NEW o, Own(w, o), NEW f \in Frames, o[f][1] = "loose",
         NEW x \in Machine, x.free = w.free \cup {f},
         \A t \in Frames \ {f} : x.pt[t] = w.pt[t]
  PROVE  Own(x, Put(o, f, Free))
<1> DEFINE p == Put(o, f, Free)
<1>1. o \in [Frames -> Places]
  BY DEF Own
<1>2. p \in [Frames -> Places] /\ p[f] = Free /\ \A g \in Frames \ {f} : p[g] = o[g]
  BY <1>1 DEF Places, Free, Put
<1> HIDE DEF p
<1>3. \A g \in Frames : g \in x.free <=> p[g][1] = "free"
  BY <1>1, <1>2 DEF Own, Free
<1>4. ASSUME NEW t \in Frames, NEW i \in Entries PROVE EntryOK(x.pt[t][i], p, t, i)
  BY SMTT(30), <1>1, <1>2 DEF Own, Free, EntryOK
<1>5. ASSUME NEW g \in Frames PROVE PlaceOK(x.pt, p, g)
  BY <1>1, <1>2 DEF Own, Free, PlaceOK
<1> QED BY <1>2, <1>3, <1>4, <1>5 DEF Own, p

(* Pages that only the kernel refers to are for another purpose.           *)
LEMMA OwnLabel ==
  ASSUME NEW w, NEW o, Own(w, o), NEW f \in Frames, NEW k \in Nat, NEW q \in Nat,
         o[f][1] = "loose"
  PROVE  Own(w, Put(o, f, <<"loose", k, q>>))
<1> DEFINE l == <<"loose", k, q>>
           p == Put(o, f, l)
<1>1. o \in [Frames -> Places]
  BY DEF Own
<1>2. p \in [Frames -> Places] /\ p[f] = l /\ l[1] = "loose" /\ \A g \in Frames \ {f} : p[g] = o[g]
  BY <1>1 DEF Places, Put
<1> HIDE DEF p, l
<1>3. \A g \in Frames : g \in w.free <=> p[g][1] = "free"
  BY <1>1, <1>2 DEF Own
<1>4. ASSUME NEW t \in Frames, NEW i \in Entries PROVE EntryOK(w.pt[t][i], p, t, i)
  BY Z3T(30), <1>1, <1>2 DEF Own, EntryOK
<1>5. ASSUME NEW g \in Frames PROVE PlaceOK(w.pt, p, g)
  <2>1. PlaceOK(w.pt, o, g)
    BY DEF Own
  <2>2. CASE g = f
    BY <1>2, <2>2 DEF PlaceOK
  <2>3. CASE g # f
    <3>1. p[g] = o[g]
      BY <1>2, <2>3
    <3>2. \A t \in Frames : o[t][1] \in {"root", "mid", "bot"} => p[t] = o[t]
      BY <1>2
    <3> QED BY <2>1, <3>1, <3>2 DEF PlaceOK
  <2> QED BY <2>2, <2>3
<1> QED BY <1>2, <1>3, <1>4, <1>5 DEF Own, p, l

(* An empty page becomes a page table, or a page table changes hands.      *)
LEMMA OwnRoot ==
  ASSUME NEW w, NEW o, Own(w, o), NEW f \in Frames, NEW q \in Nat,
         \/ o[f][1] = "root"
         \/ o[f][1] = "loose" /\ \A i \in Entries : w.pt[f][i] = NoPte
  PROVE  Own(w, Put(o, f, <<"root", 0, q>>))
<1> DEFINE l == <<"root", 0, q>>
           p == Put(o, f, l)
<1>1. o \in [Frames -> Places]
  BY DEF Own
<1>2. p \in [Frames -> Places] /\ p[f] = l /\ l[1] = "root" /\ \A g \in Frames \ {f} : p[g] = o[g]
  BY <1>1 DEF Places, Put
<1> HIDE DEF p, l
<1>3. \A g \in Frames : g \in w.free <=> p[g][1] = "free"
  BY <1>1, <1>2 DEF Own
<1>4. ASSUME NEW t \in Frames, NEW i \in Entries PROVE EntryOK(w.pt[t][i], p, t, i)
  <2>1. EntryOK(w.pt[t][i], o, t, i)
    BY DEF Own
  <2>2. CASE o[f][1] = "root"
    BY <1>2, <2>1, <2>2 DEF EntryOK
  <2>3. CASE o[f][1] # "root" /\ t = f
    BY <1>2, <2>3 DEF EntryOK, NoPte
  <2>4. CASE o[f][1] # "root" /\ t # f
    BY <1>2, <2>1, <2>4 DEF EntryOK
  <2> QED BY <2>2, <2>3, <2>4
<1>5. ASSUME NEW g \in Frames PROVE PlaceOK(w.pt, p, g)
  BY <1>1, <1>2 DEF Own, PlaceOK
<1> QED BY <1>2, <1>3, <1>4, <1>5 DEF Own, p, l

(* Entry i of page t, and nothing else, becomes e.                         *)
EntrySet(w, x, t, i, e) ==
  /\ x \in Machine /\ x.free = w.free
  /\ \A s \in Frames : s # t => x.pt[s] = w.pt[s]
  /\ \A j \in Entries : x.pt[t][j] = IF j = i THEN e ELSE w.pt[t][j]

(* An empty page becomes a table of level 1 or 0.                          *)
LinkStep(w, o, x, t, i, f, k) ==
  /\ k = "mid" => o[t][1] = "root" /\ i < Half
  /\ k = "bot" => o[t][1] = "mid"
  /\ w.pt[t][i].pa = 0 /\ o[f][1] = "loose"
  /\ \A j \in Entries : w.pt[f][j] = NoPte
  /\ EntrySet(w, x, t, i, TableAt(f))

LEMMA OwnLink ==
  ASSUME NEW w, NEW o, Own(w, o), NEW x, NEW t \in Frames, NEW i \in Entries,
         NEW f \in Frames, NEW k \in {"mid", "bot"}, LinkStep(w, o, x, t, i, f, k)
  PROVE  Own(x, Put(o, f, <<k, t, i>>))
<1> USE DEF LinkStep, EntrySet
<1> DEFINE l == <<k, t, i>>
           p == Put(o, f, l)
<1>1. o \in [Frames -> Places] /\ f # 0 /\ t # f
  BY DEF Own, Frames
<1>2. /\ p \in [Frames -> Places] /\ p[f] = l /\ \A g \in Frames \ {f} : p[g] = o[g]
      /\ l[1] = k /\ l[2] = t /\ l[3] = i
  BY <1>1 DEF Places, Frames, Entries, Put
<1> HIDE DEF p
<1>3. \A g \in Frames : g \in x.free <=> p[g][1] = "free"
  BY <1>1, <1>2 DEF Own
<1>4. ASSUME NEW s \in Frames, NEW j \in Entries PROVE EntryOK(x.pt[s][j], p, s, j)
  <2>1. EntryOK(w.pt[s][j], o, s, j)
    BY DEF Own
  <2>2. CASE s = f
    BY <1>1, <1>2, <2>2 DEF EntryOK, NoPte
  <2>3. CASE s = t /\ j = i
    BY <1>1, <1>2, <2>3 DEF EntryOK, TableAt
  <2>4. CASE s # f /\ ~(s = t /\ j = i)
    <3>1. x.pt[s][j] = w.pt[s][j] /\ p[s] = o[s]
      BY <1>2, <2>4
    <3> HIDE DEF l
    <3> QED BY <1>2, <2>1, <3>1 DEF EntryOK
  <2> QED BY <2>2, <2>3, <2>4
<1>5. ASSUME NEW g \in Frames PROVE PlaceOK(x.pt, p, g)
  <2>1. PlaceOK(w.pt, o, g)
    BY DEF Own
  <2>2. CASE g = f
    BY <1>1, <1>2, <2>2 DEF PlaceOK, TableAt
  <2>3. CASE g # f
    <3> DEFINE s == o[g][2]
               j == o[g][3]
    <3>1. p[g] = o[g] /\ g # 0
      BY <1>2, <2>3 DEF Frames
    <3>2. CASE o[g][1] \in {"mid", "bot", "page"}
      <4>1. s \in Frames /\ j \in Entries /\ w.pt[s][j].pa = g
        BY <2>1, <3>2 DEF PlaceOK
      <4>2. s # f
        BY <2>1, <3>2 DEF PlaceOK
      <4>3. p[s] = o[s] /\ x.pt[s][j] = w.pt[s][j]
        BY <1>2, <3>1, <4>1, <4>2
      <4> HIDE DEF l
      <4> QED BY <2>1, <3>1, <4>3 DEF PlaceOK
    <3>3. CASE o[g][1] \notin {"mid", "bot", "page"}
      BY <3>1, <3>3 DEF PlaceOK
    <3> QED BY <3>2, <3>3
  <2> QED BY <2>2, <2>3
<1> QED BY <1>2, <1>3, <1>4, <1>5 DEF Own, p

(* A page of user memory is mapped.                                        *)
MapStep(w, o, x, t, i, e) ==
  /\ o[t][1] = "bot" /\ w.pt[t][i].pa = 0 /\ e.perm # {} /\ Mine(e)
  /\ e.pa \in Frames /\ o[e.pa][1] = "loose"
  /\ EntrySet(w, x, t, i, e)

LEMMA OwnMap ==
  ASSUME NEW w, NEW o, Own(w, o), NEW x, NEW t \in Frames, NEW i \in Entries,
         NEW e \in PteType, MapStep(w, o, x, t, i, e)
  PROVE  Own(x, Put(o, e.pa, <<"page", t, i>>))
<1> USE DEF MapStep, EntrySet
<1> DEFINE l == <<"page", t, i>>
           f == e.pa
           p == Put(o, f, l)
<1>1. o \in [Frames -> Places] /\ f # 0 /\ t # f
  BY DEF Own, Frames
<1>2. /\ p \in [Frames -> Places] /\ p[f] = l /\ \A g \in Frames \ {f} : p[g] = o[g]
      /\ l[1] = "page" /\ l[2] = t /\ l[3] = i
  BY <1>1 DEF Places, Frames, Entries, Put
<1> HIDE DEF p
<1>3. \A g \in Frames : g \in x.free <=> p[g][1] = "free"
  BY <1>1, <1>2 DEF Own
<1>4. ASSUME NEW s \in Frames, NEW j \in Entries PROVE EntryOK(x.pt[s][j], p, s, j)
  <2>1. EntryOK(w.pt[s][j], o, s, j)
    BY DEF Own
  <2>2. CASE s = f
    BY <1>1, <1>2, <2>2 DEF EntryOK
  <2>3. CASE s = t /\ j = i
    BY <1>1, <1>2, <2>3 DEF EntryOK
  <2>4. CASE s # f /\ ~(s = t /\ j = i)
    <3>1. x.pt[s][j] = w.pt[s][j] /\ p[s] = o[s]
      BY <1>2, <2>4
    <3> HIDE DEF l, f
    <3>2. o[f][1] = "loose"
      BY DEF f
    <3> QED BY <1>2, <2>1, <3>1, <3>2 DEF EntryOK
  <2> QED BY <2>2, <2>3, <2>4
<1>5. ASSUME NEW g \in Frames PROVE PlaceOK(x.pt, p, g)
  <2>1. PlaceOK(w.pt, o, g)
    BY DEF Own
  <2>2. CASE g = f
    BY <1>1, <1>2, <2>2 DEF PlaceOK
  <2>3. CASE g # f
    <3> DEFINE s == o[g][2]
               j == o[g][3]
    <3>1. p[g] = o[g] /\ g # 0
      BY <1>2, <2>3 DEF Frames
    <3>2. CASE o[g][1] \in {"mid", "bot", "page"}
      <4>1. s \in Frames /\ j \in Entries /\ w.pt[s][j].pa = g
        BY <2>1, <3>2 DEF PlaceOK
      <4>2. s # f
        BY <2>1, <3>2 DEF PlaceOK
      <4>3. p[s] = o[s] /\ x.pt[s][j] = w.pt[s][j]
        BY <1>2, <3>1, <4>1, <4>2
      <4> HIDE DEF l
      <4> QED BY <2>1, <3>1, <4>3 DEF PlaceOK
    <3>3. CASE o[g][1] \notin {"mid", "bot", "page"}
      BY <3>1, <3>3 DEF PlaceOK
    <3> QED BY <3>2, <3>3
  <2> QED BY <2>2, <2>3
<1> QED BY <1>2, <1>3, <1>4, <1>5 DEF Own, p

(* An entry of the last level changes without a page changing its place: a *)
(* page of somebody else comes or goes, or the permissions change.         *)
EntryStep(w, o, x, t, i, e) ==
  /\ o[t][1] = "bot"
  /\ IF e.pa = 0 THEN e = NoPte ELSE e.perm # {}
  /\ Mine(e) <=> Mine(w.pt[t][i])
  /\ Mine(e) => e.pa = w.pt[t][i].pa
  /\ EntrySet(w, x, t, i, e)

LEMMA OwnEntry ==
  ASSUME NEW w, NEW o, Own(w, o), NEW x, NEW t \in Frames, NEW i \in Entries,
         NEW e \in PteType, EntryStep(w, o, x, t, i, e)
  PROVE  Own(x, o)
<1> USE DEF EntryStep, EntrySet
<1>1. ASSUME NEW s \in Frames, NEW j \in Entries PROVE EntryOK(x.pt[s][j], o, s, j)
  <2>1. EntryOK(w.pt[s][j], o, s, j)
    BY DEF Own
  <2>2. CASE s = t /\ j = i
    BY <2>1, <2>2 DEF EntryOK
  <2>3. CASE ~(s = t /\ j = i)
    <3>1. x.pt[s][j] = w.pt[s][j]
      BY <2>3
    <3> QED BY <2>1, <3>1
  <2> QED BY <2>2, <2>3
<1>2. ASSUME NEW g \in Frames PROVE PlaceOK(x.pt, o, g)
  <2>1. PlaceOK(w.pt, o, g)
    BY DEF Own
  <2> DEFINE s == o[g][2]
             j == o[g][3]
  <2>2. CASE o[g][1] \in {"mid", "bot", "page"}
    <3>1. s \in Frames /\ j \in Entries /\ w.pt[s][j].pa = g
      BY <2>1, <2>2 DEF PlaceOK
    <3>2. CASE s = t /\ j = i
      <4>1. o[g][1] = "page" /\ Mine(w.pt[t][i])
        BY <2>1, <2>2, <3>2 DEF PlaceOK
      <4>2. x.pt[s][j] = e /\ e.pa = g /\ Mine(e)
        BY <3>1, <3>2, <4>1
      <4> QED BY <2>1, <3>1, <4>1, <4>2 DEF PlaceOK
    <3>3. CASE ~(s = t /\ j = i)
      <4>1. x.pt[s][j] = w.pt[s][j]
        BY <3>1, <3>3
      <4> QED BY <2>1, <4>1 DEF PlaceOK
    <3> QED BY <3>2, <3>3
  <2>3. CASE o[g][1] \notin {"mid", "bot", "page"}
    BY <2>3 DEF PlaceOK
  <2> QED BY <2>2, <2>3
<1> QED BY <1>1, <1>2 DEF Own

(* A page that refers to no other is freed, and the entry that refers to it*)
(* is cleared.                                                             *)
RemoveStep(w, o, x, t, i, f) ==
  /\ o[f] \in {<<"mid", t, i>>, <<"bot", t, i>>, <<"page", t, i>>}
  /\ o[f][1] # "page" => \A j \in Entries : w.pt[f][j].pa = 0
  /\ x \in Machine /\ x.free = w.free \cup {f}
  /\ \A s \in Frames : s # t /\ s # f => x.pt[s] = w.pt[s]
  /\ \A j \in Entries : x.pt[t][j] = IF j = i THEN NoPte ELSE w.pt[t][j]

LEMMA OwnRemove ==
  ASSUME NEW w, NEW o, Own(w, o), NEW x, NEW t \in Frames, NEW i \in Entries,
         NEW f \in Frames, RemoveStep(w, o, x, t, i, f)
  PROVE  Own(x, Put(o, f, Free))
<1> USE DEF RemoveStep
<1> DEFINE p == Put(o, f, Free)
<1>1. o \in [Frames -> Places] /\ PlaceOK(w.pt, o, f)
  BY DEF Own
<1>2. p \in [Frames -> Places] /\ p[f] = Free /\ \A g \in Frames \ {f} : p[g] = o[g]
  BY <1>1 DEF Places, Free, Put
<1> HIDE DEF p
<1>3. /\ o[f][1] \in {"mid", "bot", "page"} /\ o[f][2] = t /\ o[f][3] = i
      /\ o[t][1] \in {"root", "mid", "bot"} /\ t # f /\ w.pt[t][i].pa = f
  BY <1>1 DEF PlaceOK
<1>4. \A g \in Frames : g \in x.free <=> p[g][1] = "free"
  BY <1>2 DEF Own, Free
<1>5. ASSUME NEW s \in Frames, NEW j \in Entries PROVE EntryOK(x.pt[s][j], p, s, j)
  <2>1. EntryOK(w.pt[s][j], o, s, j)
    BY DEF Own
  <2>2. CASE s = f
    BY <1>2, <2>2 DEF EntryOK, Free
  <2>3. CASE s = t /\ j = i
    BY <2>3 DEF EntryOK, NoPte
  <2>4. CASE s # f /\ ~(s = t /\ j = i)
    <3>1. x.pt[s][j] = w.pt[s][j] /\ p[s] = o[s]
      BY <1>2, <2>4
    <3>2. w.pt[s][j].pa = f => o[f] \notin {<<"mid", s, j>>, <<"bot", s, j>>, <<"page", s, j>>}
      BY <1>3, <2>4
    <3> QED BY <1>2, <2>1, <3>1, <3>2 DEF EntryOK
  <2> QED BY <2>2, <2>3, <2>4
<1>6. ASSUME NEW g \in Frames PROVE PlaceOK(x.pt, p, g)
  <2>1. PlaceOK(w.pt, o, g)
    BY DEF Own
  <2>2. CASE g = f
    BY <1>2, <2>2 DEF PlaceOK, Free
  <2>3. CASE g # f
    <3> DEFINE s == o[g][2]
               j == o[g][3]
    <3>1. p[g] = o[g] /\ g # 0
      BY <1>2, <2>3 DEF Frames
    <3>2. CASE o[g][1] \in {"mid", "bot", "page"}
      <4>1. s \in Frames /\ j \in Entries /\ w.pt[s][j].pa = g
        BY <2>1, <3>2 DEF PlaceOK
      <4>2. s # f
        BY <2>1, <3>1, <3>2, <4>1 DEF PlaceOK
      <4>3. ~(s = t /\ j = i)
        BY <1>3, <2>3, <4>1
      <4>4. p[s] = o[s] /\ x.pt[s][j] = w.pt[s][j]
        BY <1>2, <4>1, <4>2, <4>3
      <4> QED BY <2>1, <3>1, <4>4 DEF PlaceOK
    <3>3. CASE o[g][1] \notin {"mid", "bot", "page"}
      BY <3>1, <3>3 DEF PlaceOK
    <3> QED BY <3>2, <3>3
  <2> QED BY <2>2, <2>3
<1> QED BY <1>2, <1>4, <1>5, <1>6 DEF Own, p

(* An empty page table is freed.                                           *)
LEMMA OwnDrop ==
  ASSUME NEW w, NEW o, Own(w, o), NEW f \in Frames, o[f][1] = "root",
         \A j \in Entries : w.pt[f][j].pa = 0,
         NEW x \in Machine, x.free = w.free \cup {f},
         \A s \in Frames \ {f} : x.pt[s] = w.pt[s]
  PROVE  Own(x, Put(o, f, Free))
<1> DEFINE p == Put(o, f, Free)
<1>1. o \in [Frames -> Places]
  BY DEF Own
<1>2. p \in [Frames -> Places] /\ p[f] = Free /\ \A g \in Frames \ {f} : p[g] = o[g]
  BY <1>1 DEF Places, Free, Put
<1> HIDE DEF p
<1>3. \A g \in Frames : g \in x.free <=> p[g][1] = "free"
  BY <1>2 DEF Own, Free
<1>4. ASSUME NEW s \in Frames, NEW j \in Entries PROVE EntryOK(x.pt[s][j], p, s, j)
  <2>1. EntryOK(w.pt[s][j], o, s, j)
    BY DEF Own
  <2>2. CASE s = f
    BY <1>2, <2>2 DEF EntryOK, Free
  <2>3. CASE s # f
    BY <1>2, <2>1, <2>3 DEF EntryOK
  <2> QED BY <2>2, <2>3
<1>5. ASSUME NEW g \in Frames PROVE PlaceOK(x.pt, p, g)
  <2>1. PlaceOK(w.pt, o, g)
    BY DEF Own
  <2>2. g # 0
    BY DEF Frames
  <2>3. CASE g = f
    BY <1>2, <2>3 DEF PlaceOK, Free
  <2>4. CASE g # f
    BY <1>2, <2>1, <2>2, <2>4 DEF PlaceOK
  <2> QED BY <2>3, <2>4
<1> QED BY <1>2, <1>3, <1>4, <1>5 DEF Own, p

-----------------------------------------------------------------------------
(* What walk() finds.                                                      *)
Root_(o, r) == r \in Frames /\ o[r][1] = "root"
MidOf(w, r, v) == w.pt[r][PX(2, v)].pa
BotOf(w, r, v) ==
  IF MidOf(w, r, v) = 0 THEN 0 ELSE w.pt[MidOf(w, r, v)][PX(1, v)].pa
LeafOf(w, r, v) ==
  IF BotOf(w, r, v) = 0 THEN NoPte ELSE w.pt[BotOf(w, r, v)][PX(0, v)]

LEMMA Entry ==
  ASSUME NEW w, NEW o, Own(w, o), NEW t \in Frames, NEW i \in Entries
  PROVE  /\ EntryOK(w.pt[t][i], o, t, i) /\ w.pt[t][i] \in PteType
         /\ w.pt[t][i].pa \in Nat
BY MachineFields DEF Own

LEMMA Path ==
  ASSUME NEW w, NEW o, Own(w, o), NEW r, Root_(o, r), NEW v \in VA
  PROVE  LET a == MidOf(w, r, v)
             b == BotOf(w, r, v)
         IN /\ a \in Nat /\ b \in Nat
            /\ a # 0 => a \in Frames /\ o[a] = <<"mid", r, PX(2, v)>> /\ o[a][1] = "mid"
            /\ b # 0 => /\ a # 0 /\ b \in Frames /\ o[b] = <<"bot", a, PX(1, v)>>
                        /\ o[b][1] = "bot"
<1>1. PX(2, v) \in Entries /\ PX(1, v) \in Entries /\ PX(2, v) \in 0..(Half - 1)
  BY Indices
<1>2. r \in Frames
  BY DEF Root_
<1> DEFINE a == MidOf(w, r, v)
           b == BotOf(w, r, v)
<1>3. a \in Nat /\ EntryOK(w.pt[r][PX(2, v)], o, r, PX(2, v))
  BY <1>1, <1>2, Entry DEF MidOf
<1>4. a # 0 => a \in Frames /\ o[a] = <<"mid", r, PX(2, v)>>
  BY <1>3 DEF EntryOK, MidOf, Root_
<1>5. CASE a = 0
  BY <1>3, <1>5 DEF BotOf
<1>6. CASE a # 0
  <2>1. b = w.pt[a][PX(1, v)].pa /\ EntryOK(w.pt[a][PX(1, v)], o, a, PX(1, v)) /\ b \in Nat
    BY <1>1, <1>4, <1>6, Entry DEF BotOf
  <2>2. o[a][1] = "mid"
    BY <1>4, <1>6
  <2>3. b # 0 => b \in Frames /\ o[b] = <<"bot", a, PX(1, v)>>
    BY <2>1, <2>2 DEF EntryOK
  <2> QED BY <1>3, <1>4, <1>6, <2>1, <2>2, <2>3
<1> QED BY <1>5, <1>6

LEMMA RetRet == ASSUME NEW w, NEW a, NEW b PROVE Ret(Ret(w, a), b) = Ret(w, b)
BY DEF Ret

LEMMA WalkFinds ==
  ASSUME NEW w, NEW o, Own(w, o), NEW r, Root_(o, r), NEW v \in VA
  PROVE  /\ Find(w, r, v) = Ret(w, BotOf(w, r, v))
         /\ PteAt(w, r, v) = LeafOf(w, r, v)
<1> DEFINE a == MidOf(w, r, v)
           b == BotOf(w, r, v)
<1>1. w \in Machine /\ r \in Int /\ r # 0 /\ ~(v >= MAXVA)
  <2>1. w \in Machine /\ r \in Int /\ r # 0
    BY DEF Own, Frames, Root_
  <2>2. ~(v >= MAXVA)
    BY Layout DEF VA
  <2> QED BY <2>1, <2>2
<1>2. a \in Int /\ b \in Int
  BY Path
<1>3. Down(Ret(w, r), 2, v, FALSE) = Ret(w, a)
  <2>1. Ret(w, r).ret = r /\ Ret(w, r).pt = w.pt
    BY <1>1, RetFields
  <2>2. Down(Ret(w, r), 2, v, FALSE) = Ret(Ret(w, r), a)
    BY <1>1, <2>1 DEF Down, Valid, MidOf
  <2> QED BY ZenonT(30), <2>2, RetRet
<1>4. Down(Ret(w, a), 1, v, FALSE) = Ret(w, b)
  <2>1. Ret(w, a).ret = a /\ Ret(w, a).pt = w.pt
    BY <1>1, <1>2, RetFields
  <2>2. CASE a = 0
    BY <2>1, <2>2 DEF Down, BotOf
  <2>3. CASE a # 0
    <3>1. Down(Ret(w, a), 1, v, FALSE) = Ret(Ret(w, a), b)
      BY <2>1, <2>3 DEF Down, Valid, BotOf
    <3> QED BY <3>1, RetRet
  <2> QED BY <2>2, <2>3
<1>5. Walk(w, r, v, FALSE) = Ret(w, b)
  BY <1>1, <1>3, <1>4 DEF Walk
<1>6. Walk(w, r, v, FALSE).ret = b
  <2> HIDE DEF b
  <2>1. Ret(w, b).ret = b
    BY <1>1, <1>2, RetFields
  <2> QED BY <1>5, <2>1
<1> HIDE DEF a, b
<1> QED BY <1>5, <1>6 DEF PteAt, Find, LeafOf, b

LEMMA SetPteFinds ==
  ASSUME NEW w, NEW o, Own(w, o), NEW r, Root_(o, r), NEW v \in VA, NEW e
  PROVE  SetPteAt(w, r, v, e) =
           IF BotOf(w, r, v) = 0 THEN w ELSE SetEntry(w, BotOf(w, r, v), PX(0, v), e)
<1> DEFINE b == BotOf(w, r, v)
<1>1. Find(w, r, v) = Ret(w, b) /\ b \in Int /\ w \in Machine
  BY WalkFinds, Path DEF Own
<1> HIDE DEF b
<1>2. Find(w, r, v).ret = b
  BY <1>1, RetFields
<1> QED BY <1>2 DEF SetPteAt, Find, SetEntry, b

LEMMA PteLeaf ==
  ASSUME NEW w, NEW o, Own(w, o), NEW r, Root_(o, r), NEW v \in VA
  PROVE  PteAt(w, r, v) = LeafOf(w, r, v)
BY WalkFinds

LEMMA PteFacts ==
  ASSUME NEW w, NEW o, Own(w, o), NEW r, Root_(o, r), NEW v \in VA
  PROVE  LET e == PteAt(w, r, v)
         IN /\ e \in PteType /\ e.pa \in Nat /\ e.perm \in SUBSET (UserPerm \cup {"A"})
            /\ e = [pa |-> e.pa, perm |-> e.perm]
            /\ e.pa = 0 <=> e = NoPte
            /\ e.pa # 0 => /\ e.perm # {}
                           /\ BotOf(w, r, v) # 0 /\ e = w.pt[BotOf(w, r, v)][PX(0, v)]
                           /\ Mine(e) => /\ e.pa \in Frames
                                         /\ o[e.pa] = <<"page", BotOf(w, r, v), PX(0, v)>>
<1> DEFINE b == BotOf(w, r, v)
           e == PteAt(w, r, v)
<1>1. PX(0, v) \in Entries /\ w \in Machine /\ TrampolinePa \in Nat /\ b \in Nat
  BY Indices, Path DEF Own, TrampolinePa
<1>2. e = IF b = 0 THEN NoPte ELSE w.pt[b][PX(0, v)]
  BY WalkFinds DEF LeafOf
<1>3. CASE b = 0
  BY <1>2, <1>3, EmptyTables DEF NoPte, PteType
<1>4. CASE b # 0
  <2>1. b \in Frames /\ o[b][1] = "bot"
    BY <1>4, Path
  <2>2. EntryOK(e, o, b, PX(0, v)) /\ e \in PteType /\ e = w.pt[b][PX(0, v)]
    BY <1>1, <1>2, <1>4, <2>1, MachineFields DEF Own
  <2>3. e.pa \in Nat /\ e.perm \in SUBSET (UserPerm \cup {"A"}) /\ e = [pa |-> e.pa, perm |-> e.perm]
    BY <1>1, <2>2 DEF PteType
  <2> HIDE DEF e, b
  <2>4. e.pa = 0 <=> e = NoPte
    BY <2>1, <2>2 DEF EntryOK, NoPte
  <2>5. e.pa # 0 => /\ e.perm # {}
                    /\ Mine(e) => e.pa \in Frames /\ o[e.pa] = <<"page", b, PX(0, v)>>
    BY <2>1, <2>2 DEF EntryOK
  <2> QED BY <1>4, <2>2, <2>3, <2>4, <2>5 DEF e, b
<1> QED BY <1>3, <1>4

(* Two pages do not share an entry.                                        *)
LEMMA OneEntry ==
  ASSUME NEW w, NEW o, Own(w, o), NEW r, Root_(o, r), NEW v \in VA,
         NEW s, Root_(o, s), NEW u \in VA,
         BotOf(w, r, v) # 0, BotOf(w, s, u) = BotOf(w, r, v), PX(0, u) = PX(0, v)
  PROVE  s = r /\ u = v
<1> DEFINE a == MidOf(w, r, v)
           c == MidOf(w, s, u)
           b == BotOf(w, r, v)
<1>1. a # 0 /\ o[b] = <<"bot", a, PX(1, v)>> /\ o[a] = <<"mid", r, PX(2, v)>>
  BY Path
<1>2. c # 0 /\ o[b] = <<"bot", c, PX(1, u)>> /\ o[c] = <<"mid", s, PX(2, u)>>
  BY Path
<1> HIDE DEF a, b, c
<1>3. a = c /\ PX(1, u) = PX(1, v)
  BY <1>1, <1>2
<1>4. r = s /\ PX(2, u) = PX(2, v)
  BY <1>1, <1>2, <1>3
<1>5. u = v
  <2>1. u = (PX(2, u) * Fan + PX(1, u)) * Fan + PX(0, u)
    BY Indices
  <2>2. v = (PX(2, v) * Fan + PX(1, v)) * Fan + PX(0, v)
    BY Indices
  <2> QED BY <1>3, <1>4, <2>1, <2>2
<1> QED BY <1>4, <1>5

-----------------------------------------------------------------------------
(* What a step on the tables does to the pages that walk() finds.          *)

(* The tables of s are as before.                                          *)
LEMMA SamePte ==
  ASSUME NEW w, NEW o, Own(w, o), NEW x, NEW p, Own(x, p), NEW s, Root_(o, s), Root_(p, s),
         \A t \in Frames : t = s \/ o[t][1] \in {"mid", "bot"} => x.pt[t] = w.pt[t]
  PROVE  \A v \in VA : PteAt(x, s, v) = PteAt(w, s, v) /\ BotOf(x, s, v) = BotOf(w, s, v)
<1> SUFFICES ASSUME NEW v \in VA
             PROVE  PteAt(x, s, v) = PteAt(w, s, v) /\ BotOf(x, s, v) = BotOf(w, s, v)
  OBVIOUS
<1>0. PteAt(x, s, v) = LeafOf(x, s, v) /\ PteAt(w, s, v) = LeafOf(w, s, v)
  BY PteLeaf
<1>1. MidOf(x, s, v) = MidOf(w, s, v)
  BY DEF MidOf, Root_
<1>2. BotOf(x, s, v) = BotOf(w, s, v)
  BY <1>1, Path DEF BotOf
<1>3. LeafOf(x, s, v) = LeafOf(w, s, v)
  BY <1>2, Path DEF LeafOf
<1> QED BY <1>2, <1>3, <1>0

(* The entry of one page changes.                                          *)
LeafSet(w, o, x, t, i, e) ==
  /\ \A s \in Frames : s # t /\ o[s][1] \in {"root", "mid", "bot"} => x.pt[s] = w.pt[s]
  /\ \A j \in Entries : x.pt[t][j] = IF j = i THEN e ELSE w.pt[t][j]

LEMMA SetPte ==
  ASSUME NEW w, NEW o, Own(w, o), NEW x, NEW p, Own(x, p), NEW r, Root_(o, r), NEW v \in VA,
         NEW e, BotOf(w, r, v) # 0, NEW s, Root_(o, s), Root_(p, s),
         LeafSet(w, o, x, BotOf(w, r, v), PX(0, v), e)
  PROVE  \A u \in VA : /\ PteAt(x, s, u) = IF s = r /\ u = v THEN e ELSE PteAt(w, s, u)
                       /\ BotOf(x, s, u) = BotOf(w, s, u)
<1> USE DEF LeafSet
<1> SUFFICES ASSUME NEW u \in VA
             PROVE  /\ PteAt(x, s, u) = IF s = r /\ u = v THEN e ELSE PteAt(w, s, u)
                    /\ BotOf(x, s, u) = BotOf(w, s, u)
  OBVIOUS
<1>0. PteAt(x, s, u) = LeafOf(x, s, u) /\ PteAt(w, s, u) = LeafOf(w, s, u)
  BY PteLeaf
<1> DEFINE b == BotOf(w, r, v)
<1>1. b \in Frames /\ o[b][1] = "bot" /\ PX(0, u) \in Entries
  BY Path, Indices
<1>2. MidOf(x, s, u) = MidOf(w, s, u)
  BY <1>1 DEF MidOf, Root_
<1>3. BotOf(x, s, u) = BotOf(w, s, u)
  BY <1>1, <1>2, Path DEF BotOf
<1>4. CASE BotOf(w, s, u) = b /\ PX(0, u) = PX(0, v)
  <2>1. s = r /\ u = v
    BY <1>4, OneEntry
  <2>2. LeafOf(x, s, u) = e
    BY <1>1, <1>3, <1>4 DEF LeafOf
  <2> QED BY <1>3, <2>1, <2>2, <1>0
<1>5. CASE ~(BotOf(w, s, u) = b /\ PX(0, u) = PX(0, v))
  <2>1. ~(s = r /\ u = v)
    BY <1>5
  <2>2. LeafOf(x, s, u) = LeafOf(w, s, u)
    <3>1. CASE BotOf(w, s, u) = b
      BY <1>1, <1>3, <1>5, <3>1 DEF LeafOf
    <3>2. CASE BotOf(w, s, u) # b
      BY <1>3, <3>2, Path DEF LeafOf
    <3> QED BY <3>1, <3>2
  <2> QED BY <1>3, <2>1, <2>2, <1>0
<1> QED BY <1>4, <1>5

(* An empty table comes or goes, at an entry that had none: no page is     *)
(* mapped through it.                                                      *)
TableLinked(w, o, x, t, i, f) ==
  /\ o[t][1] \in {"root", "mid"} /\ w.pt[t][i].pa = 0
  /\ o[f][1] \notin {"root", "mid", "bot"}
  /\ \A j \in Entries : x.pt[f][j].pa = 0
  /\ \A g \in Frames : g # f /\ g # t /\ o[g][1] \in {"root", "mid", "bot"} => x.pt[g] = w.pt[g]
  /\ \A j \in Entries : j # i => x.pt[t][j] = w.pt[t][j]
  /\ x.pt[t][i].pa = f

LEMMA LinkPte ==
  ASSUME NEW w, NEW o, Own(w, o), NEW x, NEW p, Own(x, p), NEW t \in Frames, NEW i \in Entries,
         NEW f \in Frames, TableLinked(w, o, x, t, i, f), p[f][1] \in {"mid", "bot"},
         NEW s, Root_(o, s), Root_(p, s)
  PROVE  \A v \in VA : PteAt(x, s, v) = PteAt(w, s, v)
<1> USE DEF TableLinked
<1> SUFFICES ASSUME NEW v \in VA PROVE PteAt(x, s, v) = PteAt(w, s, v)
  OBVIOUS
<1>0. PteAt(x, s, v) = LeafOf(x, s, v) /\ PteAt(w, s, v) = LeafOf(w, s, v)
  BY PteLeaf
<1>1. PX(0, v) \in Entries /\ PX(1, v) \in Entries /\ PX(2, v) \in Entries
  BY Indices
<1>2. f # 0 /\ s \in Frames /\ s # f /\ t # f
  BY DEF Root_, Frames
<1>3. CASE s = t /\ PX(2, v) = i
  <2>1. MidOf(w, s, v) = 0 /\ MidOf(x, s, v) = f
    BY <1>3 DEF MidOf
  <2>2. LeafOf(w, s, v) = NoPte
    BY <2>1 DEF LeafOf, BotOf
  <2>3. BotOf(x, s, v) = 0
    BY <1>1, <1>2, <2>1 DEF BotOf, NoPte
  <2> QED BY <2>2, <2>3, <1>0 DEF LeafOf
<1>4. CASE ~(s = t /\ PX(2, v) = i)
  <2> DEFINE a == MidOf(w, s, v)
  <2>1. MidOf(x, s, v) = a
    BY <1>1, <1>2, <1>4 DEF MidOf, Root_
  <2>2. CASE a = 0
    BY <2>1, <2>2, <1>0 DEF LeafOf, BotOf
  <2>3. CASE a # 0
    <3>1. a \in Frames /\ o[a][1] = "mid" /\ a # f
      BY <2>3, Path
    <3>2. CASE a = t /\ PX(1, v) = i
      <4>1. BotOf(w, s, v) = 0 /\ BotOf(x, s, v) = f
        BY <1>1, <2>1, <2>3, <3>2 DEF BotOf
      <4>2. LeafOf(x, s, v) = NoPte
        <5>1. LeafOf(x, s, v).pa = 0
          BY <1>1, <1>2, <4>1 DEF LeafOf
        <5>2. PteAt(x, s, v).pa = 0 => PteAt(x, s, v) = NoPte
          BY PteFacts
        <5> QED BY <1>0, <5>1, <5>2
      <4> QED BY <4>1, <4>2, <1>0 DEF LeafOf
    <3>3. CASE ~(a = t /\ PX(1, v) = i)
      <4>1. x.pt[a][PX(1, v)] = w.pt[a][PX(1, v)]
        BY <1>1, <3>1, <3>3
      <4>2. BotOf(x, s, v) = BotOf(w, s, v)
        BY <2>1, <2>3, <4>1 DEF BotOf
      <4>3. CASE BotOf(w, s, v) = 0
        BY <4>2, <4>3, <1>0 DEF LeafOf
      <4>4. CASE BotOf(w, s, v) # 0
        <5>1. BotOf(w, s, v) \in Frames /\ o[BotOf(w, s, v)][1] = "bot"
          BY <4>4, Path
        <5>2. LeafOf(x, s, v) = LeafOf(w, s, v)
          BY <4>2, <5>1 DEF LeafOf
        <5> QED BY <5>2, <1>0
      <4> QED BY <4>3, <4>4
    <3> QED BY <3>2, <3>3
  <2> QED BY <2>2, <2>3
<1> QED BY <1>3, <1>4

-----------------------------------------------------------------------------
(* What the functions of vm.c do to the machine w, whose pages have the    *)
(* places o: the machine x after one has pages in the places p.            *)

(* Page tables and the pages that only the kernel refers to stay where they*)
(* are, the latter with what they hold.                                    *)
Keep(w, o, x, p) ==
  /\ Own(x, p) /\ x.proc = w.proc
  /\ \A f \in Frames : p[f] = o[f] \/ (o[f][1] \notin {"root", "loose"} /\ p[f][1] \notin {"root", "loose"})
  /\ \A f \in Frames : o[f][1] = "loose" => x.data[f] = w.data[f]

(* The page tables map what they did; all of them, or all but r.           *)
SamePtes(o, w, x) ==
  \A s : Root_(o, s) => \A v \in VA : PteAt(x, s, v) = PteAt(w, s, v)
Others(o, w, x, r) ==
  \A s : Root_(o, s) /\ s # r => \A v \in VA : PteAt(x, s, v) = PteAt(w, s, v)

(* There is a page for each that is left to the call; at least n are left. *)
Room(w) == w.left <= Cardinality(w.free)
Ample(w, n) == Room(w) /\ w.left >= n

(* At most n pages of those have been used.                                *)
Spends(w, x, n) == Room(w) => Room(x) /\ x.left >= w.left - n

LEMMA FramesFinite ==
  /\ IsFiniteSet(Frames) /\ Cardinality(Frames) = NFrames
  /\ \A S \in SUBSET Frames : IsFiniteSet(S) /\ Cardinality(S) \in Nat
<1>1. IsFiniteSet(Frames) /\ Cardinality(Frames) = NFrames
  BY FS_Interval DEF Frames
<1>2. \A S \in SUBSET Frames : IsFiniteSet(S)
  BY <1>1, FS_Subset
<1> QED BY <1>1, <1>2, FS_CardinalityType

LEMMA KeepRefl == ASSUME NEW w, NEW o, Own(w, o) PROVE Keep(w, o, w, o)
BY DEF Keep

LEMMA KeepTrans ==
  ASSUME NEW w, NEW o, NEW x, NEW p, NEW y, NEW q, Keep(w, o, x, p), Keep(x, p, y, q)
  PROVE  Keep(w, o, y, q)
<1>1. ASSUME NEW f \in Frames
      PROVE  q[f] = o[f] \/ (o[f][1] \notin {"root", "loose"} /\ q[f][1] \notin {"root", "loose"})
  BY DEF Keep
<1>2. ASSUME NEW f \in Frames, o[f][1] = "loose" PROVE y.data[f] = w.data[f]
  <2>1. p[f] = o[f]
    BY <1>2 DEF Keep
  <2> QED BY <1>2, <2>1 DEF Keep
<1> QED BY <1>1, <1>2 DEF Keep

LEMMA KeepRoots ==
  ASSUME NEW w, NEW o, NEW x, NEW p, Keep(w, o, x, p), NEW r
  PROVE  Root_(p, r) <=> Root_(o, r)
BY DEF Keep, Root_

LEMMA SameTrans ==
  ASSUME NEW w, NEW o, NEW x, NEW p, Keep(w, o, x, p), NEW y, SamePtes(o, w, x), SamePtes(p, x, y)
  PROVE  SamePtes(o, w, y)
BY KeepRoots DEF SamePtes

LEMMA OthersTrans ==
  ASSUME NEW w, NEW o, NEW x, NEW p, Keep(w, o, x, p), NEW y, NEW r,
         Others(o, w, x, r), Others(p, x, y, r)
  PROVE  Others(o, w, y, r)
BY KeepRoots DEF Others

(* Only what is returned differs.                                          *)
LEMMA RetOwn ==
  ASSUME NEW w, NEW o, Own(w, o), NEW r \in Int
  PROVE  /\ Keep(w, o, Ret(w, r), o) /\ SamePtes(o, w, Ret(w, r))
         /\ Room(w) => Room(Ret(w, r))
<1> DEFINE x == Ret(w, r)
<1>1. /\ x \in Machine /\ x.pt = w.pt /\ x.data = w.data /\ x.free = w.free
      /\ x.left = w.left /\ x.proc = w.proc
  BY RetFields DEF Own
<1> HIDE DEF x
<1>2. Own(x, o)
  BY <1>1, OwnFill
<1>3. SamePtes(o, w, x)
  BY <1>1, <1>2, SamePte DEF SamePtes
<1> QED BY <1>1, <1>2, <1>3 DEF Keep, Room, x

Returned(w, o, x) ==
  /\ Keep(w, o, x, o) /\ SamePtes(o, w, x) /\ x \in Machine
  /\ x.pt = w.pt /\ x.data = w.data /\ x.free = w.free /\ x.left = w.left /\ x.proc = w.proc

LEMMA RetStep ==
  ASSUME NEW w, NEW o, Own(w, o), NEW r \in Int, NEW x, x = Ret(w, r)
  PROVE  Returned(w, o, x) /\ x.ret = r
BY RetOwn, RetFields DEF Own, Returned

(* A function has failed.                                                  *)
LEMMA RetError ==
  ASSUME NEW w, NEW o, Own(w, o), NEW x, x = Ret(w, -1)
  PROVE  Returned(w, o, x) /\ x.ret = -1
<1>1. PICK r \in Int : r = -1
  OBVIOUS
<1>2. x = Ret(w, r)
  BY <1>1
<1>3. Returned(w, o, x) /\ x.ret = r
  BY <1>2, RetStep
<1> QED BY <1>1, <1>3

(* A page, or none, is taken from the free list.                           *)
LEMMA KallocOwn ==
  ASSUME NEW w, NEW o, Own(w, o)
  PROVE  LET x == Kalloc(w)
             p == Put(o, x.ret, New)
         IN /\ x.pt = w.pt /\ x.data = w.data /\ x.proc = w.proc
            /\ SamePtes(o, w, x)
            /\ Room(w) => Room(x) /\ x.left >= w.left - 1 /\ (w.left >= 1 => x.ret # 0)
            /\ x.ret = 0 => Keep(w, o, x, o)
            /\ x.ret # 0 => /\ x.ret \in Frames /\ o[x.ret][1] = "free" /\ x.ret \notin x.free
                            /\ Own(x, p)
<1> DEFINE x == Kalloc(w)
           p == Put(o, x.ret, New)
<1>0. w \in Machine /\ o \in [Frames -> Places]
  BY DEF Own
<1>1. /\ x \in Machine /\ x.pt = w.pt /\ x.data = w.data /\ x.proc = w.proc
      /\ \/ /\ x.ret = 0 /\ x.free = w.free /\ x.left = w.left
            /\ w.left = 0 \/ w.free = {}
         \/ /\ x.ret \in w.free /\ x.free = w.free \ {x.ret} /\ x.left = w.left - 1
            /\ x.ret # 0 /\ x.ret \in Frames
  BY <1>0, KallocFields
<1>2. w.free \in SUBSET Frames /\ w.left \in Nat /\ x.free \in SUBSET Frames /\ x.left \in Nat
  BY <1>0, <1>1, MachineFields
<1> HIDE DEF x
<1>3. CASE x.ret = 0
  <2>1. x.free = w.free /\ x.left = w.left /\ (w.left = 0 \/ w.free = {})
    BY <1>1, <1>3
  <2>2. Own(x, o)
    BY <1>1, <2>1, OwnFill
  <2>3. SamePtes(o, w, x)
    BY <1>1, <2>2, SamePte DEF SamePtes
  <2>4. Room(w) => w.left = 0
    BY <1>2, <2>1, FS_EmptySet DEF Room
  <2>5. Keep(w, o, x, o)
    BY <1>1, <2>2 DEF Keep
  <2> QED BY <1>1, <1>2, <1>3, <2>1, <2>3, <2>4, <2>5 DEF Room, x
<1>4. CASE x.ret # 0
  <2>1. /\ x.ret \in w.free /\ x.free = w.free \ {x.ret} /\ x.left = w.left - 1
        /\ x.ret \in Frames /\ x.ret \notin x.free
    BY <1>1, <1>4
  <2>2. Own(x, p)
    BY <1>1, <2>1, OwnAlloc
  <2>3. o[x.ret][1] = "free"
    BY <2>1 DEF Own
  <2>4. ASSUME NEW s, Root_(o, s) PROVE Root_(p, s)
    <3>1. s \in Frames /\ s # x.ret /\ o[s][1] = "root"
      BY <2>3, <2>4 DEF Root_
    <3> QED BY <1>0, <2>1, <3>1, PutFields DEF Root_
  <2> HIDE DEF p
  <2>5. SamePtes(o, w, x)
    BY <1>1, <2>2, <2>4, SamePte DEF SamePtes
  <2>6. Cardinality(x.free) = Cardinality(w.free) - 1 /\ Cardinality(w.free) \in Nat
    BY <1>2, <2>1, FramesFinite, FS_RemoveElement
  <2>7. Room(w) => Room(x)
    BY <1>2, <2>1, <2>6 DEF Room
  <2> QED BY <1>1, <1>2, <1>4, <2>1, <2>2, <2>3, <2>5, <2>7 DEF x, p
<1> QED BY <1>3, <1>4

(* A new table is cleared and linked.                                      *)
LEMMA LinkNewFields ==
  ASSUME NEW k \in Machine, NEW f \in Frames, NEW t \in Frames \ {f}, NEW i \in Entries,
         k.ret = f, NEW level, NEW v, i = PX(level, v)
  PROVE  \E x : /\ x = LinkNew(t, level, v, k) /\ x \in Machine
                /\ x.free = k.free
                /\ x.left = k.left /\ x.ret = f /\ x.proc = k.proc
                /\ \A s \in Frames : s # t /\ s # f => x.pt[s] = k.pt[s]
                /\ \A s \in Frames : s # f => x.data[s] = k.data[s]
                /\ \A j \in Entries : x.pt[f][j] = NoPte
                /\ \A j \in Entries : x.pt[t][j] = IF j = i THEN TableAt(f) ELSE k.pt[t][j]
<1>1. PICK y : y = Memset0(k, f)
  OBVIOUS
<1>2. PICK z : z = TableAt(f)
  OBVIOUS
<1>3. PICK x : x = SetEntry(y, t, i, z)
  OBVIOUS
<1>4. x = LinkNew(t, level, v, k)
  <2>1. k.ret # 0
    BY DEF Frames
  <2> QED BY <1>1, <1>2, <1>3, <2>1 DEF LinkNew, SetEntry, TableAt
<1>5. /\ y \in Machine /\ y.pt[f] = EmptyTable
      /\ \A g \in Frames : g # f => y.pt[g] = k.pt[g] /\ y.data[g] = k.data[g]
      /\ y.free = k.free /\ y.left = k.left /\ y.ret = k.ret /\ y.proc = k.proc
  BY Z3T(30), <1>1, MemsetFields
<1>6. z \in PteType
  BY <1>2 DEF PteType, Frames, TrampolinePa, TableAt
<1>7. /\ x \in Machine /\ x.data = y.data /\ x.free = y.free /\ x.left = y.left
      /\ x.ret = y.ret /\ x.proc = y.proc
      /\ \A s \in Frames : s # t => x.pt[s] = y.pt[s]
      /\ \A j \in Entries : x.pt[t][j] = IF j = i THEN z ELSE y.pt[t][j]
  BY <1>3, <1>5, <1>6, EntryFields
<1>10. \A j \in Entries : x.pt[f][j] = NoPte
  BY <1>5, <1>7, EmptyTables
<1>11. \A s \in Frames : s # t /\ s # f => x.pt[s] = k.pt[s]
  BY <1>5, <1>7
<1>12. \A j \in Entries : x.pt[t][j] = IF j = i THEN z ELSE k.pt[t][j]
  BY <1>5, <1>7
<1> DEFINE Goal(u) == /\ u = LinkNew(t, level, v, k) /\ u \in Machine
                      /\ u.free = k.free
                      /\ u.left = k.left /\ u.ret = f /\ u.proc = k.proc
                      /\ \A s \in Frames : s # t /\ s # f => u.pt[s] = k.pt[s]
                      /\ \A s \in Frames : s # f => u.data[s] = k.data[s]
                      /\ \A j \in Entries : u.pt[f][j] = NoPte
                      /\ \A j \in Entries : u.pt[t][j] = IF j = i THEN TableAt(f) ELSE k.pt[t][j]
<1>13. Goal(x)
  BY <1>2, <1>4, <1>5, <1>7, <1>10, <1>11, <1>12
<1> HIDE DEF Goal
<1>14. \E u : Goal(u)
  BY <1>13
<1> QED BY <1>14 DEF Goal

NewTable(k, n, x, t, i, f, kind) ==
  /\ n[f] = New /\ t # f /\ k.pt[t][i].pa = 0
  /\ kind = "mid" => n[t][1] = "root" /\ i < Half
  /\ kind = "bot" => n[t][1] = "mid"
  /\ x \in Machine /\ x.free = k.free
  /\ \A s \in Frames : s # t /\ s # f => x.pt[s] = k.pt[s]
  /\ \A j \in Entries : x.pt[f][j] = NoPte
  /\ \A j \in Entries : x.pt[t][j] = IF j = i THEN TableAt(f) ELSE k.pt[t][j]

LEMMA LinkOwn ==
  ASSUME NEW k, NEW n, Own(k, n), NEW x, NEW t \in Frames, NEW i \in Entries, NEW f \in Frames,
         NEW kind \in {"mid", "bot"}, NewTable(k, n, x, t, i, f, kind)
  PROVE  Own(x, Put(n, f, <<kind, t, i>>))
<1> USE DEF NewTable
<1>1. k \in Machine /\ k.pt \in [Frames -> [Entries -> PteType]] /\ x.pt \in [Frames -> [Entries -> PteType]]
  BY MachineFields DEF Own
<1>2. PICK u : u = [k.pt EXCEPT ![f] = x.pt[f]]
  OBVIOUS
<1>3. PICK y : y = [k EXCEPT !.pt = u]
  OBVIOUS
<1>4. u \in [Frames -> [Entries -> PteType]] /\ u[f] = x.pt[f] /\ \A s \in Frames : s # f => u[s] = k.pt[s]
  BY <1>1, <1>2
<1>5. y \in Machine /\ y.free = k.free /\ y.pt = u
  BY <1>1, <1>3, <1>4 DEF Machine
<1>6. Own(y, n)
  <2>1. \A g \in Frames : n[g][1] \in {"root", "mid", "bot"} => y.pt[g] = k.pt[g]
    BY <1>4, <1>5 DEF New
  <2> QED BY <1>5, <2>1, OwnFill
<1>7. n[f][1] = "loose"
  BY DEF New
<1>8. /\ y.pt[t][i].pa = 0 /\ \A j \in Entries : y.pt[f][j] = NoPte
      /\ \A s \in Frames : s # t => x.pt[s] = y.pt[s]
      /\ \A j \in Entries : x.pt[t][j] = IF j = i THEN TableAt(f) ELSE y.pt[t][j]
  BY <1>4, <1>5
<1>9. LinkStep(y, n, x, t, i, f, kind)
  BY <1>5, <1>7, <1>8 DEF LinkStep, EntrySet
<1> QED BY <1>6, <1>9, OwnLink

(* An iteration of walk() that may allocate a table.                       *)
DownNew(w, level, v) == Down(w, level, v, TRUE)

Descends(w, o, x, p, t, i, kind) ==
  /\ Keep(w, o, x, p) /\ SamePtes(o, w, x)
  /\ \A g \in Frames : g # t /\ o[g][1] \in {"root", "mid"} => x.pt[g] = w.pt[g]
  /\ x.ret # 0 => x.ret \in Frames /\ x.pt[t][i].pa = x.ret /\ p[x.ret][1] = kind
  /\ Spends(w, x, 1) /\ (Ample(w, 1) => x.ret # 0)

AtTable(w, o, level, t, kind) ==
  /\ t = w.ret /\ t \in Frames
  /\ kind = "mid" => level = 2 /\ o[t][1] = "root"
  /\ kind = "bot" => level = 1 /\ o[t][1] = "mid"

LEMMA DownAllocs ==
  ASSUME NEW w, NEW o, Own(w, o), NEW level \in {1, 2}, NEW v \in VA, NEW t,
         NEW kind \in {"mid", "bot"}, AtTable(w, o, level, t, kind), NEW i, i = PX(level, v)
  PROVE  \E p : Descends(w, o, DownNew(w, level, v), p, t, i, kind)
<1> USE DEF AtTable
<1>d. PICK x : x = Down(w, level, v, TRUE)
  OBVIOUS
<1>b. PICK e : e = w.pt[t][i]
  OBVIOUS
<1> DEFINE Goal(p) == /\ Keep(w, o, x, p) /\ SamePtes(o, w, x)
                      /\ \A g \in Frames : g # t /\ o[g][1] \in {"root", "mid"} => x.pt[g] = w.pt[g]
                      /\ x.ret # 0 => x.ret \in Frames /\ x.pt[t][i].pa = x.ret /\ p[x.ret][1] = kind
                      /\ Room(w) => Room(x) /\ x.left >= w.left - 1 /\ (w.left >= 1 => x.ret # 0)
<1> SUFFICES \E p : Goal(p)
  BY <1>d DEF Descends, Spends, Ample, DownNew
<1>0. /\ w \in Machine /\ o \in [Frames -> Places] /\ t \in Frames /\ t # 0
      /\ i \in Entries /\ (kind = "mid" => i < Half) /\ w.left \in Nat
  <2>1. w \in Machine /\ o \in [Frames -> Places] /\ t \in Frames /\ t # 0
    BY DEF Own, Frames
  <2>2. i \in Entries
    BY Indices
  <2>3. PX(2, v) \in 0..(Half - 1)
    BY Indices
  <2>4. kind = "mid" => i < Half
    BY <2>3, Layout
  <2> QED BY <2>1, <2>2, <2>4, MachineFields
<1>1. EntryOK(e, o, t, i) /\ e.pa \in Nat
  BY <1>0, <1>b, Entry
<1>2. CASE e.pa # 0
  <2>1. x = Ret(w, e.pa)
    BY <1>0, <1>2, <1>b, <1>d DEF Down, Valid
  <2>a. PICK r : r = e.pa
    OBVIOUS
  <2>2. r \in Frames /\ o[r] = <<kind, t, i>> /\ r \in Int
    BY <1>1, <1>2, <2>a DEF EntryOK
  <2>3. x.pt = w.pt /\ x.ret = r /\ x.left = w.left
    BY <1>0, <2>1, <2>2, <2>a, RetFields
  <2>4. Keep(w, o, x, o) /\ SamePtes(o, w, x) /\ (Room(w) => Room(x))
    BY <2>1, <2>2, <2>a, RetOwn
  <2>5. o[x.ret][1] = kind
    BY <2>2, <2>3
  <2>6. Goal(o)
    BY <1>0, <1>2, <1>b, <2>a, <2>2, <2>3, <2>4, <2>5
  <2> HIDE DEF Goal
  <2> QED BY <2>6
<1>3. CASE e.pa = 0
  <2>a. PICK k : k = Kalloc(w)
    OBVIOUS
  <2>b. PICK f : f = k.ret
    OBVIOUS
  <2>c. PICK n : n = Put(o, f, New)
    OBVIOUS
  <2>1. x = LinkNew(t, level, v, k)
    BY <1>0, <1>3, <1>b, <1>d, <2>a DEF Down, Valid
  <2>2. /\ k.pt = w.pt /\ k.data = w.data /\ k.proc = w.proc
        /\ SamePtes(o, w, k)
        /\ Room(w) => Room(k) /\ k.left >= w.left - 1 /\ (w.left >= 1 => k.ret # 0)
        /\ f = 0 => Keep(w, o, k, o)
        /\ f # 0 => /\ f \in Frames /\ o[f][1] = "free" /\ f \notin k.free
                    /\ Own(k, n)
    BY <2>a, <2>b, <2>c, KallocOwn
  <2>3. CASE f = 0
    <3>1. x = k
      BY <2>1, <2>3, <2>b DEF LinkNew
    <3>2. Goal(o)
      BY <2>2, <2>3, <2>b, <3>1
    <3> HIDE DEF Goal
    <3> QED BY <3>2
  <2>4. CASE f # 0
    <3>1. f \in Frames /\ o[f][1] = "free" /\ Own(k, n) /\ k \in Machine /\ f # t
      <4>1. f \in Frames /\ o[f][1] = "free" /\ Own(k, n)
        BY <2>2, <2>4
      <4>2. f # t
        BY <4>1
      <4> QED BY <4>1, <4>2 DEF Own
    <3>c. PICK p : p = Put(n, f, <<kind, t, i>>)
      OBVIOUS
    <3>2. /\ x \in Machine /\ x.free = k.free
          /\ \A s \in Frames : s # f => x.data[s] = k.data[s]
          /\ x.left = k.left /\ x.ret = f /\ x.proc = k.proc
          /\ \A s \in Frames : s # t /\ s # f => x.pt[s] = k.pt[s]
          /\ \A j \in Entries : x.pt[f][j] = NoPte
          /\ \A j \in Entries : x.pt[t][j] = IF j = i THEN TableAt(f) ELSE k.pt[t][j]
      BY SMTT(30), <1>0, <2>1, <2>b, <3>1, LinkNewFields
    <3>3. n \in [Frames -> Places] /\ n[f] = New /\ \A g \in Frames \ {f} : n[g] = o[g]
      BY <1>0, <2>c, <3>1, PutFields DEF Own
    <3>4. k.pt[t][i].pa = 0 /\ n[t] = o[t]
      BY <1>0, <1>3, <1>b, <2>2, <3>1, <3>3
    <3>5. Own(x, p)
      <4>1. /\ kind = "mid" => n[t][1] = "root" /\ i < Half
            /\ kind = "bot" => n[t][1] = "mid"
        BY <1>0, <3>4
      <4>2. Own(x, Put(n, f, <<kind, t, i>>))
        <5>1. NewTable(k, n, x, t, i, f, kind)
          BY <3>1, <3>2, <3>3, <3>4, <4>1 DEF NewTable
        <5> QED BY <1>0, <3>1, <5>1, LinkOwn
      <4> QED BY <3>c, <4>2
    <3>6. /\ p \in [Frames -> Places] /\ p[f] = <<kind, t, i>>
          /\ \A g \in Frames \ {f} : p[g] = o[g]
      <4>1. p \in [Frames -> Places]
        BY <3>5 DEF Own
      <4>2. p[f] = <<kind, t, i>> /\ \A g \in Frames : g # f => p[g] = n[g]
        BY <3>1, <3>3, <3>c, PutFields
      <4> QED BY <3>3, <4>1, <4>2
    <3>7. SamePtes(o, w, x)
      <4>2. ASSUME NEW s, Root_(o, s) PROVE \A u \in VA : PteAt(x, s, u) = PteAt(w, s, u)
        <5>1. Root_(p, s)
          BY <3>1, <3>6, <4>2 DEF Root_
        <5>2. \A g \in Frames : g # f /\ g # t /\ o[g][1] \in {"root", "mid", "bot"} => x.pt[g] = w.pt[g]
          BY <2>2, <3>2
        <5>3. \A j \in Entries : j # i => x.pt[t][j] = w.pt[t][j]
          BY <2>2, <3>2
        <5>4. x.pt[t][i].pa = f /\ \A j \in Entries : x.pt[f][j] = NoPte
          BY <1>0, <3>2 DEF TableAt
        <5>5. /\ p[f][1] \in {"mid", "bot"} /\ o[t][1] \in {"root", "mid"}
              /\ o[f][1] \notin {"root", "mid", "bot"}
          BY <3>1, <3>6
        <5>6. w.pt[t][i].pa = 0
          BY <1>3, <1>b
        <5> HIDE DEF Goal
        <5>7. TableLinked(w, o, x, t, i, f)
          BY <5>2, <5>3, <5>4, <5>5, <5>6 DEF TableLinked, NoPte
        <5> QED BY <1>0, <3>1, <3>5, <4>2, <5>1, <5>5, <5>7, LinkPte
      <4> QED BY <4>2 DEF SamePtes
    <3>8. Keep(w, o, x, p)
      <4>1. \A g \in Frames : o[g][1] = "loose" => x.data[g] = w.data[g]
        BY <2>2, <3>1, <3>2
      <4>2. p[f][1] \notin {"root", "loose"}
        BY <3>6
      <4> QED BY <2>2, <3>1, <3>2, <3>5, <3>6, <4>1, <4>2 DEF Keep
    <3>9. \A g \in Frames : g # t /\ o[g][1] \in {"root", "mid"} => x.pt[g] = w.pt[g]
      BY <2>2, <3>1, <3>2
    <3>10. x.ret = f /\ x.pt[t][i].pa = x.ret /\ p[x.ret][1] = kind
      BY <1>0, <3>2, <3>6 DEF TableAt
    <3>11. Room(w) => Room(x) /\ x.left >= w.left - 1
      BY <2>2, <3>2 DEF Room
    <3>12. Goal(p)
      BY <2>4, <3>1, <3>7, <3>8, <3>9, <3>10, <3>11
    <3> HIDE DEF Goal
    <3> QED BY <3>12
  <2> QED BY <2>3, <2>4
<1> QED BY <1>2, <1>3

(* The pages that two steps use.                                           *)
LEMMA SpendsTrans ==
  ASSUME NEW w, NEW x, NEW y, NEW a \in Nat, NEW b \in Nat, w.left \in Nat, x.left \in Nat,
         y.left \in Nat, Spends(w, x, a), Spends(x, y, b)
  PROVE  Spends(w, y, a + b)
<1>1. PICK l, k, j : l = w.left /\ k = x.left /\ j = y.left
  OBVIOUS
<1> QED BY <1>1 DEF Spends

LEMMA SpendsLess ==
  ASSUME NEW w, NEW x, NEW a \in Nat, NEW b \in Nat, w.left \in Nat, x.left \in Nat,
         Spends(w, x, a), a <= b
  PROVE  Spends(w, x, b)
<1>1. PICK l, k : l = w.left /\ k = x.left
  OBVIOUS
<1> QED BY <1>1 DEF Spends

LEMMA AmpleAfter ==
  ASSUME NEW w, NEW x, NEW a \in Nat, NEW b \in Nat, NEW c \in Nat, w.left \in Nat, x.left \in Nat,
         Spends(w, x, a), c >= a + b, Ample(w, c)
  PROVE  Ample(x, b)
<1>1. PICK l, k : l = w.left /\ k = x.left
  OBVIOUS
<1> QED BY <1>1 DEF Spends, Ample

LEMMA SameSpends ==
  ASSUME NEW w, NEW x, w.left \in Nat, x.left = w.left, x.free = w.free
  PROVE  Spends(w, x, 0)
<1>1. PICK l : l = w.left
  OBVIOUS
<1> QED BY <1>1 DEF Spends, Room

(* The fields of a machine that are numbers.                               *)
LEMMA Left ==
  ASSUME NEW w, NEW o, Own(w, o)
  PROVE  w.left \in Nat /\ w.ret \in Int /\ w \in Machine
BY MachineFields DEF Own

LEMMA KeepOwn ==
  ASSUME NEW w, NEW o, NEW x, NEW p, Keep(w, o, x, p)
  PROVE  Own(x, p) /\ x \in Machine /\ x.left \in Nat /\ x.ret \in Int /\ x.proc = w.proc
BY Left DEF Keep

(* walk() that may allocate: no page is mapped or unmapped by it.          *)
WalkNew(w, r, v) == Walk(w, r, v, TRUE)

Walked(w, o, x, p, r, v) ==
  /\ Keep(w, o, x, p) /\ SamePtes(o, w, x)
  /\ x.ret # 0 => x.ret = BotOf(x, r, v)
  /\ Spends(w, x, 2) /\ (Ample(w, 2) => x.ret # 0)

LEMMA WalkAllocs ==
  ASSUME NEW w, NEW o, Own(w, o), NEW r, Root_(o, r), NEW v \in VA
  PROVE  \E p : Walked(w, o, WalkNew(w, r, v), p, r, v)
<1>1. r \in Frames /\ r \in Int /\ r # 0 /\ o[r][1] = "root" /\ ~(v >= MAXVA)
  <2>1. ~(v >= MAXVA)
    BY Layout DEF VA
  <2> QED BY <2>1 DEF Root_, Frames
<1>2. PICK a : a = Ret(w, r)
  OBVIOUS
<1>3. Keep(w, o, a, o) /\ SamePtes(o, w, a) /\ Own(a, o)
  BY Z3T(30), <1>1, <1>2, RetOwn DEF Keep
<1>4. a.ret = r /\ a.left = w.left /\ w.left \in Nat /\ a.free = w.free
  BY <1>1, <1>2, Left, RetFields
<1>5. PICK i : i = PX(2, v)
  OBVIOUS
<1>6. PICK b : b = DownNew(a, 2, v)
  OBVIOUS
<1>7. PICK n : Descends(a, o, b, n, r, i, "mid")
  <2>1. AtTable(a, o, 2, r, "mid")
    BY <1>1, <1>4 DEF AtTable
  <2>2. 2 \in {1, 2} /\ "mid" \in {"mid", "bot"}
    OBVIOUS
  <2> QED BY <1>3, <1>5, <1>6, <2>1, <2>2, DownAllocs
<1>8. /\ Keep(a, o, b, n) /\ SamePtes(o, a, b)
      /\ b.ret # 0 => b.ret \in Frames /\ b.pt[r][i].pa = b.ret /\ n[b.ret][1] = "mid"
      /\ Spends(a, b, 1) /\ (Ample(a, 1) => b.ret # 0)
  BY <1>7 DEF Descends
<1>9. Own(b, n) /\ n[r][1] = "root" /\ b.left \in Nat
  <2>1. Own(b, n) /\ b.left \in Nat
    BY <1>8, KeepOwn
  <2>2. n[r] = o[r]
    BY <1>1, <1>8 DEF Keep
  <2> QED BY <1>1, <2>1, <2>2
<1>10. Keep(w, o, b, n)
  BY <1>3, <1>8, KeepTrans
<1>11. SamePtes(o, w, b)
  BY <1>3, <1>8, SameTrans
<1>12. Spends(w, a, 0) /\ Spends(w, b, 1)
  <2>1. Spends(w, a, 0)
    BY <1>4, SameSpends
  <2>2. Spends(w, b, 0 + 1)
    BY <1>4, <1>8, <1>9, <2>1, SpendsTrans
  <2> QED BY <2>1, <2>2
<1>13. PICK x : x = DownNew(b, 1, v)
  OBVIOUS
<1>14. WalkNew(w, r, v) = x
  BY <1>1, <1>2, <1>6, <1>13 DEF WalkNew, Walk, DownNew
<1>15. CASE b.ret = 0
  <2>1. x = b
    BY <1>13, <1>15 DEF Down, DownNew
  <2>2. Spends(w, x, 2)
    BY <1>4, <1>9, <1>12, <2>1, SpendsLess
  <2>3. ~Ample(w, 2)
    <3>1. Ample(w, 2) => Ample(a, 1)
      BY <1>4, <1>12, AmpleAfter
    <3> QED BY <1>8, <1>15, <3>1
  <2>4. Walked(w, o, x, n, r, v)
    BY <1>10, <1>11, <1>15, <2>1, <2>2, <2>3 DEF Walked
  <2> QED BY <1>14, <2>4
<1>16. CASE b.ret # 0
  <2>1. PICK t : t = b.ret
    OBVIOUS
  <2>2. PICK j : j = PX(1, v)
    OBVIOUS
  <2>3. t \in Frames /\ b.pt[r][i].pa = t /\ n[t][1] = "mid" /\ t # r /\ t # 0
    BY <1>8, <1>9, <1>16, <2>1
  <2>4. PICK p : Descends(b, n, x, p, t, j, "bot")
    <3>1. AtTable(b, n, 1, t, "bot")
      BY <2>1, <2>3 DEF AtTable
    <3>2. 1 \in {1, 2} /\ "bot" \in {"mid", "bot"}
      OBVIOUS
    <3> QED BY <1>9, <1>13, <2>2, <3>1, <3>2, DownAllocs
  <2>5. /\ Keep(b, n, x, p) /\ SamePtes(n, b, x)
        /\ \A g \in Frames : g # t /\ n[g][1] \in {"root", "mid"} => x.pt[g] = b.pt[g]
        /\ x.ret # 0 => x.ret \in Frames /\ x.pt[t][j].pa = x.ret
        /\ Spends(b, x, 1) /\ (Ample(b, 1) => x.ret # 0)
    BY <2>4 DEF Descends
  <2>6. Keep(w, o, x, p)
    BY <1>10, <2>5, KeepTrans
  <2>7. SamePtes(o, w, x)
    BY <1>10, <1>11, <2>5, SameTrans
  <2>8. x.pt[r] = b.pt[r]
    BY <1>1, <1>9, <2>3, <2>5
  <2>9. x.ret # 0 => x.ret = BotOf(x, r, v)
    BY <1>5, <2>2, <2>3, <2>5, <2>8 DEF BotOf, MidOf
  <2>10. x.left \in Nat
    BY <2>5, KeepOwn
  <2>11. Spends(w, x, 2)
    <3>1. Spends(w, x, 1 + 1)
      BY <1>4, <1>9, <1>12, <2>5, <2>10, SpendsTrans
    <3> QED BY <3>1
  <2>12. Ample(w, 2) => x.ret # 0
    <3>1. Ample(w, 2) => Ample(b, 1)
      BY <1>4, <1>9, <1>12, AmpleAfter
    <3> QED BY <2>5, <3>1
  <2>13. Walked(w, o, x, p, r, v)
    BY <2>6, <2>7, <2>9, <2>11, <2>12 DEF Walked
  <2> QED BY <1>14, <2>13
<1> QED BY <1>15, <1>16

-----------------------------------------------------------------------------
(* mappages(), of a page that is not mapped.                               *)
MapAt(w, r, v, e) == Mappages(w, r, v, e.pa, e.perm)

(* The entry of page v of r, and of no other page of r, becomes e.         *)
Remap(w, x, r, v, e) ==
  \A u \in VA : PteAt(x, r, u) = IF u = v THEN e ELSE PteAt(w, r, u)

(* walk() has returned t, the table of page v.                             *)
AtEntry(w, o, r, v, t, i) ==
  /\ Root_(o, r) /\ t = w.ret /\ t # 0 /\ t = BotOf(w, r, v)
  /\ PteAt(w, r, v).pa = 0 /\ i = PX(0, v)

EntryMapped(w, o, x, t, i, e) ==
  /\ EntrySet(w, x, t, i, e) /\ LeafSet(w, o, x, t, i, e)
  /\ x.data = w.data /\ x.proc = w.proc /\ x.left = w.left /\ x.ret = 0
  /\ t \in Frames /\ i \in Entries /\ o[t][1] = "bot" /\ w.pt[t][i].pa = 0

LEMMA MapFields ==
  ASSUME NEW w, NEW o, Own(w, o), NEW r, NEW v \in VA, NEW t, NEW i, AtEntry(w, o, r, v, t, i),
         NEW e \in PteType, NEW x, x = MapIn(w, v, e.pa, e.perm)
  PROVE  EntryMapped(w, o, x, t, i, e)
<1> USE DEF AtEntry
<1>1. t \in Frames /\ o[t][1] = "bot" /\ i \in Entries /\ w \in Machine
  BY Path, Indices, Left
<1>2. w.pt[t][i].pa = 0
  <2>1. PteAt(w, r, v) = LeafOf(w, r, v)
    BY PteLeaf
  <2>2. LeafOf(w, r, v) = w.pt[t][i]
    BY DEF LeafOf
  <2> QED BY <2>1, <2>2
<1>3. PICK y : y = SetEntry(w, t, i, e)
  OBVIOUS
<1>5. e = [pa |-> e.pa, perm |-> e.perm]
  BY DEF PteType
<1>6. x = Ret(y, 0)
  <2>1. w.pt[t][PX(0, v)].pa = 0
    BY <1>2
  <2>2. MapIn(w, v, e.pa, e.perm) = [w EXCEPT !.pt[w.ret][PX(0, v)] = [pa |-> e.pa, perm |-> e.perm], !.ret = 0]
    BY <2>1 DEF MapIn, Valid
  <2>3. Ret(y, 0) = [w EXCEPT !.pt[t][i] = e, !.ret = 0]
    BY <1>3 DEF Ret, SetEntry
  <2> QED BY <1>5, <2>2, <2>3
<1>7. /\ y \in Machine /\ y.data = w.data /\ y.free = w.free /\ y.left = w.left
      /\ y.proc = w.proc
      /\ \A s \in Frames : s # t => y.pt[s] = w.pt[s]
      /\ \A j \in Entries : y.pt[t][j] = IF j = i THEN e ELSE w.pt[t][j]
  BY <1>1, <1>3, EntryFields
<1>8. /\ x \in Machine /\ x.pt = y.pt /\ x.data = y.data /\ x.free = y.free
      /\ x.left = y.left /\ x.ret = 0 /\ x.proc = y.proc
  BY <1>6, <1>7, RetFields
<1>9. EntrySet(w, x, t, i, e) /\ LeafSet(w, o, x, t, i, e)
  BY <1>7, <1>8 DEF EntrySet, LeafSet
<1> QED BY <1>1, <1>2, <1>7, <1>8, <1>9 DEF EntryMapped

(* The PTEs of other tables, and of other pages.                           *)
LEMMA SetPtes ==
  ASSUME NEW w, NEW o, Own(w, o), NEW x, NEW p, Own(x, p), NEW r, Root_(o, r), NEW v \in VA,
         NEW e, BotOf(w, r, v) # 0, \A s : Root_(o, s) => Root_(p, s),
         LeafSet(w, o, x, BotOf(w, r, v), PX(0, v), e)
  PROVE  Others(o, w, x, r) /\ Remap(w, x, r, v, e)
<1>1. ASSUME NEW s, Root_(o, s), s # r, NEW u \in VA PROVE PteAt(x, s, u) = PteAt(w, s, u)
  <2>1. Root_(p, s)
    BY <1>1
  <2>2. \A z \in VA : PteAt(x, s, z) = IF s = r /\ z = v THEN e ELSE PteAt(w, s, z)
    BY <1>1, <2>1, SetPte
  <2> QED BY <1>1, <2>2
<1>2. ASSUME NEW u \in VA PROVE PteAt(x, r, u) = IF u = v THEN e ELSE PteAt(w, r, u)
  <2>1. Root_(p, r)
    OBVIOUS
  <2>2. \A z \in VA : PteAt(x, r, z) = IF r = r /\ z = v THEN e ELSE PteAt(w, r, z)
    BY <2>1, SetPte
  <2> QED BY <2>2
<1> QED BY <1>1, <1>2 DEF Others, Remap

LEMMA SameRemap ==
  ASSUME NEW w, NEW o, NEW y, NEW p, Keep(w, o, y, p), NEW r, Root_(o, r), SamePtes(o, w, y), NEW x, NEW v, NEW e,
         Others(p, y, x, r), Remap(y, x, r, v, e)
  PROVE  Others(o, w, x, r) /\ Remap(w, x, r, v, e)
<1>1. Others(o, w, x, r)
  BY KeepRoots DEF Others, SamePtes
<1>2. Remap(w, x, r, v, e)
  BY DEF Remap, SamePtes
<1> QED BY <1>1, <1>2

(* A page of somebody else, without PTE_W or PTE_X: it is not user memory. *)
TopMap(w, o, x, p, r, v, e) ==
  /\ Keep(w, o, x, p) /\ x.ret \in {0, -1}
  /\ x.ret = 0 => Others(o, w, x, r) /\ Remap(w, x, r, v, e)
  /\ x.ret # 0 => SamePtes(o, w, x)
  /\ Spends(w, x, 2) /\ (Ample(w, 2) => x.ret = 0)

LEMMA MapTopPage ==
  ASSUME NEW w, NEW o, Own(w, o), NEW r, Root_(o, r), NEW v \in VA, PteAt(w, r, v).pa = 0,
         NEW e \in PteType, e.pa # 0, e.perm # {}, ~Mine(e)
  PROVE  \E p : TopMap(w, o, MapAt(w, r, v, e), p, r, v, e)
<1>1. PICK y : y = WalkNew(w, r, v)
  OBVIOUS
<1>2. PICK p : Walked(w, o, y, p, r, v)
  BY <1>1, WalkAllocs
<1>3. /\ Keep(w, o, y, p) /\ SamePtes(o, w, y)
      /\ y.ret # 0 => y.ret = BotOf(y, r, v)
      /\ Spends(w, y, 2) /\ (Ample(w, 2) => y.ret # 0)
  BY <1>2 DEF Walked
<1>4. PICK x : x = MapIn(y, v, e.pa, e.perm)
  OBVIOUS
<1>5. MapAt(w, r, v, e) = x
  BY <1>1, <1>4 DEF MapAt, Mappages, WalkNew
<1>6. Own(y, p) /\ y.left \in Nat /\ y.ret \in Int /\ y \in Machine /\ w.left \in Nat
  BY <1>3, KeepOwn, Left
<1>7. CASE y.ret = 0
  <2>1. x = Ret(y, -1)
    BY <1>4, <1>7 DEF MapIn
  <2>2. Keep(y, p, x, p) /\ SamePtes(p, y, x)
    BY <1>6, <2>1, RetError DEF Returned
  <2>3. x.ret = -1 /\ x.left = y.left /\ x.free = y.free
    BY <1>6, <2>1, RetError DEF Returned
  <2>4. Keep(w, o, x, p)
    BY <1>3, <2>2, KeepTrans
  <2>5. SamePtes(o, w, x)
    BY <1>3, <2>2, SameTrans
  <2>6. Spends(w, x, 2)
    <3>1. Spends(y, x, 0)
      BY <1>6, <2>3, SameSpends
    <3>2. Spends(w, x, 2 + 0)
      BY <1>3, <1>6, <2>3, <3>1, SpendsTrans
    <3> QED BY <3>2
  <2>7. TopMap(w, o, x, p, r, v, e)
    BY <1>3, <1>7, <2>3, <2>4, <2>5, <2>6 DEF TopMap
  <2> QED BY <1>5, <2>7
<1>8. CASE y.ret # 0
  <2>1. PICK t, i : t = y.ret /\ i = PX(0, v)
    OBVIOUS
  <2>2. PteAt(y, r, v).pa = 0 /\ Root_(p, r) /\ t = BotOf(y, r, v)
    BY <1>3, <1>8, <2>1, KeepRoots DEF SamePtes
  <2>3. /\ EntrySet(y, x, t, i, e) /\ LeafSet(y, p, x, t, i, e)
        /\ x.data = y.data /\ x.proc = y.proc /\ x.left = y.left /\ x.ret = 0
        /\ t \in Frames /\ i \in Entries /\ p[t][1] = "bot" /\ y.pt[t][i].pa = 0
    <3>1. AtEntry(y, p, r, v, t, i)
      BY <1>8, <2>1, <2>2 DEF AtEntry
    <3>2. EntryMapped(y, p, x, t, i, e)
      BY <1>4, <1>6, <3>1, MapFields
    <3> QED BY <3>2 DEF EntryMapped
  <2>4. ~Mine(y.pt[t][i])
    <3>1. EntryOK(y.pt[t][i], p, t, i)
      BY <1>6, <2>3, Entry
    <3> QED BY <2>3, <3>1 DEF EntryOK, NoPte, Mine
  <2>5. Own(x, p)
    <3>1. EntryStep(y, p, x, t, i, e)
      BY <2>3, <2>4 DEF EntryStep
    <3> QED BY <1>6, <2>3, <3>1, OwnEntry
  <2>6. Keep(y, p, x, p)
    BY <2>3, <2>5 DEF Keep
  <2>7. Others(p, y, x, r) /\ Remap(y, x, r, v, e)
    <3>1. BotOf(y, r, v) # 0 /\ LeafSet(y, p, x, BotOf(y, r, v), PX(0, v), e)
      BY <1>8, <2>1, <2>2, <2>3
    <3> QED BY <1>6, <2>2, <2>5, <3>1, SetPtes
  <2>8. Keep(w, o, x, p)
    BY <1>3, <2>6, KeepTrans
  <2>9. Others(o, w, x, r) /\ Remap(w, x, r, v, e)
    BY <1>3, <2>7, SameRemap
  <2>10. Spends(w, x, 2)
    <3>1. Spends(y, x, 0)
      BY <1>6, <2>3, SameSpends DEF EntrySet
    <3>2. Spends(w, x, 2 + 0)
      BY <1>3, <1>6, <2>3, <3>1, SpendsTrans
    <3> QED BY <3>2
  <2>11. TopMap(w, o, x, p, r, v, e)
    BY <2>3, <2>8, <2>9, <2>10 DEF TopMap
  <2> QED BY <1>5, <2>11
<1> QED BY <1>7, <1>8

-----------------------------------------------------------------------------
(* kalloc() has returned page f, which may have been filled since.         *)
NewMem(w, o, y, n, f) ==
  /\ f \in Frames /\ f \in w.free /\ o[f][1] = "free" /\ n = Put(o, f, New) /\ Own(y, n)
  /\ y.proc = w.proc /\ SamePtes(o, w, y) /\ Spends(w, y, 1)
  /\ \A g \in Frames : o[g][1] = "loose" => y.data[g] = w.data[g]

NoMem(w, o, y) == Keep(w, o, y, o) /\ SamePtes(o, w, y) /\ ~Ample(w, 1)

LEMMA KallocNew ==
  ASSUME NEW w, NEW o, Own(w, o), NEW k, k = Kalloc(w)
  PROVE  /\ k \in Machine /\ k.ret \in Int
         /\ k.ret = 0 => NoMem(w, o, k)
         /\ k.ret # 0 => k.ret \in Frames /\ NewMem(w, o, k, Put(o, k.ret, New), k.ret)
<1>1. /\ k.pt = w.pt /\ k.data = w.data /\ k.proc = w.proc
      /\ SamePtes(o, w, k)
      /\ Room(w) => Room(k) /\ k.left >= w.left - 1 /\ (w.left >= 1 => k.ret # 0)
      /\ k.ret = 0 => Keep(w, o, k, o)
      /\ k.ret # 0 => /\ k.ret \in Frames /\ o[k.ret][1] = "free" /\ k.ret \notin k.free
                      /\ Own(k, Put(o, k.ret, New))
  BY KallocOwn
<1>2. k \in Machine /\ k.ret \in Int
  <2>1. k \in Machine
    BY KallocFields, Left
  <2> QED BY <2>1, MachineFields
<1>3. k.ret # 0 => k.ret \in w.free
  BY <1>1 DEF Own
<1> QED BY <1>1, <1>2, <1>3 DEF NoMem, NewMem, Ample, Spends

LEMMA FillNew ==
  ASSUME NEW w, NEW o, NEW k, NEW n, NEW f, Own(w, o), NewMem(w, o, k, n, f), NEW y \in Machine,
         y.free = k.free, y.left = k.left, y.proc = k.proc,
         \A g \in Frames : g # f => y.pt[g] = k.pt[g] /\ y.data[g] = k.data[g]
  PROVE  NewMem(w, o, y, n, f)
<1> USE DEF NewMem
<1>1. n[f] = New /\ \A g \in Frames : g # f => n[g] = o[g]
  BY PutFields DEF Own
<1>2. Own(y, n)
  BY <1>1, OwnFill DEF New
<1>3. \A s : Root_(o, s) => Root_(n, s)
  BY <1>1 DEF Root_
<1>4. ASSUME NEW s, Root_(o, s), NEW v \in VA PROVE PteAt(y, s, v) = PteAt(w, s, v)
  <2>1. \A g \in Frames : g = s \/ n[g][1] \in {"mid", "bot"} => y.pt[g] = k.pt[g]
    BY <1>1, <1>4 DEF New, Root_
  <2>2. PteAt(y, s, v) = PteAt(k, s, v)
    <3>1. Root_(n, s)
      BY <1>3, <1>4
    <3> QED BY <1>2, <2>1, <3>1, SamePte
  <2>3. PteAt(k, s, v) = PteAt(w, s, v)
    BY <1>4 DEF SamePtes
  <2> QED BY <2>2, <2>3
<1>5. Spends(w, y, 1)
  BY DEF Spends, Room
<1>6. \A g \in Frames : o[g][1] = "loose" => y.data[g] = w.data[g]
  OBVIOUS
<1>7. SamePtes(o, w, y)
  BY <1>4 DEF SamePtes
<1> QED BY <1>2, <1>5, <1>6, <1>7

(* The page has been mapped, or freed again.                               *)
LEMMA KeepNew ==
  ASSUME NEW w, NEW o, NEW y, NEW n, NEW f, Own(w, o), NewMem(w, o, y, n, f),
         NEW x, NEW q, Keep(y, n, x, q), NEW l, l[1] \notin {"root", "loose"},
         NEW z, Own(z, Put(q, f, l)), z.proc = x.proc,
         \A g \in Frames : g # f => z.data[g] = x.data[g]
  PROVE  Keep(w, o, z, Put(q, f, l))
<1> USE DEF NewMem
<1>1. n[f] = New /\ \A g \in Frames : g # f => n[g] = o[g]
  BY PutFields DEF Own
<1>2. PICK p : p = Put(q, f, l)
  OBVIOUS
<1>3. p[f] = l /\ \A g \in Frames : g # f => p[g] = q[g]
  <2>1. q \in [Frames -> Places]
    BY KeepOwn DEF Own
  <2> QED BY <1>2, <2>1, PutFields
<1>4. ASSUME NEW g \in Frames
      PROVE  p[g] = o[g] \/ (o[g][1] \notin {"root", "loose"} /\ p[g][1] \notin {"root", "loose"})
  <2>1. CASE g = f
    BY <1>3, <2>1
  <2>2. CASE g # f
    <3>1. q[g] = n[g] \/ (n[g][1] \notin {"root", "loose"} /\ q[g][1] \notin {"root", "loose"})
      BY DEF Keep
    <3> QED BY <1>1, <1>3, <2>2, <3>1
  <2> QED BY <2>1, <2>2
<1>5. ASSUME NEW g \in Frames, o[g][1] = "loose" PROVE z.data[g] = w.data[g]
  <2>1. g # f
    BY <1>5
  <2>2. n[g][1] = "loose"
    BY <1>1, <1>5, <2>1
  <2>3. x.data[g] = y.data[g]
    BY <2>2 DEF Keep
  <2> QED BY <1>5, <2>1, <2>3
<1>6. z.proc = w.proc
  BY DEF Keep
<1>7. Keep(w, o, z, p)
  BY <1>2, <1>4, <1>5, <1>6 DEF Keep
<1> QED BY <1>2, <1>7

LEMMA NewRoots ==
  ASSUME NEW w, NEW o, NEW y, NEW n, NEW f, Own(w, o), NewMem(w, o, y, n, f), NEW s
  PROVE  Root_(n, s) <=> Root_(o, s)
<1> USE DEF NewMem
<1>1. n[f] = New /\ \A g \in Frames : g # f => n[g] = o[g]
  BY PutFields DEF Own
<1> QED BY <1>1 DEF Root_, New

LEMMA NewSame ==
  ASSUME NEW w, NEW o, NEW y, NEW n, NEW f, Own(w, o), NewMem(w, o, y, n, f), NEW x
  PROVE  /\ SamePtes(n, y, x) => SamePtes(o, w, x)
         /\ \A r : Root_(o, r) /\ Others(n, y, x, r) => Others(o, w, x, r)
         /\ \A r, v, e : Root_(o, r) /\ Remap(y, x, r, v, e) => Remap(w, x, r, v, e)
<1>1. \A s : Root_(n, s) <=> Root_(o, s)
  BY NewRoots
<1>2. SamePtes(o, w, y)
  BY DEF NewMem
<1>3. SamePtes(n, y, x) => SamePtes(o, w, x)
  BY <1>1, <1>2 DEF SamePtes
<1>4. \A r : Root_(o, r) /\ Others(n, y, x, r) => Others(o, w, x, r)
  BY <1>1, <1>2 DEF SamePtes, Others
<1>5. \A r, v, e : Root_(o, r) /\ Remap(y, x, r, v, e) => Remap(w, x, r, v, e)
  BY <1>2 DEF SamePtes, Remap
<1> QED BY <1>3, <1>4, <1>5

(* The page that could not be used is freed again.                         *)
LEMMA FreeMem ==
  ASSUME NEW w, NEW o, NEW y, NEW n, NEW f, Own(w, o), NewMem(w, o, y, n, f),
         NEW x, NEW q, Keep(y, n, x, q), SamePtes(n, y, x), NEW z, z = Kfree(x, f)
  PROVE  \E p : Keep(w, o, z, p) /\ SamePtes(o, w, z)
<1>1. f \in Frames /\ n[f] = New /\ Own(y, n)
  BY PutFields DEF NewMem, Own
<1>2. q[f] = New /\ Own(x, q) /\ x \in Machine
  <2>1. q[f] = n[f]
    BY <1>1 DEF Keep, New
  <2> QED BY <1>1, <2>1, KeepOwn
<1>3. f \in Frames \ x.free /\ q[f][1] = "loose"
  BY <1>1, <1>2 DEF New, Own
<1>4. /\ z \in Machine
      /\ \A g \in Frames : g # f => z.pt[g] = x.pt[g] /\ z.data[g] = x.data[g]
      /\ z.free = x.free \cup {f} /\ z.proc = x.proc
  BY <1>2, <1>3, KfreeFields
<1>5. Own(z, Put(q, f, Free))
  BY <1>2, <1>3, <1>4, OwnFree
<1>6. Keep(w, o, z, Put(q, f, Free))
  <2>1. Free[1] \notin {"root", "loose"}
    BY DEF Free
  <2> QED BY <1>4, <1>5, <2>1, KeepNew
<1>7. SamePtes(q, x, z)
  <2>1. ASSUME NEW s, Root_(q, s), NEW v \in VA PROVE PteAt(z, s, v) = PteAt(x, s, v)
    <3>1. \A g \in Frames : g = s \/ q[g][1] \in {"mid", "bot"} => z.pt[g] = x.pt[g]
      BY <1>3, <1>4, <2>1 DEF Root_
    <3>2. Root_(Put(q, f, Free), s)
      <4>1. q \in [Frames -> Places] /\ s \in Frames /\ s # f
        BY <1>2, <1>3, <2>1 DEF Own, Root_
      <4> QED BY <1>1, <2>1, <4>1, PutFields DEF Root_
    <3> QED BY <1>2, <1>5, <2>1, <3>1, <3>2, SamePte
  <2> QED BY <2>1 DEF SamePtes
<1>8. SamePtes(n, y, z)
  BY <1>7, SameTrans
<1>9. SamePtes(o, w, z)
  BY <1>8, NewSame
<1> QED BY <1>6, <1>9

(* mappages() of a new page of user memory; when it fails, the page is to  *)
(* be freed.                                                               *)
PageAdded(w, o, x, p, r, v, e) ==
  /\ Keep(w, o, x, p) /\ Others(o, w, x, r) /\ Remap(w, x, r, v, e)

PageRefused(w, o, x, f) ==
  \E p : Keep(w, o, Kfree(x, f), p) /\ SamePtes(o, w, Kfree(x, f))

LEMMA MapNewPage ==
  ASSUME NEW w, NEW o, NEW y, NEW n, NEW f, Own(w, o), NewMem(w, o, y, n, f), NEW r, Root_(o, r),
         NEW v \in VA, PteAt(w, r, v).pa = 0, NEW e \in PteType, e.pa = f, Mine(e),
         NEW x, x = MapAt(y, r, v, e)
  PROVE  /\ x.ret = 0 => \E p : PageAdded(w, o, x, p, r, v, e)
         /\ x.ret # 0 => PageRefused(w, o, x, f) /\ x.ret = -1
         /\ Spends(w, x, 3) /\ (Ample(w, 3) => x.ret = 0) /\ x \in Machine
<1>1. /\ f \in Frames /\ n[f] = New /\ Own(y, n) /\ Spends(w, y, 1)
      /\ \A g \in Frames : g # f => n[g] = o[g]
  BY PutFields DEF NewMem, Own
<1>2. PICK a : a = WalkNew(y, r, v)
  OBVIOUS
<1>3. Root_(n, r)
  BY NewRoots
<1>4. PICK q : Walked(y, n, a, q, r, v)
  BY <1>1, <1>2, <1>3, WalkAllocs
<1>5. /\ Keep(y, n, a, q) /\ SamePtes(n, y, a)
      /\ a.ret # 0 => a.ret = BotOf(a, r, v)
      /\ Spends(y, a, 2) /\ (Ample(y, 2) => a.ret # 0)
  BY <1>4 DEF Walked
<1>6. x = MapIn(a, v, e.pa, e.perm)
  BY <1>2 DEF MapAt, Mappages, WalkNew
<1>7. Own(a, q) /\ a \in Machine /\ a.left \in Nat /\ a.ret \in Int /\ y.left \in Nat /\ w.left \in Nat
  BY <1>1, <1>5, KeepOwn, Left
<1>8. Spends(w, a, 3) /\ (Ample(w, 3) => a.ret # 0)
  <2>1. Spends(w, a, 1 + 2)
    BY <1>1, <1>5, <1>7, SpendsTrans
  <2>2. Ample(w, 3) => Ample(y, 2)
    BY <1>1, <1>7, AmpleAfter
  <2> QED BY <1>5, <2>1, <2>2
<1>9. CASE a.ret = 0
  <2>1. x = Ret(a, -1)
    BY <1>6, <1>9 DEF MapIn
  <2>2. Returned(a, q, x) /\ x.ret = -1
    BY <1>7, <2>1, RetError
  <2>3. Keep(a, q, x, q) /\ SamePtes(q, a, x)
    BY <2>2 DEF Returned
  <2>4. x.ret = -1 /\ x.left = a.left /\ x.free = a.free /\ x \in Machine
    BY <2>2 DEF Returned
  <2>5. Keep(y, n, x, q)
    BY <1>5, <2>3, KeepTrans
  <2>6. SamePtes(n, y, x)
    BY <1>5, <2>3, SameTrans
  <2>7. PageRefused(w, o, x, f)
    BY <2>5, <2>6, FreeMem DEF PageRefused
  <2>8. Spends(w, x, 3)
    BY <1>8, <2>4 DEF Spends, Room
  <2> QED BY <1>8, <1>9, <2>4, <2>7, <2>8
<1>10. CASE a.ret # 0
  <2>1. PICK t, i : t = a.ret /\ i = PX(0, v)
    OBVIOUS
  <2>2. AtEntry(a, q, r, v, t, i)
    <3>1. Root_(q, r)
      BY <1>3, <1>5, KeepRoots
    <3>2. PteAt(a, r, v).pa = 0
      <4>1. SamePtes(o, w, a)
        BY <1>5, NewSame
      <4> QED BY <4>1 DEF SamePtes
    <3> QED BY <1>5, <1>10, <2>1, <3>1, <3>2 DEF AtEntry
  <2>3. /\ EntrySet(a, x, t, i, e) /\ LeafSet(a, q, x, t, i, e)
        /\ x.data = a.data /\ x.proc = a.proc /\ x.left = a.left /\ x.ret = 0
        /\ t \in Frames /\ i \in Entries /\ q[t][1] = "bot" /\ a.pt[t][i].pa = 0
    <3>1. EntryMapped(a, q, x, t, i, e)
      BY <1>6, <1>7, <2>2, MapFields
    <3> QED BY <3>1 DEF EntryMapped
  <2>4. q[f] = New
    BY <1>1, <1>5 DEF Keep, New
  <2>5. PICK p : p = Put(q, f, <<"page", t, i>>)
    OBVIOUS
  <2>6. Own(x, p)
    <3>1. e.perm # {} /\ e.pa \in Frames /\ q[e.pa][1] = "loose"
      BY <1>1, <2>4 DEF Mine, New
    <3>2. MapStep(a, q, x, t, i, e)
      BY <2>3, <3>1 DEF MapStep
    <3>3. Own(x, Put(q, e.pa, <<"page", t, i>>))
      BY <1>7, <2>3, <3>2, OwnMap
    <3> QED BY <2>5, <3>3
  <2>7. Keep(w, o, x, p)
    <3>1. PICK l : l = <<"page", t, i>>
      OBVIOUS
    <3>2. l[1] \notin {"root", "loose"}
      BY <3>1
    <3>3. p = Put(q, f, l) /\ x.proc = a.proc /\ \A g \in Frames : g # f => x.data[g] = a.data[g]
      BY <2>3, <2>5, <3>1
    <3>4. Own(x, Put(q, f, l))
      BY <2>6, <3>3
    <3>5. Keep(w, o, x, Put(q, f, l))
      BY <1>5, <3>2, <3>3, <3>4, KeepNew
    <3> QED BY <3>3, <3>5
  <2>8. Others(q, a, x, r) /\ Remap(a, x, r, v, e)
    <3>1. BotOf(a, r, v) # 0 /\ LeafSet(a, q, x, BotOf(a, r, v), PX(0, v), e) /\ Root_(q, r)
      BY <1>10, <2>1, <2>2, <2>3 DEF AtEntry
    <3>2. ASSUME NEW s, Root_(q, s) PROVE Root_(p, s)
      <4>1. q \in [Frames -> Places] /\ s \in Frames /\ s # f
        BY <1>7, <2>4, <3>2 DEF Own, Root_, New
      <4> QED BY <1>1, <2>5, <3>2, <4>1, PutFields DEF Root_
    <3> QED BY <1>7, <2>6, <3>1, <3>2, SetPtes
  <2>9. Others(n, y, x, r) /\ Remap(y, x, r, v, e)
    BY <1>3, <1>5, <2>8, SameRemap
  <2>10. Others(o, w, x, r) /\ Remap(w, x, r, v, e)
    BY <2>9, NewSame
  <2>11. Spends(w, x, 3)
    BY <1>8, <2>3 DEF Spends, Room, EntrySet
  <2>12. x \in Machine
    BY <2>6, Left
  <2> QED BY <2>3, <2>7, <2>10, <2>11, <2>12 DEF PageAdded
<1> QED BY <1>9, <1>10

(* kalloc() and mappages() of a page of user memory, mem in the code: it is*)
(* given back when mappages() fails.                                       *)
Added(w, o, x, r, v, e, mem) ==
  /\ x.ret = 0 => mem \in Frames /\ \E p : PageAdded(w, o, x, p, r, v, e)
  /\ x.ret # 0 => /\ x.ret = -1
                  /\ \E p : Keep(w, o, GiveBack(x, mem), p) /\ SamePtes(o, w, GiveBack(x, mem))
  /\ Spends(w, x, 3) /\ (Ample(w, 3) => x.ret = 0) /\ x \in Machine

Unmapped(w, o, r, v) == Own(w, o) /\ Root_(o, r) /\ v \in VA /\ PteAt(w, r, v).pa = 0

LEMMA NoPage ==
  ASSUME NEW w, NEW o, Own(w, o), NEW k, k = Kalloc(w), k.ret = 0, NEW x, x = Ret(k, -1),
         NEW r, NEW v, NEW e
  PROVE  Added(w, o, x, r, v, e, k.ret)
<1>1. NoMem(w, o, k) /\ k \in Machine
  BY KallocNew
<1>2. Keep(w, o, k, o) /\ SamePtes(o, w, k) /\ ~Ample(w, 1) /\ Own(k, o)
  BY <1>1, KeepOwn DEF NoMem
<1>3. Returned(k, o, x) /\ x.ret = -1
  BY <1>2, RetError
<1>4. Keep(w, o, x, o)
  BY <1>2, <1>3, KeepTrans DEF Returned
<1>5. SamePtes(o, w, x)
  BY <1>2, <1>3, SameTrans DEF Returned
<1>6. GiveBack(x, k.ret) = x
  BY DEF GiveBack
<1>7. Spends(w, x, 3) /\ ~Ample(w, 3)
  <2>1. PICK l : l = w.left
    OBVIOUS
  <2>2. l \in Nat
    BY <2>1, Left
  <2>3. ~Ample(w, 3)
    BY <1>2, <2>1, <2>2 DEF Ample
  <2>4. k.left = l /\ k.free = w.free
    <3>1. \/ k.ret = 0 /\ k.free = w.free /\ k.left = w.left
          \/ k.ret # 0
      BY KallocFields, Left
    <3> QED BY <2>1, <3>1
  <2>5. x.left = l /\ x.free = w.free
    BY <1>3, <2>4 DEF Returned
  <2> QED BY <2>1, <2>2, <2>3, <2>5 DEF Spends, Room
<1>8. x \in Machine
  BY <1>3 DEF Returned
<1> QED BY <1>3, <1>4, <1>5, <1>6, <1>7, <1>8 DEF Added

(* In uvmalloc() the page is cleared.                                      *)
UserPte(f) == [pa |-> f, perm |-> UserPerm]

LEMMA NewPage ==
  ASSUME NEW w, NEW o, NEW r, NEW v, Unmapped(w, o, r, v), NEW k, k = Kalloc(w),
         NEW x, x = MapNew(k, r, v)
  PROVE  Added(w, o, x, r, v, UserPte(k.ret), k.ret)
<1> USE DEF Unmapped
<1>1. CASE k.ret = 0
  <2>1. x = Ret(k, -1)
    BY <1>1 DEF MapNew
  <2> QED BY <1>1, <2>1, NoPage
<1>2. CASE k.ret # 0
  <2>1. PICK f, n : f = k.ret /\ n = Put(o, f, New)
    OBVIOUS
  <2>2. f \in Frames /\ f # 0 /\ NewMem(w, o, k, n, f) /\ k \in Machine
    BY <1>2, <2>1, KallocNew
  <2>3. PICK y : y = Memset0(k, f)
    OBVIOUS
  <2>4. /\ y \in Machine /\ y.free = k.free /\ y.left = k.left /\ y.proc = k.proc
        /\ \A g \in Frames : g # f => y.pt[g] = k.pt[g] /\ y.data[g] = k.data[g]
    BY <2>2, <2>3, MemsetFields
  <2>5. NewMem(w, o, y, n, f)
    BY <2>2, <2>4, FillNew
  <2>6. PICK e : e = UserPte(f)
    OBVIOUS
  <2>7. e.pa = f /\ e.perm = UserPerm /\ e \in PteType /\ Mine(e)
    BY <2>2, <2>6 DEF UserPte, PteType, Mine, UserPerm, Frames, TrampolinePa
  <2>8. x = MapAt(y, r, v, e)
    BY <1>2, <2>1, <2>3, <2>7 DEF MapNew, MapAt
  <2>9. /\ x.ret = 0 => \E p : PageAdded(w, o, x, p, r, v, e)
        /\ x.ret # 0 => PageRefused(w, o, x, f) /\ x.ret = -1
        /\ Spends(w, x, 3) /\ (Ample(w, 3) => x.ret = 0) /\ x \in Machine
    BY <2>5, <2>7, <2>8, MapNewPage
  <2>10. GiveBack(x, f) = Kfree(x, f)
    BY <2>2 DEF GiveBack
  <2>11. Added(w, o, x, r, v, e, f)
    BY <2>2, <2>9, <2>10 DEF Added, PageRefused
  <2> QED BY <2>1, <2>6, <2>11
<1> QED BY <1>1, <1>2

(* In uvmcopy() it gets what the page of the parent holds, and its PTE.    *)
CopyPte(f, pte) == [pa |-> f, perm |-> pte.perm]

LEMMA CopiedPage ==
  ASSUME NEW w, NEW o, NEW r, NEW v, Unmapped(w, o, r, v), NEW k, k = Kalloc(w),
         NEW pte \in PteType, pte.pa \in Frames, Mine(pte), NEW x, x = MapCopy(k, r, v, pte)
  PROVE  Added(w, o, x, r, v, CopyPte(k.ret, pte), k.ret)
<1> USE DEF Unmapped
<1>1. CASE k.ret = 0
  <2>1. x = Ret(k, -1)
    BY <1>1 DEF MapCopy
  <2> QED BY <1>1, <2>1, NoPage
<1>2. CASE k.ret # 0
  <2>1. PICK f, n : f = k.ret /\ n = Put(o, f, New)
    OBVIOUS
  <2>2. f \in Frames /\ f # 0 /\ NewMem(w, o, k, n, f) /\ k \in Machine
    BY <1>2, <2>1, KallocNew
  <2>c. PICK d : d = k.data[pte.pa]
    OBVIOUS
  <2>d. d \in DataType
    BY <2>2, <2>c, MachineFields
  <2>3. PICK y : y = [k EXCEPT !.data[f] = d]
    OBVIOUS
  <2>4. /\ y \in Machine /\ y.free = k.free /\ y.left = k.left /\ y.proc = k.proc
        /\ \A g \in Frames : g # f => y.pt[g] = k.pt[g] /\ y.data[g] = k.data[g]
    <3>1. PICK u : u = [k.data EXCEPT ![f] = d]
      OBVIOUS
    <3>2. u \in [Frames -> DataType] /\ \A g \in Frames : g # f => u[g] = k.data[g]
      BY <2>2, <2>d, <3>1, MachineFields
    <3>3. y = [k EXCEPT !.data = u]
      BY <2>3, <3>1
    <3> QED BY <2>2, <3>2, <3>3 DEF Machine
  <2>5. NewMem(w, o, y, n, f)
    BY <2>2, <2>4, FillNew
  <2>6. PICK e : e = CopyPte(f, pte)
    OBVIOUS
  <2>7. e.pa = f /\ e.perm = pte.perm /\ e \in PteType /\ Mine(e)
    BY <2>2, <2>6 DEF CopyPte, PteType, Mine, Frames, TrampolinePa
  <2>8. x = MapAt(y, r, v, e)
    BY <1>2, <2>1, <2>c, <2>3, <2>7 DEF MapCopy, MapAt
  <2>9. /\ x.ret = 0 => \E p : PageAdded(w, o, x, p, r, v, e)
        /\ x.ret # 0 => PageRefused(w, o, x, f) /\ x.ret = -1
        /\ Spends(w, x, 3) /\ (Ample(w, 3) => x.ret = 0) /\ x \in Machine
    BY <2>5, <2>7, <2>8, MapNewPage
  <2>10. GiveBack(x, f) = Kfree(x, f)
    BY <2>2 DEF GiveBack
  <2>11. Added(w, o, x, r, v, e, f)
    BY <2>2, <2>9, <2>10 DEF Added, PageRefused
  <2> QED BY <2>1, <2>6, <2>11
<1> QED BY <1>1, <1>2

-----------------------------------------------------------------------------
(* uvmunmap(), of pages that are mapped.  User memory is freed, and pages  *)
(* of somebody else are not.                                               *)
Unmapping(w, o, x, p, r, v) ==
  Keep(w, o, x, p) /\ Others(o, w, x, r) /\ Remap(w, x, r, v, NoPte)

CanUnmap(w, r, v, df) == PteAt(w, r, v).pa # 0 /\ (df <=> Mine(PteAt(w, r, v)))

LEMMA UnmapPage ==
  ASSUME NEW w, NEW o, Own(w, o), NEW r, Root_(o, r), NEW v \in VA, NEW df \in BOOLEAN,
         CanUnmap(w, r, v, df), NEW x, x = Unmap(w, r, v, df)
  PROVE  \E p : Unmapping(w, o, x, p, r, v)
<1> USE DEF CanUnmap
<1>1. PICK t, i, e : t = BotOf(w, r, v) /\ i = PX(0, v) /\ e = PteAt(w, r, v)
  OBVIOUS
<1>2. /\ e \in PteType /\ e.pa # 0 /\ e.perm # {} /\ t # 0 /\ e = w.pt[t][i]
      /\ Mine(e) => e.pa \in Frames /\ o[e.pa] = <<"page", t, i>>
  BY <1>1, PteFacts
<1>3. t \in Frames /\ i \in Entries /\ o[t][1] = "bot" /\ t \in Int
  <2>1. t \in Frames /\ o[t][1] = "bot" /\ i \in Entries
    BY <1>1, <1>2, Path, Indices
  <2> QED BY <2>1 DEF Frames
<1>4. PICK y : y = Ret(w, t)
  OBVIOUS
<1>5. Find(w, r, v) = y
  BY <1>1, <1>4, WalkFinds
<1>6. Returned(w, o, y) /\ y.ret = t
  BY <1>3, <1>4, RetStep
<1>7. Own(y, o) /\ y \in Machine /\ y.pt = w.pt /\ y.free = w.free /\ y.data = w.data /\ y.proc = w.proc
  BY <1>6, KeepOwn DEF Returned
<1>8. PICK z : z = IF df THEN Kfree(y, e.pa) ELSE y
  OBVIOUS
<1>9. x = SetEntry(z, t, i, NoPte)
  <2>1. y.pt[y.ret][PX(0, v)] = e
    BY <1>1, <1>2, <1>6, <1>7
  <2>2. x = [(IF df THEN Kfree(y, e.pa) ELSE y) EXCEPT !.pt[t][i] = NoPte]
    BY <1>1, <1>2, <1>5, <1>6, <2>1 DEF Unmap, UnmapIn, Valid
  <2> QED BY <1>8, <2>2 DEF SetEntry
<1>10. NoPte \in PteType /\ NoPte.pa = 0 /\ ~Mine(NoPte)
  BY EmptyTables DEF NoPte, Mine
<1>11. CASE df
  <2>1. PICK f : f = e.pa
    OBVIOUS
  <2>2. f \in Frames /\ o[f] = <<"page", t, i>> /\ o[f][1] = "page" /\ f # t /\ f \notin y.free
    <3>1. f \in Frames /\ o[f] = <<"page", t, i>>
      BY <1>1, <1>2, <1>11, <2>1
    <3>2. o[f][1] = "page"
      BY <3>1
    <3>3. f # t /\ f \notin y.free
      BY <1>3, <1>7, <3>1, <3>2 DEF Own
    <3> QED BY <3>1, <3>2, <3>3
  <2>3. z = Kfree(y, f)
    BY <1>8, <1>11, <2>1
  <2>4. /\ z \in Machine /\ \A g \in Frames : g # f => z.pt[g] = y.pt[g] /\ z.data[g] = y.data[g]
        /\ z.free = y.free \cup {f} /\ z.proc = y.proc
    BY <1>7, <2>2, <2>3, KfreeFields
  <2>5. /\ x \in Machine /\ x.data = z.data /\ x.free = z.free /\ x.proc = z.proc
        /\ \A s \in Frames : s # t => x.pt[s] = z.pt[s]
        /\ \A j \in Entries : x.pt[t][j] = IF j = i THEN NoPte ELSE z.pt[t][j]
    BY <1>3, <1>9, <1>10, <2>4, EntryFields
  <2>6. PICK p : p = Put(o, f, Free)
    OBVIOUS
  <2>7. Own(x, p)
    <3>1. RemoveStep(w, o, x, t, i, f)
      <4>1. \A j \in Entries : x.pt[t][j] = IF j = i THEN NoPte ELSE w.pt[t][j]
        BY <1>3, <1>7, <2>2, <2>4, <2>5
      <4> QED BY <1>7, <2>2, <2>4, <2>5, <4>1 DEF RemoveStep
    <3> QED BY <1>3, <2>2, <2>6, <3>1, OwnRemove
  <2>8. p[f] = Free /\ \A g \in Frames : g # f => p[g] = o[g]
    BY <2>2, <2>6, PutFields DEF Own
  <2>9. Keep(w, o, x, p)
    BY <1>7, <2>2, <2>4, <2>5, <2>7, <2>8 DEF Keep, Free
  <2>10. Others(o, w, x, r) /\ Remap(w, x, r, v, NoPte)
    <3>1. LeafSet(w, o, x, t, i, NoPte)
      <4>1. \A j \in Entries : x.pt[t][j] = IF j = i THEN NoPte ELSE w.pt[t][j]
        BY <1>3, <1>7, <2>2, <2>4, <2>5
      <4>2. ASSUME NEW s \in Frames, s # t, o[s][1] \in {"root", "mid", "bot"}
            PROVE  x.pt[s] = w.pt[s]
        BY <1>7, <2>2, <2>4, <2>5, <4>2
      <4> QED BY <4>1, <4>2 DEF LeafSet
    <3>2. \A s : Root_(o, s) => Root_(p, s)
      BY <2>2, <2>8 DEF Root_
    <3> QED BY <1>1, <1>2, <2>7, <3>1, <3>2, SetPtes
  <2> QED BY <2>9, <2>10 DEF Unmapping
<1>12. CASE ~df
  <2>1. z = y /\ ~Mine(e)
    BY <1>1, <1>8, <1>12
  <2>2. /\ x \in Machine /\ x.data = y.data /\ x.free = y.free /\ x.proc = y.proc
        /\ \A s \in Frames : s # t => x.pt[s] = y.pt[s]
        /\ \A j \in Entries : x.pt[t][j] = IF j = i THEN NoPte ELSE y.pt[t][j]
    BY <1>3, <1>7, <1>9, <1>10, <2>1, EntryFields
  <2>3. Own(x, o)
    <3>1. EntryStep(w, o, x, t, i, NoPte)
      BY <1>2, <1>3, <1>7, <1>10, <2>1, <2>2 DEF EntryStep, EntrySet
    <3> QED BY <1>3, <1>10, <3>1, OwnEntry
  <2>4. Keep(w, o, x, o)
    BY <1>7, <2>2, <2>3 DEF Keep
  <2>5. Others(o, w, x, r) /\ Remap(w, x, r, v, NoPte)
    <3>1. LeafSet(w, o, x, t, i, NoPte)
      BY <1>7, <2>2 DEF LeafSet
    <3> QED BY <1>1, <1>2, <2>3, <3>1, SetPtes
  <2> QED BY <2>4, <2>5 DEF Unmapping
<1> QED BY <1>11, <1>12

(* No page of r from va on is mapped any more, n of them.                  *)
Cleared(w, x, r, va, n) ==
  \A u \in VA : PteAt(x, r, u) = IF u \in va..(va + n - 1) THEN NoPte ELSE PteAt(w, r, u)

Unmapped_(w, o, x, p, r, va, n) ==
  Keep(w, o, x, p) /\ Others(o, w, x, r) /\ Cleared(w, x, r, va, n)

CanUnmapAll(w, r, va, n, df) ==
  \A u \in va..(va + n - 1) : CanUnmap(w, r, u, df)

LEMMA UnmapPages ==
  ASSUME NEW w, NEW o, Own(w, o), NEW r, Root_(o, r), NEW va \in Nat, NEW n \in Nat,
         va + n <= MAXVA, NEW df \in BOOLEAN, CanUnmapAll(w, r, va, n, df),
         NEW x, x = Uvmunmap(w, r, va, n, df)
  PROVE  \E p : Unmapped_(w, o, x, p, r, va, n)
<1>0. PICK f : UnmapTurns(f, w, r, va, n, df) /\ Uvmunmap(w, r, va, n, df) = f[n]
  BY UvmunmapRun
<1>1. /\ f[0] = w
      /\ \A k \in 0..(n - 1) : f[k + 1] = Unmap(f[k], r, va + k, df)
      /\ x = f[n]
  BY <1>0 DEF UnmapTurns
<1> DEFINE S == {k \in Nat : k <= n => \E p : Unmapped_(w, o, f[k], p, r, va, k)}
<1>2. 0 \in S
  <2>1. Keep(w, o, f[0], o) /\ Others(o, w, f[0], r)
    BY <1>1, KeepRefl DEF Others
  <2>2. Cleared(w, f[0], r, va, 0)
    <3>1. \A u \in VA : u \notin va..(va + 0 - 1)
      BY Layout
    <3> QED BY <1>1, <3>1 DEF Cleared
  <2>3. Unmapped_(w, o, f[0], o, r, va, 0)
    BY <2>1, <2>2 DEF Unmapped_
  <2> QED BY <2>3
<1>3. ASSUME NEW k \in Nat, k \in S PROVE k + 1 \in S
  <2> SUFFICES ASSUME k + 1 <= n PROVE \E p : Unmapped_(w, o, f[k + 1], p, r, va, k + 1)
    OBVIOUS
  <2>1. PICK p : Unmapped_(w, o, f[k], p, r, va, k)
    BY <1>3
  <2>2. PICK y, z, v : y = f[k] /\ z = f[k + 1] /\ v = va + k
    OBVIOUS
  <2>3. z = Unmap(y, r, v, df)
    <3>1. k \in 0..(n - 1)
      OBVIOUS
    <3> QED BY <1>1, <2>2, <3>1
  <2>4. Keep(w, o, y, p) /\ Others(o, w, y, r) /\ Cleared(w, y, r, va, k)
    BY <2>1, <2>2 DEF Unmapped_
  <2> HIDE DEF S
  <2>5. v \in VA /\ v \in va..(va + n - 1) /\ v \notin va..(va + k - 1) /\ v \in Nat
    BY <2>2, Layout DEF VA
  <2>6. CanUnmap(y, r, v, df)
    <3>1. PteAt(y, r, v) = PteAt(w, r, v)
      BY <2>4, <2>5 DEF Cleared
    <3>2. CanUnmap(w, r, v, df)
      BY <2>5 DEF CanUnmapAll
    <3> QED BY <3>1, <3>2 DEF CanUnmap
  <2>7. Own(y, p) /\ Root_(p, r)
    BY <2>4, KeepOwn, KeepRoots
  <2>8. PICK q : Unmapping(y, p, z, q, r, v)
    BY <2>3, <2>5, <2>6, <2>7, UnmapPage
  <2>9. Keep(y, p, z, q) /\ Others(p, y, z, r) /\ Remap(y, z, r, v, NoPte)
    BY <2>8 DEF Unmapping
  <2>10. Keep(w, o, z, q)
    BY <2>4, <2>9, KeepTrans
  <2>11. Others(o, w, z, r)
    BY <2>4, <2>9, OthersTrans
  <2>12. Cleared(w, z, r, va, k + 1)
    <3>1. ASSUME NEW u \in VA
          PROVE  PteAt(z, r, u) = IF u \in va..(va + (k + 1) - 1) THEN NoPte ELSE PteAt(w, r, u)
      <4>1. PteAt(z, r, u) = IF u = v THEN NoPte ELSE PteAt(y, r, u)
        BY <2>9 DEF Remap
      <4>2. PteAt(y, r, u) = IF u \in va..(va + k - 1) THEN NoPte ELSE PteAt(w, r, u)
        BY <2>4 DEF Cleared
      <4>3. u \in va..(va + (k + 1) - 1) <=> (u \in va..(va + k - 1) \/ u = v)
        BY <2>2, Layout
      <4> QED BY <4>1, <4>2, <4>3
    <3> QED BY <3>1 DEF Cleared
  <2>13. Unmapped_(w, o, z, q, r, va, k + 1)
    BY <2>10, <2>11, <2>12 DEF Unmapped_
  <2> QED BY <2>2, <2>13
<1> HIDE DEF S
<1>4. n \in S
  BY <1>2, <1>3, SetInduction
<1> QED BY <1>1, <1>4 DEF S

-----------------------------------------------------------------------------
(* freewalk(), of a page table that maps nothing.                          *)
Vacant(w, r) == \A v \in VA : PteAt(w, r, v).pa = 0

(* An empty table, and the entry that refers to it.                        *)
DropTable(w, t, i, f) == SetEntry(Kfree(w, f), t, i, NoPte)

Droppable(w, o, t, i, f) ==
  /\ Own(w, o) /\ t \in Frames /\ i \in Entries /\ o[t][1] \in {"root", "mid"}
  /\ f = w.pt[t][i].pa /\ f # 0 /\ \A j \in Entries : w.pt[f][j].pa = 0

Dropped(w, o, x, p, t, i, f) ==
  /\ Keep(w, o, x, p) /\ SamePtes(o, w, x) /\ f \in Frames /\ p = Put(o, f, Free)
  /\ o[f][1] \in {"mid", "bot"} /\ f # t
  /\ \A j \in Entries : x.pt[t][j] = IF j = i THEN NoPte ELSE w.pt[t][j]
  /\ \A g \in Frames : g # t /\ g # f => x.pt[g] = w.pt[g]

LEMMA TableDropped ==
  ASSUME NEW w, NEW o, NEW t, NEW i, NEW f, Droppable(w, o, t, i, f),
         NEW x, x = DropTable(w, t, i, f)
  PROVE  \E p : Dropped(w, o, x, p, t, i, f)
<1> USE DEF Droppable
<1>1. EntryOK(w.pt[t][i], o, t, i)
  BY Entry
<1>2. PICK k : k \in {"mid", "bot"} /\ o[f] = <<k, t, i>> /\ f \in Frames /\ (o[t][1] = "mid" => k = "bot")
  <2>1. CASE o[t][1] = "root"
    BY <1>1, <2>1 DEF EntryOK
  <2>2. CASE o[t][1] = "mid"
    BY <1>1, <2>2 DEF EntryOK
  <2> QED BY <2>1, <2>2
<1>3. o[f][1] = k /\ f \notin w.free /\ w \in Machine /\ f # t
  <2>1. o[f][1] = k
    BY <1>2
  <2>2. f # t
    BY <1>2, <2>1
  <2>3. f \notin w.free
    BY <1>2, <2>1 DEF Own
  <2> QED BY <2>1, <2>2, <2>3, Left
<1>4. PICK y : y = Kfree(w, f)
  OBVIOUS
<1>5. /\ y \in Machine /\ \A g \in Frames : g # f => y.pt[g] = w.pt[g] /\ y.data[g] = w.data[g]
      /\ y.free = w.free \cup {f} /\ y.proc = w.proc
  <2>1. f \in Frames \ w.free /\ w \in Machine
    BY <1>2, <1>3
  <2> HIDE DEF Droppable
  <2> QED BY <1>4, <2>1, KfreeFields
<1>6. x = SetEntry(y, t, i, NoPte)
  BY <1>4 DEF DropTable
<1>7. /\ x \in Machine /\ x.data = y.data /\ x.free = y.free /\ x.proc = y.proc
      /\ \A s \in Frames : s # t => x.pt[s] = y.pt[s]
      /\ \A j \in Entries : x.pt[t][j] = IF j = i THEN NoPte ELSE y.pt[t][j]
  <2>1. NoPte \in PteType /\ y \in Machine /\ t \in Frames /\ i \in Entries
    BY <1>5, EmptyTables
  <2> HIDE DEF Droppable
  <2> QED BY <1>6, <2>1, EntryFields
<1>8. PICK p : p = Put(o, f, Free)
  OBVIOUS
<1>9. \A j \in Entries : x.pt[t][j] = IF j = i THEN NoPte ELSE w.pt[t][j]
  BY <1>3, <1>5, <1>7
<1>10. \A g \in Frames : g # t /\ g # f => x.pt[g] = w.pt[g]
  BY <1>5, <1>7
<1>11. Own(x, p)
  <2>1. o[f] \in {<<"mid", t, i>>, <<"bot", t, i>>, <<"page", t, i>>}
    BY <1>2
  <2>2. RemoveStep(w, o, x, t, i, f)
    BY <1>5, <1>7, <1>9, <1>10, <2>1 DEF RemoveStep
  <2> QED BY <1>2, <1>8, <2>2, OwnRemove
<1>12. p[f] = Free /\ \A g \in Frames : g # f => p[g] = o[g]
  BY <1>2, <1>8, PutFields DEF Own
<1>13. Keep(w, o, x, p)
  <2>1. \A g \in Frames : o[g][1] = "loose" => x.data[g] = w.data[g]
    <3>1. ASSUME NEW g \in Frames, o[g][1] = "loose" PROVE x.data[g] = w.data[g]
      <4>1. g # f
        BY <1>2, <1>3, <3>1
      <4>2. y.data[g] = w.data[g]
        BY <1>5, <4>1
      <4> QED BY <1>7, <4>2
    <3> QED BY <3>1
  <2>2. Free[1] = "free"
    BY DEF Free
  <2> QED BY <1>2, <1>3, <1>5, <1>7, <1>11, <1>12, <2>1, <2>2 DEF Keep
<1>14. SamePtes(o, w, x)
  <2>1. ASSUME NEW s, Root_(o, s), NEW v \in VA PROVE PteAt(x, s, v) = PteAt(w, s, v)
    <3>1. Root_(p, s)
      BY <1>2, <1>3, <1>12, <2>1 DEF Root_
    <3>2. TableLinked(x, p, w, t, i, f)
      <4>1. p[t][1] \in {"root", "mid"} /\ x.pt[t][i].pa = 0
        BY <1>3, <1>9, <1>12 DEF NoPte
      <4>2. p[f][1] \notin {"root", "mid", "bot"}
        BY <1>12 DEF Free
      <4> QED BY <1>9, <1>10, <4>1, <4>2 DEF TableLinked
    <3>3. o[f][1] \in {"mid", "bot"}
      BY <1>2, <1>3
    <3> QED BY <1>2, <1>11, <2>1, <3>1, <3>2, <3>3, LinkPte
  <2> QED BY <2>1 DEF SamePtes
<1>15. o[f][1] \in {"mid", "bot"} /\ f # t
  BY <1>2, <1>3
<1> QED BY <1>2, <1>8, <1>9, <1>10, <1>13, <1>14, <1>15 DEF Dropped

(* The tables of level 0 are empty.                                        *)
VacantMid(w, o, r, i, t) ==
  /\ Own(w, o) /\ Root_(o, r) /\ Vacant(w, r) /\ i \in Entries /\ t = w.pt[r][i].pa /\ t # 0

LEMMA VacantTable ==
  ASSUME NEW w, NEW o, NEW r, NEW i, NEW t, VacantMid(w, o, r, i, t), NEW j \in Entries,
         NEW b, b = w.pt[t][j].pa, b # 0
  PROVE  \A k \in Entries : w.pt[b][k].pa = 0
<1> USE DEF VacantMid
<1> SUFFICES ASSUME NEW k \in Entries PROVE w.pt[b][k].pa = 0
  OBVIOUS
<1>1. i < Half
  <2>1. EntryOK(w.pt[r][i], o, r, i)
    BY Entry DEF Root_
  <2> QED BY <2>1 DEF EntryOK, Root_
<1>2. PICK v \in VA : PX(2, v) = i /\ PX(1, v) = j /\ PX(0, v) = k
  <2>1. i \in 0..(Half - 1)
    BY <1>1, Layout DEF Entries
  <2> QED BY <2>1, PageOf
<1>3. MidOf(w, r, v) = t /\ BotOf(w, r, v) = b
  BY <1>2 DEF MidOf, BotOf
<1>4. LeafOf(w, r, v) = w.pt[b][k]
  BY <1>2, <1>3 DEF LeafOf
<1>5. PteAt(w, r, v) = LeafOf(w, r, v) /\ PteAt(w, r, v).pa = 0
  BY PteLeaf DEF Vacant
<1> QED BY <1>4, <1>5

LEMMA FreeLevel0Is ==
  ASSUME NEW w, NEW t, \A i \in Entries : w.pt[t][i].pa = 0
  PROVE  FreeLevel0(w, t) = Kfree(w, t)
<1>1. PICK n \in Nat : n = Fan
  OBVIOUS
<1>2. PICK f : /\ f[0] = w
               /\ \A k \in 0..(n - 1) : f[k + 1] = FreeEntry(f[k], t, k, NoFourthLevel(f[k], f[k].pt[t][k].pa))
               /\ FreeLevel0(w, t) = Kfree(f[n], t)
  BY <1>1, FreeLevel0Run
<1> DEFINE S == {k \in Nat : k <= n => f[k] = w}
<1>3. 0 \in S
  BY <1>2
<1>4. ASSUME NEW k \in Nat, k \in S PROVE k + 1 \in S
  <2> SUFFICES ASSUME k + 1 <= n PROVE f[k + 1] = w
    OBVIOUS
  <2>1. f[k] = w /\ k \in 0..(n - 1) /\ k \in Entries
    BY <1>1, <1>4 DEF Entries
  <2>2. f[k + 1] = FreeEntry(f[k], t, k, NoFourthLevel(f[k], f[k].pt[t][k].pa))
    BY <1>2, <2>1
  <2>3. w.pt[t][k].pa = 0
    BY <2>1
  <2> QED BY <2>1, <2>2, <2>3 DEF FreeEntry, Valid
<1> HIDE DEF S
<1>5. n \in S
  BY <1>3, <1>4, SetInduction
<1>6. f[n] = w
  BY <1>5 DEF S
<1> QED BY <1>2, <1>6

(* The loops of freewalk() over a table of level 1, and over the page table*)
(* itself, up to the point where the table is freed.                       *)
Emptied(w, o, x, p, t, n) ==
  /\ Keep(w, o, x, p) /\ SamePtes(o, w, x) /\ p[t] = o[t]
  /\ \A j \in 0..(n - 1) : x.pt[t][j].pa = 0
  /\ \A g \in Frames : g # t /\ o[g][1] = "root" => x.pt[g] = w.pt[g]

LEMMA EmptiedTable ==
  ASSUME NEW w, NEW o, NEW x, NEW p, NEW t, NEW n, n = Fan, Emptied(w, o, x, p, t, n)
  PROVE  \A j \in Entries : x.pt[t][j].pa = 0
BY DEF Emptied, Entries

LEMMA EmptiedNone ==
  ASSUME NEW w, NEW o, Own(w, o), NEW t
  PROVE  Emptied(w, o, w, o, t, 0)
<1>1. \A j \in 0..(0 - 1) : w.pt[t][j].pa = 0
  OBVIOUS
<1> QED BY <1>1, KeepRefl DEF Emptied, SamePtes

LEMMA EmptiedSkip ==
  ASSUME NEW w, NEW o, NEW x, NEW p, NEW t, NEW n \in Nat, Emptied(w, o, x, p, t, n), x.pt[t][n].pa = 0
  PROVE  Emptied(w, o, x, p, t, n + 1)
BY DEF Emptied

LEMMA EmptiedNext ==
  ASSUME NEW w, NEW o, NEW x, NEW p, NEW t, NEW n \in Nat, Emptied(w, o, x, p, t, n), n \in Entries,
         Own(w, o), NEW a, NEW q, Keep(x, p, a, q), SamePtes(p, x, a), q[t] = p[t], a.pt[t] = x.pt[t],
         \A g \in Frames : o[g][1] = "root" => a.pt[g] = x.pt[g],
         t \in Frames, NEW f, NEW y, NEW s, Dropped(a, q, y, s, t, n, f)
  PROVE  Emptied(w, o, y, s, t, n + 1)
<1> USE DEF Emptied, Dropped
<1>1. Keep(w, o, a, q)
  BY KeepTrans
<1>2. SamePtes(o, w, a)
  BY SameTrans
<1>3. Keep(w, o, y, s)
  BY <1>1, KeepTrans
<1>4. SamePtes(o, w, y)
  BY <1>1, <1>2, SameTrans
<1>5. s[t] = o[t]
  <2>1. q[t] = o[t]
    OBVIOUS
  <2>2. s[t] = q[t]
    <3>1. q \in [Frames -> Places]
      BY KeepOwn DEF Own
    <3> QED BY <3>1, PutFields
  <2> QED BY <2>1, <2>2
<1>6. ASSUME NEW j \in 0..(n + 1 - 1) PROVE y.pt[t][j].pa = 0
  <2>1. j \in Entries
    BY DEF Entries
  <2>2. CASE j = n
    BY <2>1, <2>2 DEF NoPte
  <2>3. CASE j # n
    <3>1. j \in 0..(n - 1)
      BY <2>3
    <3>2. x.pt[t][j].pa = 0
      BY <3>1
    <3>3. y.pt[t][j] = a.pt[t][j]
      BY <2>1, <2>3
    <3> QED BY <3>2, <3>3
  <2> QED BY <2>2, <2>3
<1>7. ASSUME NEW g \in Frames, g # t, o[g][1] = "root" PROVE y.pt[g] = w.pt[g]
  <2>1. a.pt[g] = w.pt[g]
    BY <1>7
  <2>2. q[g] = o[g]
    BY <1>1, <1>7 DEF Keep
  <2>3. g # f
    BY <1>7, <2>2
  <2>4. y.pt[g] = a.pt[g]
    BY <1>7, <2>3
  <2> QED BY <2>1, <2>4
<1> QED BY <1>3, <1>4, <1>5, <1>6, <1>7

(* A table of level 1 is freed, all but itself.                            *)
LEMMA FreeLevel1Is ==
  ASSUME NEW w, NEW o, NEW r, NEW i, NEW t, VacantMid(w, o, r, i, t)
  PROVE  \E x, p : FreeLevel1(w, t) = Kfree(x, t) /\ Emptied(w, o, x, p, t, Fan)
<1> USE DEF VacantMid
<1>1. PICK n \in Nat : n = Fan
  OBVIOUS
<1>2. PICK f : /\ f[0] = w
               /\ \A k \in 0..(n - 1) : f[k + 1] = FreeEntry(f[k], t, k, FreeLevel0(f[k], f[k].pt[t][k].pa))
               /\ FreeLevel1(w, t) = Kfree(f[n], t)
  BY Z3T(30), <1>1, FreeLevel1Run
<1>3. t \in Frames /\ o[t] = <<"mid", r, i>> /\ o[t][1] = "mid" /\ r \in Frames /\ o[r][1] = "root"
  <2>1. EntryOK(w.pt[r][i], o, r, i) /\ r \in Frames /\ o[r][1] = "root"
    BY Entry DEF Root_
  <2>2. t \in Frames /\ o[t] = <<"mid", r, i>>
    BY <2>1 DEF EntryOK
  <2> QED BY <2>1, <2>2
<1> DEFINE S == {k \in Nat : k <= n => \E p : Emptied(w, o, f[k], p, t, k)}
<1>4. 0 \in S
  BY <1>2, EmptiedNone
<1>5. ASSUME NEW k \in Nat, k \in S PROVE k + 1 \in S
  <2> SUFFICES ASSUME k + 1 <= n PROVE \E p : Emptied(w, o, f[k + 1], p, t, k + 1)
    OBVIOUS
  <2>1. k \in 0..(n - 1) /\ k \in Entries
    BY <1>1 DEF Entries
  <2>2. PICK p : Emptied(w, o, f[k], p, t, k)
    BY <1>5
  <2>3. PICK x, b : x = f[k] /\ b = x.pt[t][k].pa
    OBVIOUS
  <2>4. f[k + 1] = FreeEntry(x, t, k, FreeLevel0(x, b))
    BY <1>2, <2>1, <2>3
  <2>5. Emptied(w, o, x, p, t, k) /\ Own(x, p)
    <3>1. Emptied(w, o, x, p, t, k)
      BY <2>2, <2>3
    <3> QED BY <3>1, KeepOwn DEF Emptied
  <2> HIDE DEF S
  <2>6. CASE b = 0
    <3>1. f[k + 1] = x
      BY <2>3, <2>4, <2>6 DEF FreeEntry, Valid
    <3>2. Emptied(w, o, x, p, t, k + 1)
      BY <2>3, <2>5, <2>6, EmptiedSkip
    <3> QED BY <3>1, <3>2
  <2>7. CASE b # 0
    <3>1. Root_(p, r) /\ Vacant(x, r) /\ t = x.pt[r][i].pa
      <4>1. Keep(w, o, x, p) /\ SamePtes(o, w, x) /\ x.pt[r] = w.pt[r]
        BY <1>3, <2>5 DEF Emptied
      <4>2. Root_(p, r)
        BY <4>1, KeepRoots
      <4>3. Vacant(x, r)
        BY <4>1 DEF Vacant, SamePtes
      <4> QED BY <4>1, <4>2, <4>3
    <3>2. \A j \in Entries : x.pt[b][j].pa = 0
      <4>1. VacantMid(x, p, r, i, t)
        BY <2>5, <3>1
      <4> HIDE DEF VacantMid
      <4> QED BY <2>1, <2>3, <2>7, <4>1, VacantTable
    <3>3. PICK y : y = DropTable(x, t, k, b)
      OBVIOUS
    <3>4. p[t] = o[t]
      BY <2>5 DEF Emptied
    <3>5. f[k + 1] = y
      <4>1. FreeLevel0(x, b) = Kfree(x, b)
        BY <3>2, FreeLevel0Is
      <4>2. x.pt[t][k].perm = {}
        <5>1. EntryOK(x.pt[t][k], p, t, k)
          BY <1>3, <2>1, <2>5, Entry
        <5> QED BY <1>3, <3>4, <5>1 DEF EntryOK
      <4> QED BY <2>3, <2>4, <2>7, <3>3, <4>1, <4>2 DEF FreeEntry, Valid, IsLeaf, DropTable, SetEntry
    <3>6. Droppable(x, p, t, k, b)
      BY <1>3, <2>1, <2>3, <2>5, <2>7, <3>2, <3>4 DEF Droppable
    <3>7. PICK s : Dropped(x, p, y, s, t, k, b)
      BY <3>3, <3>6, TableDropped
    <3>8. Keep(x, p, x, p) /\ SamePtes(p, x, x)
      BY <2>5, KeepRefl DEF SamePtes
    <3>9. Emptied(w, o, y, s, t, k + 1)
      BY <1>3, <2>1, <2>5, <3>7, <3>8, EmptiedNext
    <3> QED BY <3>5, <3>9
  <2> QED BY <2>6, <2>7
<1> HIDE DEF S
<1>6. n \in S
  BY <1>4, <1>5, SetInduction
<1>7. PICK p : Emptied(w, o, f[n], p, t, n)
  BY <1>6 DEF S
<1> QED BY <1>1, <1>2, <1>7

(* freewalk() of the page table: nothing is left of it.                    *)
Gone(w, o, x, p, r) ==
  /\ Own(x, p) /\ x.proc = w.proc /\ p[r] = Free /\ Others(o, w, x, r)
  /\ \A f \in Frames :
       f # r => p[f] = o[f] \/ (o[f][1] \notin {"root", "loose"} /\ p[f][1] \notin {"root", "loose"})
  /\ \A f \in Frames : o[f][1] = "loose" => x.data[f] = w.data[f]

LEMMA FreewalkEmpties ==
  ASSUME NEW w, NEW o, NEW r, Own(w, o), Root_(o, r), Vacant(w, r)
  PROVE  \E x, p : Freewalk(w, r) = Kfree(x, r) /\ Emptied(w, o, x, p, r, Fan)
<1>1. PICK n \in Nat : n = Fan
  OBVIOUS
<1>2. PICK f : /\ f[0] = w
               /\ \A k \in 0..(n - 1) : f[k + 1] = FreeEntry(f[k], r, k, FreeLevel1(f[k], f[k].pt[r][k].pa))
               /\ Freewalk(w, r) = Kfree(f[n], r)
  BY <1>1, FreewalkRun
<1>3. r \in Frames /\ o[r][1] = "root"
  BY DEF Root_
<1> DEFINE S == {k \in Nat : k <= n => \E p : Emptied(w, o, f[k], p, r, k)}
<1>4. 0 \in S
  BY <1>2, EmptiedNone
<1>5. ASSUME NEW k \in Nat, k \in S PROVE k + 1 \in S
  <2> SUFFICES ASSUME k + 1 <= n PROVE \E p : Emptied(w, o, f[k + 1], p, r, k + 1)
    OBVIOUS
  <2>1. k \in 0..(n - 1) /\ k \in Entries
    BY <1>1 DEF Entries
  <2>2. PICK p : Emptied(w, o, f[k], p, r, k)
    BY <1>5
  <2>3. PICK x, b : x = f[k] /\ b = x.pt[r][k].pa
    OBVIOUS
  <2>4. f[k + 1] = FreeEntry(x, r, k, FreeLevel1(x, b))
    BY <1>2, <2>1, <2>3
  <2>5. Emptied(w, o, x, p, r, k) /\ Own(x, p)
    <3>1. Emptied(w, o, x, p, r, k)
      BY <2>2, <2>3
    <3> QED BY <3>1, KeepOwn DEF Emptied
  <2> HIDE DEF S
  <2>6. CASE b = 0
    <3>1. f[k + 1] = x
      BY <2>3, <2>4, <2>6 DEF FreeEntry, Valid
    <3>2. Emptied(w, o, x, p, r, k + 1)
      BY <2>3, <2>5, <2>6, EmptiedSkip
    <3> QED BY <3>1, <3>2
  <2>7. CASE b # 0
    <3>1. Root_(p, r) /\ Vacant(x, r) /\ p[r] = o[r]
      <4>1. Keep(w, o, x, p) /\ SamePtes(o, w, x) /\ p[r] = o[r]
        BY <2>5 DEF Emptied
      <4>2. Root_(p, r)
        BY <4>1, KeepRoots
      <4>3. Vacant(x, r)
        BY <4>1 DEF Vacant, SamePtes
      <4> QED BY <4>1, <4>2, <4>3
    <3>2. VacantMid(x, p, r, k, b)
      BY <2>1, <2>3, <2>5, <2>7, <3>1 DEF VacantMid
    <3>3. PICK a, q : FreeLevel1(x, b) = Kfree(a, b) /\ Emptied(x, p, a, q, b, Fan)
      BY <3>2, FreeLevel1Is
    <3>4. x.pt[r][k].perm = {} /\ b \in Frames /\ p[b] = <<"mid", r, k>>
      <4>1. EntryOK(x.pt[r][k], p, r, k)
        BY <1>3, <2>1, <2>5, Entry
      <4> QED BY <1>3, <2>3, <2>7, <3>1, <4>1 DEF EntryOK
    <3>5. b # r /\ p[r][1] = "root"
      BY <1>3, <3>1, <3>4
    <3>6. /\ Keep(x, p, a, q) /\ SamePtes(p, x, a) /\ q[r] = p[r] /\ a.pt[r] = x.pt[r]
          /\ \A g \in Frames : o[g][1] = "root" => a.pt[g] = x.pt[g]
      <4>1. Keep(x, p, a, q) /\ SamePtes(p, x, a)
        BY <3>3 DEF Emptied
      <4>2. q[r] = p[r]
        BY <1>3, <3>5, <4>1 DEF Keep
      <4>3. ASSUME NEW g \in Frames, o[g][1] = "root" PROVE a.pt[g] = x.pt[g]
        <5>1. p[g] = o[g]
          BY <2>5, <4>3 DEF Emptied, Keep
        <5>2. g # b
          BY <3>4, <4>3, <5>1
        <5> QED BY <3>3, <4>3, <5>1, <5>2 DEF Emptied
      <4> QED BY <1>3, <4>1, <4>2, <4>3
    <3>7. \A j \in Entries : a.pt[b][j].pa = 0
      BY <3>3, EmptiedTable
    <3>8. PICK y : y = DropTable(a, r, k, b)
      OBVIOUS
    <3>9. f[k + 1] = y
      BY <2>3, <2>4, <2>7, <3>3, <3>4, <3>8 DEF FreeEntry, Valid, IsLeaf, DropTable, SetEntry
    <3>10. Droppable(a, q, r, k, b)
      <4>1. Own(a, q)
        BY <3>6, KeepOwn
      <4> QED BY <1>3, <2>1, <2>3, <2>7, <3>5, <3>6, <3>7, <4>1 DEF Droppable
    <3>11. PICK s : Dropped(a, q, y, s, r, k, b)
      BY <3>8, <3>10, TableDropped
    <3>12. Emptied(w, o, y, s, r, k + 1)
      BY <1>3, <2>1, <2>5, <3>6, <3>11, EmptiedNext
    <3> QED BY <3>9, <3>12
  <2> QED BY <2>6, <2>7
<1> HIDE DEF S
<1>6. n \in S
  BY <1>4, <1>5, SetInduction
<1>7. PICK p : Emptied(w, o, f[n], p, r, n)
  BY <1>6 DEF S
<1> QED BY <1>1, <1>2, <1>7

LEMMA FreewalkFrees ==
  ASSUME NEW w, NEW o, NEW r, Own(w, o), Root_(o, r), Vacant(w, r), NEW x, x = Freewalk(w, r)
  PROVE  \E p : Gone(w, o, x, p, r)
<1>1. PICK y, q : x = Kfree(y, r) /\ Emptied(w, o, y, q, r, Fan)
  BY FreewalkEmpties
<1>2. r \in Frames /\ o[r][1] = "root"
  BY DEF Root_
<1>3. /\ Keep(w, o, y, q) /\ SamePtes(o, w, y) /\ q[r] = o[r] /\ Own(y, q) /\ y \in Machine
      /\ \A j \in Entries : y.pt[r][j].pa = 0
  <2>1. Keep(w, o, y, q) /\ SamePtes(o, w, y) /\ q[r] = o[r]
    BY <1>1 DEF Emptied
  <2>2. \A j \in Entries : y.pt[r][j].pa = 0
    BY <1>1, EmptiedTable
  <2> QED BY <2>1, <2>2, KeepOwn
<1>4. r \in Frames \ y.free
  BY <1>2, <1>3 DEF Own
<1>5. /\ x \in Machine /\ \A g \in Frames : g # r => x.pt[g] = y.pt[g] /\ x.data[g] = y.data[g]
      /\ x.free = y.free \cup {r} /\ x.proc = y.proc
  BY <1>1, <1>3, <1>4, KfreeFields
<1>6. PICK p : p = Put(q, r, Free)
  OBVIOUS
<1>7. Own(x, p)
  BY <1>2, <1>3, <1>5, <1>6, OwnDrop
<1>8. p[r] = Free /\ \A g \in Frames : g # r => p[g] = q[g]
  BY <1>2, <1>3, <1>6, PutFields DEF Own
<1>9. Others(o, w, x, r)
  <2>1. ASSUME NEW s, Root_(o, s), s # r, NEW v \in VA PROVE PteAt(x, s, v) = PteAt(w, s, v)
    <3>1. Root_(q, s)
      BY <1>3, <2>1, KeepRoots
    <3>2. Root_(p, s)
      BY <1>8, <2>1, <3>1 DEF Root_
    <3>3. \A g \in Frames : g = s \/ q[g][1] \in {"mid", "bot"} => x.pt[g] = y.pt[g]
      BY <1>2, <1>3, <1>5, <2>1
    <3>4. PteAt(x, s, v) = PteAt(y, s, v)
      BY <1>3, <1>7, <3>1, <3>2, <3>3, SamePte
    <3>5. PteAt(y, s, v) = PteAt(w, s, v)
      BY <1>3, <2>1 DEF SamePtes
    <3> QED BY <3>4, <3>5
  <2> QED BY <2>1 DEF Others
<1>10. ASSUME NEW g \in Frames, o[g][1] = "loose" PROVE x.data[g] = w.data[g]
  <2>1. g # r /\ y.data[g] = w.data[g]
    BY <1>2, <1>3, <1>10 DEF Keep
  <2> QED BY <1>5, <2>1
<1>11. ASSUME NEW g \in Frames, g # r
       PROVE  p[g] = o[g] \/ (o[g][1] \notin {"root", "loose"} /\ p[g][1] \notin {"root", "loose"})
  <2>1. p[g] = q[g]
    BY <1>8, <1>11
  <2> QED BY <1>3, <2>1 DEF Keep
<1>12. x.proc = w.proc
  BY <1>3, <1>5 DEF Keep
<1> QED BY <1>7, <1>8, <1>9, <1>10, <1>11, <1>12 DEF Gone

-----------------------------------------------------------------------------
(* uvmfree(), of an address space with n pages of user memory, after the   *)
(* last k pages, which are somebody else's, have been unmapped.            *)
UnmapOnly(w, r, va, n) == Uvmunmap(w, r, va, n, FALSE)
UnmapFree(w, r, va, n) == Uvmunmap(w, r, va, n, TRUE)

Theirs(w, r, va, n) == \A u \in va..(va + n - 1) : PteAt(w, r, u).pa # 0 /\ ~Mine(PteAt(w, r, u))
Ours(w, r, va, n) == \A u \in va..(va + n - 1) : PteAt(w, r, u).pa # 0 /\ Mine(PteAt(w, r, u))

LEMMA UnmapTheirs ==
  ASSUME NEW w, NEW o, Own(w, o), NEW r, Root_(o, r), NEW va \in Nat, NEW n \in Nat,
         va + n <= MAXVA, Theirs(w, r, va, n), NEW x, x = UnmapOnly(w, r, va, n)
  PROVE  \E p : Unmapped_(w, o, x, p, r, va, n)
<1>1. PICK df \in BOOLEAN : df = FALSE
  OBVIOUS
<1>2. x = Uvmunmap(w, r, va, n, df)
  BY <1>1 DEF UnmapOnly
<1>3. CanUnmapAll(w, r, va, n, df)
  BY <1>1 DEF CanUnmapAll, CanUnmap, Theirs
<1> QED BY <1>2, <1>3, UnmapPages

LEMMA UnmapOurs ==
  ASSUME NEW w, NEW o, Own(w, o), NEW r, Root_(o, r), NEW va \in Nat, NEW n \in Nat,
         va + n <= MAXVA, Ours(w, r, va, n), NEW x, x = UnmapFree(w, r, va, n)
  PROVE  \E p : Unmapped_(w, o, x, p, r, va, n)
<1>1. PICK df \in BOOLEAN : df = TRUE
  OBVIOUS
<1>2. x = Uvmunmap(w, r, va, n, df)
  BY <1>1 DEF UnmapFree
<1>3. CanUnmapAll(w, r, va, n, df)
  BY <1>1 DEF CanUnmapAll, CanUnmap, Ours
<1> QED BY <1>2, <1>3, UnmapPages

SpaceIs(w, r, n, k) ==
  \A v \in VA : LET e == PteAt(w, r, v)
                IN IF v >= MAXVA - k THEN e.pa # 0 /\ ~Mine(e)
                   ELSE IF v < n THEN e.pa # 0 /\ Mine(e)
                   ELSE e.pa = 0

FreeSpace(w, r, n, k) ==
  Freewalk(UnmapFree(UnmapOnly(w, r, MAXVA - k, k), r, 0, n), r)

Space(w, o, r, n, k) ==
  /\ Own(w, o) /\ Root_(o, r) /\ n \in Nat /\ k \in Nat /\ n + k <= MAXVA
  /\ SpaceIs(w, r, n, k)

LEMMA KeepGone ==
  ASSUME NEW w, NEW o, NEW x, NEW p, NEW y, NEW q, NEW r, Root_(o, r), Keep(w, o, x, p),
         Others(o, w, x, r), Gone(x, p, y, q, r)
  PROVE  Gone(w, o, y, q, r)
<1>1. Own(y, q) /\ y.proc = w.proc /\ q[r] = Free
  BY DEF Gone, Keep
<1>2. \A s : Root_(p, s) <=> Root_(o, s)
  BY KeepRoots
<1>3. Others(o, w, y, r)
  BY <1>2 DEF Others, Gone
<1>4. ASSUME NEW f \in Frames, f # r
      PROVE  q[f] = o[f] \/ (o[f][1] \notin {"root", "loose"} /\ q[f][1] \notin {"root", "loose"})
  BY <1>4 DEF Gone, Keep
<1>5. ASSUME NEW f \in Frames, o[f][1] = "loose" PROVE y.data[f] = w.data[f]
  <2>1. p[f] = o[f] /\ x.data[f] = w.data[f]
    BY <1>5 DEF Keep
  <2> QED BY <1>5, <2>1 DEF Gone
<1> QED BY <1>1, <1>3, <1>4, <1>5 DEF Gone

LEMMA SpaceFreed ==
  ASSUME NEW w, NEW o, NEW r, NEW n, NEW k, Space(w, o, r, n, k), NEW x, x = FreeSpace(w, r, n, k)
  PROVE  \E p : Gone(w, o, x, p, r)
<1> USE DEF Space
<1>1. PICK va : va = MAXVA - k
  OBVIOUS
<1>2. va \in Nat /\ va + k <= MAXVA /\ va + k = MAXVA /\ n <= va
  BY <1>1, Layout
<1>3. PICK y : y = UnmapOnly(w, r, va, k)
  OBVIOUS
<1>4. PICK z : z = UnmapFree(y, r, 0, n)
  OBVIOUS
<1>5. x = Freewalk(z, r)
  BY <1>1, <1>3, <1>4 DEF FreeSpace
<1>6. Theirs(w, r, va, k)
  <2>1. ASSUME NEW u \in va..(va + k - 1) PROVE PteAt(w, r, u).pa # 0 /\ ~Mine(PteAt(w, r, u))
    <3>1. u \in VA /\ u >= MAXVA - k
      BY <1>1, <1>2, Layout DEF VA
    <3> QED BY <3>1 DEF SpaceIs
  <2> QED BY <2>1 DEF Theirs
<1> HIDE DEF Space
<1>7. Own(w, o) /\ Root_(o, r) /\ n \in Nat /\ k \in Nat /\ SpaceIs(w, r, n, k)
  BY DEF Space
<1>8. PICK q : Unmapped_(w, o, y, q, r, va, k)
  BY <1>2, <1>3, <1>6, <1>7, UnmapTheirs
<1>9. Keep(w, o, y, q) /\ Others(o, w, y, r) /\ Cleared(w, y, r, va, k)
  BY <1>8 DEF Unmapped_
<1>10. Own(y, q) /\ Root_(q, r)
  BY <1>7, <1>9, KeepOwn, KeepRoots
<1>11. ASSUME NEW u \in VA
       PROVE  IF u >= va \/ u >= n THEN PteAt(y, r, u).pa = 0
              ELSE PteAt(y, r, u).pa # 0 /\ Mine(PteAt(y, r, u))
  <2>1. u \in va..(va + k - 1) <=> u >= va
    BY <1>2, <1>7, Layout DEF VA
  <2>2. PteAt(y, r, u) = IF u >= va THEN NoPte ELSE PteAt(w, r, u)
    BY <1>9, <2>1 DEF Cleared
  <2>3. CASE u >= va
    BY <2>2, <2>3 DEF NoPte
  <2>4. CASE ~(u >= va)
    <3>1. PteAt(y, r, u) = PteAt(w, r, u)
      BY <2>2, <2>4
    <3>2. u < n <=> ~(u >= n)
      BY <1>7, Layout
    <3>3. IF u < n THEN PteAt(w, r, u).pa # 0 /\ Mine(PteAt(w, r, u)) ELSE PteAt(w, r, u).pa = 0
      BY <1>1, <1>7, <2>4 DEF SpaceIs
    <3> QED BY <2>4, <3>1, <3>2, <3>3
  <2> QED BY <2>3, <2>4
<1>12. Ours(y, r, 0, n)
  <2>1. ASSUME NEW u \in 0..(0 + n - 1) PROVE PteAt(y, r, u).pa # 0 /\ Mine(PteAt(y, r, u))
    <3>1. u \in VA /\ ~(u >= va) /\ ~(u >= n)
      BY <1>2, <1>7, Layout DEF VA
    <3> QED BY <1>11, <3>1
  <2> QED BY <2>1 DEF Ours
<1>13. PICK p : Unmapped_(y, q, z, p, r, 0, n)
  <2>1. 0 \in Nat /\ 0 + n <= MAXVA
    BY <1>2, <1>7, Layout
  <2> QED BY <1>4, <1>7, <1>10, <1>12, <2>1, UnmapOurs
<1>14. Keep(y, q, z, p) /\ Others(q, y, z, r) /\ Cleared(y, z, r, 0, n)
  BY <1>13 DEF Unmapped_
<1>15. Vacant(z, r)
  <2>1. ASSUME NEW u \in VA PROVE PteAt(z, r, u).pa = 0
    <3>1. PteAt(z, r, u) = IF u \in 0..(0 + n - 1) THEN NoPte ELSE PteAt(y, r, u)
      BY <1>14 DEF Cleared
    <3>2. CASE u \in 0..(0 + n - 1)
      BY <3>1, <3>2 DEF NoPte
    <3>3. CASE u \notin 0..(0 + n - 1)
      <4>1. u >= n
        BY <1>7, <3>3, Layout DEF VA
      <4> QED BY <1>11, <3>1, <3>3, <4>1
    <3> QED BY <3>2, <3>3
  <2> QED BY <2>1 DEF Vacant
<1>16. Keep(w, o, z, p) /\ Others(o, w, z, r)
  <2>1. Keep(w, o, z, p)
    BY <1>9, <1>14, KeepTrans
  <2>2. Others(o, w, z, r)
    BY <1>9, <1>14, OthersTrans
  <2> QED BY <2>1, <2>2
<1>17. Own(z, p) /\ Root_(p, r)
  BY <1>7, <1>16, KeepOwn, KeepRoots
<1>18. PICK s : Gone(z, p, x, s, r)
  BY <1>5, <1>15, <1>17, FreewalkFrees
<1> QED BY <1>7, <1>16, <1>18, KeepGone

-----------------------------------------------------------------------------
(* Sizes, and how many pages there are.                                    *)
LEMMA PagesLeast ==
  ASSUME NEW s \in Nat, NEW k \in Nat
  PROVE  Pages(s) \in Nat /\ (Pages(s) <= k <=> s <= PGSIZE * k)
<1> DEFINE a == s + PGSIZE - 1
           q == a \div PGSIZE
           r == a % PGSIZE
<1>1. a \in Nat /\ PGSIZE \in Nat \ {0}
  OBVIOUS
<1> HIDE DEF a
<1>2. q \in Nat /\ r \in 0..(PGSIZE - 1) /\ a = PGSIZE * q + r
  BY <1>1, Division
<1>3. Pages(s) = q
  BY DEF Pages, a
<1> HIDE DEF q, r
<1>4. PICK b : b = PGSIZE * q
  OBVIOUS
<1>5. PICK c : c = PGSIZE * k
  OBVIOUS
<1>6. b \in Nat /\ c \in Nat
  BY <1>2, <1>4, <1>5, Products
<1>7. b = s + PGSIZE - 1 - r
  BY <1>1, <1>2, <1>4, <1>6 DEF a
<1>8. CASE q <= k
  <2>1. PGSIZE * q <= PGSIZE * k
    BY <1>2, <1>8
  <2>2. s <= c
    BY <1>2, <1>4, <1>5, <1>6, <1>7, <2>1
  <2> QED BY <1>2, <1>3, <1>5, <1>8, <2>2
<1>9. CASE ~(q <= k)
  <2>1. q >= k + 1
    BY <1>2, <1>9
  <2>2. PGSIZE * q >= PGSIZE * (k + 1)
    BY <1>2, <2>1
  <2>3. PGSIZE * (k + 1) = PGSIZE * k + PGSIZE
    BY Products
  <2>4. ~(s <= c)
    BY <1>2, <1>4, <1>5, <1>6, <1>7, <2>2, <2>3
  <2> QED BY <1>2, <1>3, <1>5, <1>9, <2>4
<1> QED BY <1>8, <1>9

LEMMA PagesMonotone ==
  ASSUME NEW s \in Nat, NEW t \in Nat, s <= t
  PROVE  Pages(s) <= Pages(t) /\ Pages(s) \in Nat /\ Pages(t) \in Nat
<1>1. PICK k : k = Pages(t)
  OBVIOUS
<1>2. k \in Nat
  <2>1. 0 \in Nat
    OBVIOUS
  <2> QED BY <1>1, <2>1, PagesLeast
<1>3. t <= PGSIZE * k /\ PGSIZE * k \in Nat
  <2>1. k <= k
    BY <1>2
  <2>2. t <= PGSIZE * k
    BY <1>1, <1>2, <2>1, PagesLeast
  <2> QED BY <1>2, <2>2, Products
<1>4. s <= PGSIZE * k
  BY <1>3
<1> QED BY <1>1, <1>2, <1>4, PagesLeast

LEMMA PagesExact ==
  ASSUME NEW n \in Nat
  PROVE  Pages(PGSIZE * n) = n /\ PGSIZE * n \in Nat
<1>1. PGSIZE * n \in Nat
  BY Products
<1>2. PICK s : s = PGSIZE * n
  OBVIOUS
<1>3. Pages(s) \in Nat /\ Pages(s) <= n
  BY <1>1, <1>2, PagesLeast
<1>4. s <= PGSIZE * Pages(s)
  BY <1>1, <1>2, <1>3, PagesLeast
<1>5. PICK q : q = Pages(s)
  OBVIOUS
<1>6. q \in Nat /\ q <= n /\ PGSIZE * n <= PGSIZE * q
  BY <1>2, <1>3, <1>4, <1>5
<1>7. q >= n
  <2>1. CASE q < n
    <3>1. q + 1 <= n
      BY <1>6, <2>1
    <3>2. PGSIZE * (q + 1) <= PGSIZE * n
      BY <1>6, <3>1
    <3>3. PGSIZE * (q + 1) = PGSIZE * q + PGSIZE /\ PGSIZE * q \in Nat
      BY <1>6, Products
    <3> QED BY <1>1, <1>6, <3>2, <3>3
  <2> QED BY <1>6, <2>1
<1> QED BY <1>1, <1>2, <1>5, <1>6, <1>7

LEMMA MinePte ==
  ASSUME NEW w, NEW o, Own(w, o), NEW r, Root_(o, r), NEW v \in VA, NEW e, e = PteAt(w, r, v),
         e.pa # 0, Mine(e)
  PROVE  BotOf(w, r, v) # 0 /\ e.pa \in Frames /\ o[e.pa] = <<"page", BotOf(w, r, v), PX(0, v)>>
BY PteFacts

(* User memory takes a page each: there are not more than in the machine.  *)
LEMMA MemoryBounds ==
  ASSUME NEW w, NEW o, Own(w, o), NEW r, Root_(o, r), NEW n \in Nat, n <= MAXVA, Ours(w, r, 0, n)
  PROVE  n <= NFrames
<1> SUFFICES ASSUME n > NFrames PROVE FALSE
  OBVIOUS
<1>0. PICK g : g = [u \in 0..(n - 1) |-> PteAt(w, r, u).pa]
  OBVIOUS
<1>1. ASSUME NEW u \in 0..(n - 1)
      PROVE  /\ u \in VA /\ BotOf(w, r, u) # 0 /\ g[u] \in Frames
             /\ o[g[u]] = <<"page", BotOf(w, r, u), PX(0, u)>>
  <2>1. u \in VA /\ u \in 0..(0 + n - 1)
    BY Layout DEF VA
  <2>2. PteAt(w, r, u).pa # 0 /\ Mine(PteAt(w, r, u))
    BY <2>1 DEF Ours
  <2>3. g[u] = PteAt(w, r, u).pa
    BY <1>0
  <2>4. PICK e : e = PteAt(w, r, u)
    OBVIOUS
  <2>5. BotOf(w, r, u) # 0 /\ e.pa \in Frames /\ o[e.pa] = <<"page", BotOf(w, r, u), PX(0, u)>>
    <3>1. u \in VA /\ e.pa # 0 /\ Mine(e)
      BY <2>1, <2>2, <2>4
    <3> QED BY <2>4, <3>1, MinePte
  <2> QED BY <2>1, <2>2, <2>3, <2>4, <2>5
<1>2. g \in [0..(n - 1) -> Frames]
  BY <1>0, <1>1
<1>3. IsFiniteSet(0..(n - 1)) /\ Cardinality(0..(n - 1)) = n
  <2>1. 0 \in Int /\ n - 1 \in Int
    OBVIOUS
  <2>2. /\ IsFiniteSet(0..(n - 1))
        /\ Cardinality(0..(n - 1)) = IF 0 > n - 1 THEN 0 ELSE (n - 1) - 0 + 1
    BY <2>1, FS_Interval
  <2> QED BY <2>2
<1>4. IsFiniteSet(Frames) /\ Cardinality(Frames) < Cardinality(0..(n - 1))
  BY <1>3, FramesFinite
<1>5. PICK u, v \in 0..(n - 1) : u # v /\ g[u] = g[v]
  BY <1>2, <1>3, <1>4, FS_PigeonHole
<1>6. BotOf(w, r, u) = BotOf(w, r, v) /\ PX(0, u) = PX(0, v)
  <2>1. <<"page", BotOf(w, r, u), PX(0, u)>> = <<"page", BotOf(w, r, v), PX(0, v)>>
    BY <1>1, <1>5
  <2> QED BY <2>1
<1>7. u = v
  BY <1>1, <1>6, OneEntry
<1> QED BY <1>5, <1>7

-----------------------------------------------------------------------------
(* uvmdealloc() and uvmalloc().                                            *)

(* A step that leaves the page tables alone, after another.                *)
LEMMA KeepSame ==
  ASSUME NEW w, NEW o, NEW y, NEW p, NEW x, NEW q, Keep(w, o, y, p), Keep(y, p, x, q),
         SamePtes(p, y, x), NEW r, Root_(o, r)
  PROVE  /\ Keep(w, o, x, q)
         /\ Others(o, w, y, r) => Others(o, w, x, r)
         /\ SamePtes(o, w, y) => SamePtes(o, w, x)
         /\ \A v \in VA : PteAt(x, r, v) = PteAt(y, r, v)
<1>1. Keep(w, o, x, q)
  BY KeepTrans
<1>2. \A s : Root_(p, s) <=> Root_(o, s)
  BY KeepRoots
<1> QED BY <1>1, <1>2 DEF SamePtes, Others

LEMMA AllSame ==
  ASSUME NEW w, NEW o, NEW x, NEW r, Others(o, w, x, r), \A v \in VA : PteAt(x, r, v) = PteAt(w, r, v)
  PROVE  SamePtes(o, w, x)
<1>1. ASSUME NEW s, Root_(o, s), NEW v \in VA PROVE PteAt(x, s, v) = PteAt(w, s, v)
  <2>1. CASE s = r
    BY <1>1, <2>1
  <2>2. CASE s # r
    BY <1>1, <2>2 DEF Others
  <2> QED BY <2>1, <2>2
<1> QED BY <1>1 DEF SamePtes

(* What is returned after a step.                                          *)
LEMMA KeepRet ==
  ASSUME NEW w, NEW o, NEW y, NEW p, Keep(w, o, y, p), NEW a \in Int, NEW x, x = Ret(y, a),
         NEW r, Root_(o, r)
  PROVE  /\ Keep(w, o, x, p) /\ x.ret = a /\ Returned(y, p, x)
         /\ Others(o, w, y, r) => Others(o, w, x, r)
         /\ SamePtes(o, w, y) => SamePtes(o, w, x)
         /\ \A v \in VA : PteAt(x, r, v) = PteAt(y, r, v)
<1>1. Own(y, p)
  BY KeepOwn
<1>2. Returned(y, p, x) /\ x.ret = a
  BY <1>1, RetStep
<1>3. Keep(y, p, x, p) /\ SamePtes(p, y, x)
  BY <1>2 DEF Returned
<1> QED BY <1>2, <1>3, KeepSame

DeallocOK(w, o, r, old, new) ==
  /\ Own(w, o) /\ Root_(o, r) /\ old \in Nat /\ new \in Nat /\ Pages(old) <= MAXVA
  /\ Ours(w, r, Pages(new), Pages(old) - Pages(new))

LEMMA Deallocates ==
  ASSUME NEW w, NEW o, NEW r, NEW old, NEW new, DeallocOK(w, o, r, old, new), new < old,
         NEW x, x = Uvmdealloc(w, r, old, new)
  PROVE  x.ret = new /\ \E p : Unmapped_(w, o, x, p, r, Pages(new), Pages(old) - Pages(new))
<1> USE DEF DeallocOK
<1>1. PICK a, n : a = Pages(new) /\ n = Pages(old) - Pages(new)
  OBVIOUS
<1>2. a \in Nat /\ n \in Nat /\ a + n <= MAXVA
  <2>1. PICK b : b = Pages(old)
    OBVIOUS
  <2>2. a <= b /\ a \in Nat /\ b \in Nat
    BY <1>1, <2>1, PagesMonotone
  <2> QED BY <1>1, <2>1, <2>2, Layout
<1>3. PICK y : y = UnmapFree(w, r, a, n)
  OBVIOUS
<1>4. x = Ret(y, new)
  <2>1. ~(new >= old)
    OBVIOUS
  <2>2. x = IF new >= old THEN Ret(w, old)
            ELSE Ret(UnmapFree(w, r, Pages(new), Pages(old) - Pages(new)), new)
    BY ZenonT(30) DEF Uvmdealloc, UnmapFree
  <2> QED BY <1>1, <1>3, <2>1, <2>2
<1>5. Ours(w, r, a, n) /\ Own(w, o) /\ Root_(o, r) /\ new \in Int
  BY <1>1
<1> HIDE DEF DeallocOK
<1>6. PICK p : Unmapped_(w, o, y, p, r, a, n)
  BY <1>2, <1>3, <1>5, UnmapOurs
<1>7. Keep(w, o, y, p) /\ Others(o, w, y, r) /\ Cleared(w, y, r, a, n)
  BY <1>6 DEF Unmapped_
<1>8. /\ Keep(w, o, x, p) /\ x.ret = new /\ Others(o, w, x, r)
      /\ \A v \in VA : PteAt(x, r, v) = PteAt(y, r, v)
  BY <1>4, <1>5, <1>7, KeepRet
<1>9. Unmapped_(w, o, x, p, r, a, n)
  BY <1>7, <1>8 DEF Unmapped_, Cleared
<1> QED BY <1>1, <1>8, <1>9

(* The pages from a on, up to b, are new.                                  *)
Grew(w, x, r, a, b) ==
  \A v \in VA : IF v \in a..(b - 1)
                THEN PteAt(x, r, v).pa # 0 /\ PteAt(x, r, v).perm = UserPerm
                ELSE PteAt(x, r, v) = PteAt(w, r, v)

AllocOK(w, o, r, old) ==
  /\ Own(w, o) /\ Root_(o, r) /\ old \in Nat /\ Pages(old) <= USYSCALL
  /\ Ours(w, r, 0, Pages(old))
  /\ \A v \in VA : v >= Pages(old) /\ v < USYSCALL => PteAt(w, r, v).pa = 0

Grows(w, o, x, r, a, n, ret) ==
  \/ x.ret = ret /\ a + n <= NFrames /\ \E p : Keep(w, o, x, p) /\ Others(o, w, x, r) /\ Grew(w, x, r, a, a + n)
  \/ x.ret = 0 /\ \E p : Keep(w, o, x, p) /\ SamePtes(o, w, x)

LEMMA GrewOurs ==
  ASSUME NEW w, NEW o, NEW r, NEW old, AllocOK(w, o, r, old), NEW x, NEW n \in Nat,
         Grew(w, x, r, Pages(old), Pages(old) + n), Pages(old) + n <= MAXVA
  PROVE  Ours(x, r, 0, Pages(old) + n) /\ Ours(x, r, Pages(old), n)
<1>1. PICK a : a = Pages(old)
  OBVIOUS
<1>2. a \in Nat
  <2>1. 0 \in Nat /\ old \in Nat
    BY DEF AllocOK
  <2> QED BY <1>1, <2>1, PagesLeast
<1>3. ASSUME NEW u \in 0..(a + n - 1) PROVE PteAt(x, r, u).pa # 0 /\ Mine(PteAt(x, r, u))
  <2>1. u \in VA
    BY <1>1, <1>2, Layout DEF VA
  <2>2. CASE u \in a..(a + n - 1)
    <3>1. PICK b : b = a + n
      OBVIOUS
    <3>2. u \in a..(b - 1)
      BY <1>2, <2>2, <3>1
    <3>3. Grew(w, x, r, a, b)
      BY <1>1, <3>1, Zenon
    <3>4. PteAt(x, r, u).pa # 0 /\ PteAt(x, r, u).perm = UserPerm
      BY <2>1, <3>2, <3>3 DEF Grew
    <3> QED BY <3>4 DEF Mine, UserPerm
  <2>3. CASE u \notin a..(a + n - 1)
    <3>1. u \in 0..(0 + a - 1)
      BY <1>2, <2>3
    <3>2. PteAt(x, r, u) = PteAt(w, r, u)
      BY <1>1, <2>1, <2>3 DEF Grew
    <3> QED BY <1>1, <3>1, <3>2 DEF AllocOK, Ours
  <2> QED BY <2>2, <2>3
<1>4. Ours(x, r, 0, a + n)
  <2>1. 0 + (a + n) - 1 = a + n - 1
    BY <1>2
  <2> QED BY <1>3, <2>1 DEF Ours
<1>5. Ours(x, r, a, n)
  <2>1. \A u \in a..(a + n - 1) : u \in 0..(a + n - 1)
    BY <1>2
  <2> QED BY <1>3, <2>1 DEF Ours
<1> QED BY <1>1, <1>4, <1>5

(* An iteration of uvmalloc() starts, k after the first.                   *)
Adding(w, o, r, old, y, p, k) ==
  /\ AllocOK(w, o, r, old) /\ k \in Nat /\ Pages(old) + k <= NFrames
  /\ Keep(w, o, y, p) /\ Others(o, w, y, r) /\ Grew(w, y, r, Pages(old), Pages(old) + k)

(* What has been mapped so far is unmapped and freed.                      *)
LEMMA AddingFails ==
  ASSUME NEW w, NEW o, NEW r, NEW old, NEW y, NEW p, NEW k, Adding(w, o, r, old, y, p, k),
         NEW x, x = Ret(Uvmdealloc(y, r, (Pages(old) + k) * PGSIZE, old), 0)
  PROVE  x.ret = 0 /\ \E q : Keep(w, o, x, q) /\ SamePtes(o, w, x)
<1>0. /\ Own(w, o) /\ Root_(o, r) /\ old \in Nat /\ k \in Nat
      /\ Keep(w, o, y, p) /\ Others(o, w, y, r)
  BY DEF Adding, AllocOK
<1>1. PICK a : a = Pages(old)
  OBVIOUS
<1>2. a \in Nat /\ a + k \in Nat /\ a + k <= NFrames
  <2>1. a \in Nat
    BY <1>0, <1>1, PagesLeast
  <2> QED BY <1>0, <1>1, <2>1 DEF Adding
<1>3. PICK s : s = (a + k) * PGSIZE
  OBVIOUS
<1>4. s \in Nat /\ Pages(s) = a + k
  <2>1. PICK n \in Nat : n = a + k
    BY <1>2
  <2>2. PGSIZE * n = n * PGSIZE
    OBVIOUS
  <2> QED BY <1>3, <2>1, <2>2, PagesExact
<1>5. PICK d : d = Uvmdealloc(y, r, s, old)
  OBVIOUS
<1>6. x = Ret(d, 0)
  BY <1>1, <1>3, <1>5
<1>7. Own(y, p) /\ Root_(p, r)
  BY <1>0, KeepOwn, KeepRoots
<1>8. ASSUME NEW u \in VA
      PROVE  /\ u \notin a..(a + k - 1) => PteAt(y, r, u) = PteAt(w, r, u)
             /\ u \in a..(a + k - 1) => PteAt(w, r, u) = NoPte
  <2>1. PICK b : b = a + k
    OBVIOUS
  <2>2. Grew(w, y, r, a, b)
    BY <1>1, <2>1, Zenon DEF Adding
  <2>3. u \notin a..(b - 1) => PteAt(y, r, u) = PteAt(w, r, u)
    BY <2>2 DEF Grew
  <2>4. ASSUME u \in a..(b - 1) PROVE PteAt(w, r, u) = NoPte
    <3>1. u >= a /\ u < USYSCALL
      BY <1>0, <1>2, <2>1, <2>4, Layout
    <3>2. PteAt(w, r, u).pa = 0
      BY <1>1, <3>1 DEF Adding, AllocOK
    <3> QED BY <1>0, <3>2, PteFacts
  <2>5. b - 1 = a + k - 1
    BY <1>0, <1>2, <2>1
  <2> QED BY <2>3, <2>4, <2>5
<1>9. CASE old < s
  <2>1. DeallocOK(y, p, r, s, old)
    <3>1. Ours(y, r, a, k)
      <4>1. a + k <= MAXVA
        BY <1>0, <1>2, Layout
      <4> QED BY <1>0, <1>1, <4>1, GrewOurs DEF Adding
    <3>2. Pages(s) - Pages(old) = k
      BY <1>0, <1>1, <1>2, <1>4
    <3>3. Pages(s) <= MAXVA
      BY <1>0, <1>2, <1>4, Layout
    <3> QED BY <1>0, <1>1, <1>4, <1>7, <3>1, <3>2, <3>3 DEF DeallocOK
  <2>2. PICK q : Unmapped_(y, p, d, q, r, Pages(old), Pages(s) - Pages(old))
    BY <1>5, <1>9, <2>1, Deallocates
  <2>3. Unmapped_(y, p, d, q, r, a, k)
    <3>1. Pages(s) - Pages(old) = k
      BY <1>0, <1>1, <1>2, <1>4
    <3> QED BY <1>1, <2>2, <3>1
  <2>4. Keep(y, p, d, q) /\ Others(p, y, d, r) /\ Cleared(y, d, r, a, k)
    BY <2>3 DEF Unmapped_
  <2>5. Keep(w, o, d, q) /\ Others(o, w, d, r)
    BY <1>0, <2>4, KeepTrans, OthersTrans
  <2>6. \A u \in VA : PteAt(d, r, u) = PteAt(w, r, u)
    BY <1>8, <2>4 DEF Cleared
  <2>7. SamePtes(o, w, d)
    BY <2>5, <2>6, AllSame
  <2> QED BY <1>0, <1>6, <2>5, <2>7, KeepRet
<1>10. CASE ~(old < s)
  <2>1. k = 0
    <3>1. s <= old
      BY <1>0, <1>4, <1>10
    <3>2. Pages(s) <= a
      BY <1>0, <1>1, <1>4, <3>1, PagesMonotone
    <3> QED BY <1>0, <1>2, <1>4, <3>2
  <2>2. old >= s
    BY <1>0, <1>4, <1>10
  <2>3. d = Ret(y, s)
    BY <1>5, <2>2 DEF Uvmdealloc
  <2>4. x = Ret(y, 0)
    BY <1>6, <2>3, RetRet
  <2>5. \A u \in VA : PteAt(y, r, u) = PteAt(w, r, u)
    <3>1. \A u \in VA : u \notin a..(a + k - 1)
      BY <1>2, <2>1
    <3> QED BY <1>8, <3>1
  <2>6. SamePtes(o, w, y)
    BY <1>0, <2>5, AllSame
  <2> QED BY <1>0, <2>4, <2>6, KeepRet
<1> QED BY <1>9, <1>10

LEMMA AddingOne ==
  ASSUME NEW w, NEW o, NEW r, NEW old, NEW y, NEW p, NEW k, Adding(w, o, r, old, y, p, k),
         NEW new \in Nat, NEW x, x = MapOrFail(Kalloc(y), r, Pages(old) + k, old, new)
  PROVE  Grows(w, o, x, r, Pages(old), k + 1, new)
<1>0. /\ Own(w, o) /\ Root_(o, r) /\ old \in Nat /\ k \in Nat
      /\ Keep(w, o, y, p) /\ Others(o, w, y, r)
  BY DEF Adding, AllocOK
<1>1. PICK a, v : a = Pages(old) /\ v = a + k
  OBVIOUS
<1>2. a \in Nat /\ v \in Nat /\ v <= NFrames
  <2>1. a \in Nat
    BY <1>0, <1>1, PagesLeast
  <2> QED BY <1>0, <1>1, <2>1 DEF Adding
<1>3. v \in VA /\ v < USYSCALL /\ v >= a
  BY <1>0, <1>1, <1>2, Layout DEF VA
<1>4. Grew(w, y, r, a, v)
  BY <1>1, Zenon DEF Adding
<1>5. PteAt(y, r, v).pa = 0
  <2>1. v \notin a..(v - 1)
    BY <1>2
  <2>2. PteAt(y, r, v) = PteAt(w, r, v)
    BY <1>3, <1>4, <2>1 DEF Grew
  <2> QED BY <1>1, <1>3, <2>2 DEF Adding, AllocOK
<1>6. Own(y, p) /\ Root_(p, r)
  BY <1>0, KeepOwn, KeepRoots
<1>7. Unmapped(y, p, r, v)
  BY <1>3, <1>5, <1>6 DEF Unmapped
<1>8. PICK c, z : c = Kalloc(y) /\ z = MapNew(c, r, v)
  OBVIOUS
<1>9. PICK f, e : f = c.ret /\ e = UserPte(f)
  OBVIOUS
<1>10. Added(y, p, z, r, v, e, f)
  BY <1>7, <1>8, <1>9, NewPage
<1>11. x = IF z.ret = 0 THEN Ret(z, new) ELSE Ret(Uvmdealloc(GiveBack(z, f), r, (a + k) * PGSIZE, old), 0)
  BY <1>1, <1>8, <1>9 DEF MapOrFail, AddPage, UvmallocFails
<1>12. CASE z.ret = 0
  <2>1. f \in Frames
    BY <1>10, <1>12 DEF Added
  <2>2. PICK q : PageAdded(y, p, z, q, r, v, e)
    BY <1>10, <1>12 DEF Added
  <2>3. Keep(y, p, z, q) /\ Others(p, y, z, r) /\ Remap(y, z, r, v, e)
    BY <2>2 DEF PageAdded
  <2>4. Keep(w, o, z, q) /\ Others(o, w, z, r)
    BY <1>0, <2>3, KeepTrans, OthersTrans
  <2>5. x = Ret(z, new)
    BY <1>11, <1>12
  <2>6. /\ Keep(w, o, x, q) /\ x.ret = new /\ Others(o, w, x, r)
        /\ \A u \in VA : PteAt(x, r, u) = PteAt(z, r, u)
    BY <1>0, <2>4, <2>5, KeepRet
  <2>7. e.pa # 0 /\ e.perm = UserPerm
    BY <1>9, <2>1 DEF UserPte, Frames
  <2>8. Grew(w, x, r, a, v + 1)
    <3>1. ASSUME NEW u \in VA
          PROVE  IF u \in a..v
                 THEN PteAt(x, r, u).pa # 0 /\ PteAt(x, r, u).perm = UserPerm
                 ELSE PteAt(x, r, u) = PteAt(w, r, u)
      <4>1. PteAt(x, r, u) = IF u = v THEN e ELSE PteAt(y, r, u)
        BY <2>3, <2>6 DEF Remap
      <4>2. CASE u = v
        BY <1>2, <1>3, <2>7, <4>1, <4>2
      <4>3. CASE u # v
        <5>1. u \in a..v <=> u \in a..(v - 1)
          BY <1>2, <4>3, Layout
        <5>2. IF u \in a..(v - 1)
              THEN PteAt(y, r, u).pa # 0 /\ PteAt(y, r, u).perm = UserPerm
              ELSE PteAt(y, r, u) = PteAt(w, r, u)
          BY <1>4 DEF Grew
        <5> QED BY <4>1, <4>3, <5>1, <5>2
      <4> QED BY <4>2, <4>3
    <3>2. PICK b : b = v + 1
      OBVIOUS
    <3>3. b - 1 = v
      BY <1>2, <3>2
    <3>4. Grew(w, x, r, a, b)
      BY <3>1, <3>3 DEF Grew
    <3> QED BY <3>2, <3>4
  <2>9. PICK n \in Nat : n = k + 1
    BY <1>0
  <2>10. a + n = v + 1 /\ a + n <= MAXVA /\ a + n \in Nat
    BY <1>0, <1>1, <1>2, <1>3, <2>9, Layout
  <2>11. Grew(w, x, r, a, a + n)
    BY <2>8, <2>10
  <2>12. Ours(x, r, 0, a + n)
    BY <1>0, <1>1, <2>10, <2>11, GrewOurs DEF Adding
  <2>13. Own(x, q) /\ Root_(q, r)
    BY <1>0, <2>6, KeepOwn, KeepRoots
  <2>14. a + n <= NFrames
    BY <2>10, <2>12, <2>13, MemoryBounds
  <2>15. Grows(w, o, x, r, a, n, new)
    BY <2>6, <2>11, <2>14 DEF Grows
  <2> QED BY <1>1, <2>9, <2>15
<1>13. CASE z.ret # 0
  <2>1. PICK g : g = GiveBack(z, f)
    OBVIOUS
  <2>2. PICK q : Keep(y, p, g, q) /\ SamePtes(p, y, g)
    BY <1>10, <1>13, <2>1 DEF Added
  <2>3. /\ Keep(w, o, g, q) /\ Others(o, w, g, r)
        /\ \A u \in VA : PteAt(g, r, u) = PteAt(y, r, u)
    BY <1>0, <2>2, KeepSame
  <2>4. Grew(w, g, r, a, v)
    BY <1>4, <2>3 DEF Grew
  <2>5. Adding(w, o, r, old, g, q, k)
    BY <1>1, <2>3, <2>4, Zenon DEF Adding
  <2>6. x = Ret(Uvmdealloc(g, r, (Pages(old) + k) * PGSIZE, old), 0)
    BY <1>1, <1>11, <1>13, <2>1
  <2>7. x.ret = 0 /\ \E s : Keep(w, o, x, s) /\ SamePtes(o, w, x)
    BY <2>5, <2>6, AddingFails
  <2> QED BY <2>7 DEF Grows
<1> QED BY <1>12, <1>13

LEMMA Uvmallocs ==
  ASSUME NEW w, NEW o, NEW r, NEW old, AllocOK(w, o, r, old), NEW new \in Nat,
         NEW x, x = Uvmalloc(w, r, old, new)
  PROVE  /\ new < old => Returned(w, o, x) /\ x.ret = old
         /\ ~(new < old) => Grows(w, o, x, r, Pages(old), Pages(new) - Pages(old), new)
<1>0. Own(w, o) /\ Root_(o, r) /\ old \in Nat
  BY DEF AllocOK
<1>1. CASE new < old
  <2>1. x = Ret(w, old)
    BY <1>1 DEF Uvmalloc
  <2> QED BY <1>0, <1>1, <2>1, RetStep
<1>2. CASE ~(new < old)
  <2>1. PICK a, n : a = Pages(old) /\ n = Pages(new) - Pages(old)
    OBVIOUS
  <2>2. a \in Nat /\ n \in Nat
    <3>1. old <= new
      BY <1>0, <1>2
    <3>2. Pages(old) <= Pages(new) /\ Pages(old) \in Nat /\ Pages(new) \in Nat
      BY <1>0, <3>1, PagesMonotone
    <3> QED BY <2>1, <3>2
  <2>3. PICK f : AllocTurns(f, w, r, n, old, new) /\ Uvmalloc(w, r, old, new) = f[n]
    BY <1>2, <2>1, <2>2, UvmallocRun
  <2> DEFINE S == {k \in Nat : k <= n => Grows(w, o, f[k], r, a, k, new)}
  <2>4. 0 \in S
    <3>1. PICK y : y = f[0]
      OBVIOUS
    <3>2. y = Ret(w, new) /\ new \in Int
      BY <2>3, <3>1 DEF AllocTurns
    <3>3. Keep(w, o, w, o) /\ SamePtes(o, w, w) /\ Others(o, w, w, r)
      BY <1>0, KeepRefl DEF SamePtes, Others
    <3>4. /\ Keep(w, o, y, o) /\ y.ret = new /\ Others(o, w, y, r) /\ SamePtes(o, w, y)
          /\ \A v \in VA : PteAt(y, r, v) = PteAt(w, r, v)
      BY <1>0, <3>2, <3>3, KeepRet
    <3>5. Grew(w, y, r, a, a + 0)
      <4>1. PICK b : b = a + 0
        OBVIOUS
      <4>2. \A v \in VA : v \notin a..(b - 1)
        BY <2>2, <4>1
      <4>3. Grew(w, y, r, a, b)
        BY <3>4, <4>2 DEF Grew
      <4> QED BY <4>1, <4>3
    <3>6. a + 0 <= NFrames
      <4>1. a <= MAXVA
        BY <2>1, <2>2, Layout DEF AllocOK
      <4>2. Ours(w, r, 0, a)
        BY <2>1 DEF AllocOK
      <4>3. a <= NFrames
        BY <1>0, <2>2, <4>1, <4>2, MemoryBounds
      <4> QED BY <2>2, <4>3
    <3>7. Grows(w, o, y, r, a, 0, new)
      BY <3>4, <3>5, <3>6 DEF Grows
    <3> QED BY <3>1, <3>7
  <2>5. ASSUME NEW k \in Nat, k \in S PROVE k + 1 \in S
    <3> SUFFICES ASSUME k + 1 <= n PROVE Grows(w, o, f[k + 1], r, a, k + 1, new)
      OBVIOUS
    <3>1. PICK y, z : y = f[k] /\ z = f[k + 1]
      OBVIOUS
    <3>2. k \in 0..(n - 1) /\ Grows(w, o, y, r, a, k, new)
      BY <2>2, <2>5, <3>1
    <3>3. z = IF y.ret = 0 THEN y ELSE MapOrFail(Kalloc(y), r, Pages(old) + k, old, new)
      BY <2>3, <3>1, <3>2 DEF AllocTurns, AllocTurn
    <3> HIDE DEF S
    <3>n. new # 0
      <4>1. n > 0
        BY <2>2, <3>2
      <4>2. PICK b : b = Pages(new)
        OBVIOUS
      <4>3. b \in Nat /\ (b <= 0 <=> new <= PGSIZE * 0)
        <5>1. 0 \in Nat
          OBVIOUS
        <5> QED BY <4>2, <5>1, PagesLeast
      <4>4. b > 0
        BY <2>1, <2>2, <4>1, <4>2, <4>3
      <4> QED BY <4>3, <4>4
    <3>4. CASE y.ret = 0
      <4>1. \E p : Keep(w, o, y, p) /\ SamePtes(o, w, y)
        BY <3>2, <3>4, <3>n DEF Grows
      <4>2. z = y
        BY <3>3, <3>4
      <4>3. Grows(w, o, z, r, a, k + 1, new)
        BY <3>4, <4>1, <4>2 DEF Grows
      <4> QED BY <3>1, <4>3
    <3>5. CASE y.ret # 0
      <4>0. a + k <= NFrames
        BY <3>2, <3>5 DEF Grows
      <4>1. PICK p : Keep(w, o, y, p) /\ Others(o, w, y, r) /\ Grew(w, y, r, a, a + k)
        BY <3>2, <3>5 DEF Grows
      <4>2. Adding(w, o, r, old, y, p, k)
        BY <2>1, <4>0, <4>1 DEF Adding
      <4>3. z = MapOrFail(Kalloc(y), r, Pages(old) + k, old, new)
        BY <3>3, <3>5
      <4>4. Grows(w, o, z, r, Pages(old), k + 1, new)
        BY <4>2, <4>3, AddingOne
      <4> QED BY <2>1, <3>1, <4>4
    <3> QED BY <3>4, <3>5
  <2> HIDE DEF S
  <2>6. \A k \in Nat : k \in S
    BY <2>4, <2>5, SetInduction
  <2>7. Grows(w, o, f[n], r, a, n, new)
    BY <2>2, <2>6 DEF S
  <2> QED BY <1>2, <2>1, <2>3, <2>7
<1> QED BY <1>1, <1>2

(* What is returned after a step that has failed.                          *)
LEMMA KeepError ==
  ASSUME NEW w, NEW o, NEW y, NEW p, Keep(w, o, y, p), NEW x, x = Ret(y, -1), NEW r, Root_(o, r)
  PROVE  /\ Keep(w, o, x, p) /\ x.ret = -1 /\ Returned(y, p, x)
         /\ Others(o, w, y, r) => Others(o, w, x, r)
         /\ SamePtes(o, w, y) => SamePtes(o, w, x)
         /\ \A v \in VA : PteAt(x, r, v) = PteAt(y, r, v)
<1>1. PICK a \in Int : a = -1
  OBVIOUS
<1>2. x = Ret(y, a)
  BY <1>1
<1>3. /\ Keep(w, o, x, p) /\ x.ret = a /\ Returned(y, p, x)
      /\ Others(o, w, y, r) => Others(o, w, x, r)
      /\ SamePtes(o, w, y) => SamePtes(o, w, x)
      /\ \A v \in VA : PteAt(x, r, v) = PteAt(y, r, v)
  BY <1>2, KeepRet
<1> QED BY <1>1, <1>3

-----------------------------------------------------------------------------
(* uvmcopy(), of the n pages of old to new, which has none below USYSCALL. *)
CopyOK(w, o, old, new, n) ==
  /\ Own(w, o) /\ Root_(o, old) /\ Root_(o, new) /\ old # new
  /\ n \in Nat /\ n <= NFrames /\ Ours(w, old, 0, n)
  /\ \A v \in VA : v < USYSCALL => PteAt(w, new, v).pa = 0

(* The first k pages of new are mapped as those of old are.                *)
SamePerms(w, x, old, new, k) ==
  \A v \in VA : IF v < k
                THEN PteAt(x, new, v).pa # 0 /\ PteAt(x, new, v).perm = PteAt(w, old, v).perm
                ELSE PteAt(x, new, v) = PteAt(w, new, v)

Copies(w, o, x, old, new, k) ==
  \/ x.ret = 0 /\ \E p : Keep(w, o, x, p) /\ Others(o, w, x, new) /\ SamePerms(w, x, old, new, k)
  \/ x.ret = -1 /\ \E p : Keep(w, o, x, p) /\ SamePtes(o, w, x)

(* An iteration starts, k after the first.                                 *)
Copying(w, o, old, new, n, y, p, k) ==
  /\ CopyOK(w, o, old, new, n) /\ k \in Nat /\ k < n
  /\ Keep(w, o, y, p) /\ Others(o, w, y, new) /\ SamePerms(w, y, old, new, k)

(* The pages copied so far are given back.                                 *)
LEMMA CopyingFails ==
  ASSUME NEW w, NEW o, NEW old, NEW new, NEW n, NEW y, NEW p, NEW k,
         Copying(w, o, old, new, n, y, p, k), NEW x, x = Ret(UnmapFree(y, new, 0, k), -1)
  PROVE  x.ret = -1 /\ \E q : Keep(w, o, x, q) /\ SamePtes(o, w, x)
<1>0. /\ Own(w, o) /\ Root_(o, old) /\ Root_(o, new) /\ k \in Nat /\ k < n /\ n \in Nat /\ n <= NFrames
      /\ Keep(w, o, y, p) /\ Others(o, w, y, new) /\ SamePerms(w, y, old, new, k)
      /\ Ours(w, old, 0, n)
  BY DEF Copying, CopyOK
<1>1. Own(y, p) /\ Root_(p, new)
  BY <1>0, KeepOwn, KeepRoots
<1>2. Ours(y, new, 0, k)
  <2>1. ASSUME NEW u \in 0..(0 + k - 1) PROVE PteAt(y, new, u).pa # 0 /\ Mine(PteAt(y, new, u))
    <3>1. u \in VA /\ u < k
      BY <1>0, Layout DEF VA
    <3>2. PteAt(y, new, u).pa # 0 /\ PteAt(y, new, u).perm = PteAt(w, old, u).perm
      BY <1>0, <3>1 DEF SamePerms
    <3>3. u \in 0..(0 + n - 1)
      BY <1>0
    <3>4. Mine(PteAt(w, old, u))
      BY <1>0, <3>3 DEF Ours
    <3> QED BY <3>2, <3>4 DEF Mine
  <2> QED BY <2>1 DEF Ours
<1>3. PICK d : d = UnmapFree(y, new, 0, k)
  OBVIOUS
<1>4. PICK q : Unmapped_(y, p, d, q, new, 0, k)
  <2>1. 0 \in Nat /\ 0 + k <= MAXVA
    BY <1>0, Layout
  <2> QED BY <1>0, <1>1, <1>2, <1>3, <2>1, UnmapOurs
<1>5. Keep(y, p, d, q) /\ Others(p, y, d, new) /\ Cleared(y, d, new, 0, k)
  BY <1>4 DEF Unmapped_
<1>6. Keep(w, o, d, q) /\ Others(o, w, d, new)
  BY <1>0, <1>5, KeepTrans, OthersTrans
<1>7. ASSUME NEW u \in VA PROVE PteAt(d, new, u) = PteAt(w, new, u)
  <2>1. PteAt(d, new, u) = IF u \in 0..(0 + k - 1) THEN NoPte ELSE PteAt(y, new, u)
    BY <1>5 DEF Cleared
  <2>2. u \in 0..(0 + k - 1) <=> u < k
    BY <1>0, Layout DEF VA
  <2>3. CASE u < k
    <3>1. u < USYSCALL
      BY <1>0, <2>3, Layout
    <3>2. PteAt(w, new, u).pa = 0
      BY <3>1 DEF Copying, CopyOK
    <3>3. PteAt(w, new, u) = NoPte
      BY <1>0, <3>2, PteFacts
    <3> QED BY <2>1, <2>2, <2>3, <3>3
  <2>4. CASE ~(u < k)
    <3>1. PteAt(y, new, u) = PteAt(w, new, u)
      BY <1>0, <2>4 DEF SamePerms
    <3> QED BY <2>1, <2>2, <2>4, <3>1
  <2> QED BY <2>3, <2>4
<1>8. SamePtes(o, w, d)
  BY <1>6, <1>7, AllSame
<1>9. x = Ret(d, -1)
  BY <1>3
<1> QED BY <1>0, <1>6, <1>8, <1>9, KeepError

LEMMA CopyingOne ==
  ASSUME NEW w, NEW o, NEW old, NEW new, NEW n, NEW y, NEW p, NEW k,
         Copying(w, o, old, new, n, y, p, k), NEW x, x = CopyTurn(y, old, new, k), y.ret = 0
  PROVE  Copies(w, o, x, old, new, k + 1)
<1>0. /\ Own(w, o) /\ Root_(o, old) /\ Root_(o, new) /\ k \in Nat /\ k < n /\ n \in Nat /\ n <= NFrames
      /\ Keep(w, o, y, p) /\ Others(o, w, y, new) /\ SamePerms(w, y, old, new, k)
      /\ Ours(w, old, 0, n) /\ old # new
  BY DEF Copying, CopyOK
<1>1. Own(y, p) /\ Root_(p, new) /\ Root_(p, old)
  BY <1>0, KeepOwn, KeepRoots
<1>2. k \in VA /\ k < USYSCALL /\ k \in 0..(0 + n - 1)
  BY <1>0, Layout DEF VA
<1>3. PICK pte : pte = PteAt(w, old, k)
  OBVIOUS
<1>4. pte.pa # 0 /\ Mine(pte) /\ pte \in PteType
  <2>1. pte.pa # 0 /\ Mine(pte)
    BY <1>0, <1>2, <1>3 DEF Ours
  <2> QED BY <1>0, <1>2, <1>3, <2>1, PteFacts
<1>5. PteAt(y, old, k) = pte
  BY <1>0, <1>2, <1>3 DEF Others
<1>6. PteAt(y, new, k).pa = 0
  <2>1. PteAt(y, new, k) = PteAt(w, new, k)
    <3>1. ~(k < k)
      BY <1>0
    <3> QED BY <1>0, <1>2, <3>1 DEF SamePerms
  <2> QED BY <1>2, <2>1 DEF Copying, CopyOK
<1>7. pte.pa \in Frames
  BY <1>0, <1>2, <1>3, <1>4, PteFacts
<1>8. PICK c : c = Kalloc(y)
  OBVIOUS
<1>9. PteAt(c, old, k) = pte
  <2>1. SamePtes(p, y, c)
    BY <1>1, <1>8, KallocOwn
  <2> QED BY <1>1, <1>2, <1>5, <2>1 DEF SamePtes
<1>10. PICK z, f, e : z = MapCopy(c, new, k, pte) /\ f = c.ret /\ e = CopyPte(f, pte)
  OBVIOUS
<1>11. Added(y, p, z, new, k, e, f)
  <2>1. Unmapped(y, p, new, k)
    BY <1>1, <1>2, <1>6 DEF Unmapped
  <2> QED BY <1>4, <1>7, <1>8, <1>10, <2>1, CopiedPage
<1>12. x = IF z.ret = 0 THEN z ELSE Ret(UnmapFree(GiveBack(z, f), new, 0, k), -1)
  <2>1. x = CopyOrFail(c, old, new, k)
    BY <1>4, <1>5, <1>8 DEF CopyTurn, Valid
  <2>2. x = CopyPage(z, new, k, f)
    BY <1>9, <1>10, <2>1 DEF CopyOrFail
  <2>3. UvmcopyErr(z, new, k, f) = Ret(UnmapFree(GiveBack(z, f), new, 0, k), -1)
    BY Zenon DEF UvmcopyErr, UnmapFree
  <2> QED BY <2>2, <2>3 DEF CopyPage
<1>13. CASE z.ret = 0
  <2>1. f \in Frames
    BY <1>11, <1>13 DEF Added
  <2>2. PICK q : PageAdded(y, p, z, q, new, k, e)
    BY <1>11, <1>13 DEF Added
  <2>3. Keep(y, p, z, q) /\ Others(p, y, z, new) /\ Remap(y, z, new, k, e)
    BY <2>2 DEF PageAdded
  <2>4. Keep(w, o, z, q) /\ Others(o, w, z, new)
    BY <1>0, <2>3, KeepTrans, OthersTrans
  <2>5. x = z
    BY <1>12, <1>13
  <2>6. e.pa # 0 /\ e.perm = pte.perm
    BY <1>10, <2>1 DEF CopyPte, Frames
  <2>7. ASSUME NEW u \in VA
        PROVE  IF u < k + 1
               THEN PteAt(z, new, u).pa # 0 /\ PteAt(z, new, u).perm = PteAt(w, old, u).perm
               ELSE PteAt(z, new, u) = PteAt(w, new, u)
    <3>1. PteAt(z, new, u) = IF u = k THEN e ELSE PteAt(y, new, u)
      BY <2>3 DEF Remap
    <3>2. CASE u = k
      <4>1. u < k + 1
        BY <1>0, <3>2
      <4> QED BY <1>3, <2>6, <3>1, <3>2, <4>1
    <3>3. CASE u # k
      <4>1. u < k + 1 <=> u < k
        BY <1>0, <3>3, Layout
      <4>2. IF u < k
            THEN PteAt(y, new, u).pa # 0 /\ PteAt(y, new, u).perm = PteAt(w, old, u).perm
            ELSE PteAt(y, new, u) = PteAt(w, new, u)
        BY <1>0 DEF SamePerms
      <4> QED BY <3>1, <3>3, <4>1, <4>2
    <3> QED BY <3>2, <3>3
  <2>8. SamePerms(w, z, old, new, k + 1)
    <3>1. PICK b : b = k + 1
      OBVIOUS
    <3>2. SamePerms(w, z, old, new, b)
      BY <2>7, <3>1 DEF SamePerms
    <3> QED BY <3>1, <3>2
  <2> QED BY <1>13, <2>4, <2>5, <2>8 DEF Copies
<1>14. CASE z.ret # 0
  <2>1. PICK g : g = GiveBack(z, f)
    OBVIOUS
  <2>2. PICK q : Keep(y, p, g, q) /\ SamePtes(p, y, g)
    BY <1>11, <1>14, <2>1 DEF Added
  <2>3. /\ Keep(w, o, g, q) /\ Others(o, w, g, new)
        /\ \A u \in VA : PteAt(g, new, u) = PteAt(y, new, u)
    BY <1>0, <2>2, KeepSame
  <2>4. SamePerms(w, g, old, new, k)
    BY <1>0, <2>3 DEF SamePerms
  <2>5. Copying(w, o, old, new, n, g, q, k)
    BY <2>3, <2>4 DEF Copying
  <2>6. x = Ret(UnmapFree(g, new, 0, k), -1)
    BY <1>12, <1>14, <2>1
  <2>7. x.ret = -1 /\ \E s : Keep(w, o, x, s) /\ SamePtes(o, w, x)
    BY <2>5, <2>6, CopyingFails
  <2> QED BY <2>7 DEF Copies
<1> QED BY <1>13, <1>14

LEMMA Uvmcopies ==
  ASSUME NEW w, NEW o, NEW old, NEW new, NEW n, CopyOK(w, o, old, new, n), NEW sz, n = Pages(sz),
         NEW x, x = Uvmcopy(w, old, new, sz)
  PROVE  Copies(w, o, x, old, new, n)
<1>0. Own(w, o) /\ Root_(o, old) /\ Root_(o, new) /\ n \in Nat
  BY DEF CopyOK
<1>1. PICK f : CopyTurns(f, w, old, new, n) /\ Uvmcopy(w, old, new, sz) = f[n]
  BY <1>0, UvmcopyRun
<1> DEFINE S == {k \in Nat : k <= n => Copies(w, o, f[k], old, new, k)}
<1>2. 0 \in S
  <2>1. PICK y : y = f[0]
    OBVIOUS
  <2>2. y = Ret(w, 0) /\ 0 \in Int
    BY <1>1, <2>1 DEF CopyTurns
  <2>3. Keep(w, o, w, o) /\ SamePtes(o, w, w) /\ Others(o, w, w, new)
    BY <1>0, KeepRefl DEF SamePtes, Others
  <2>4. /\ Keep(w, o, y, o) /\ y.ret = 0 /\ Others(o, w, y, new)
        /\ \A v \in VA : PteAt(y, new, v) = PteAt(w, new, v)
    BY <1>0, <2>2, <2>3, KeepRet
  <2>5. \A v \in VA : ~(v < 0)
    BY Layout
  <2>6. SamePerms(w, y, old, new, 0)
    BY <2>4, <2>5 DEF SamePerms
  <2>7. Copies(w, o, y, old, new, 0)
    BY <2>4, <2>6 DEF Copies
  <2> QED BY <2>1, <2>7
<1>3. ASSUME NEW k \in Nat, k \in S PROVE k + 1 \in S
  <2> SUFFICES ASSUME k + 1 <= n PROVE Copies(w, o, f[k + 1], old, new, k + 1)
    OBVIOUS
  <2>1. PICK y, z : y = f[k] /\ z = f[k + 1]
    OBVIOUS
  <2>2. k \in 0..(n - 1) /\ k < n /\ Copies(w, o, y, old, new, k)
    BY <1>0, <1>3, <2>1
  <2>3. z = CopyTurn(y, old, new, k)
    BY <1>1, <2>1, <2>2 DEF CopyTurns
  <2> HIDE DEF S
  <2>4. CASE y.ret = 0
    <3>1. PICK p : Keep(w, o, y, p) /\ Others(o, w, y, new) /\ SamePerms(w, y, old, new, k)
      BY <2>2, <2>4 DEF Copies
    <3>2. Copying(w, o, old, new, n, y, p, k)
      BY <2>2, <3>1 DEF Copying
    <3>3. Copies(w, o, z, old, new, k + 1)
      BY <2>3, <2>4, <3>2, CopyingOne
    <3> QED BY <2>1, <3>3
  <2>5. CASE y.ret # 0
    <3>1. z = y
      BY <2>3, <2>5 DEF CopyTurn
    <3>2. Copies(w, o, z, old, new, k + 1)
      BY <2>2, <2>5, <3>1 DEF Copies
    <3> QED BY <2>1, <3>2
  <2> QED BY <2>4, <2>5
<1> HIDE DEF S
<1>4. \A k \in Nat : k \in S
  BY <1>2, <1>3, SetInduction
<1>5. Copies(w, o, f[n], old, new, n)
  BY <1>0, <1>4 DEF S
<1> QED BY <1>1, <1>5

-----------------------------------------------------------------------------
(* Changes of what a page holds, and of one PTE.                           *)

(* The page tables are the same.                                           *)
LEMMA Refit ==
  ASSUME NEW w, NEW o, Own(w, o), NEW x \in Machine, x.pt = w.pt, x.free = w.free
  PROVE  Own(x, o) /\ SamePtes(o, w, x)
<1>1. Own(x, o)
  BY OwnFill
<1> QED BY <1>1, SamePte DEF SamePtes

FillData(w, f, d) == [w EXCEPT !.data[f] = d]

LEMMA FillFields ==
  ASSUME NEW w \in Machine, NEW f \in Frames, NEW d \in DataType, NEW x, x = FillData(w, f, d)
  PROVE  /\ x \in Machine /\ x.pt = w.pt /\ x.free = w.free /\ x.left = w.left /\ x.ret = w.ret
         /\ x.proc = w.proc /\ x.data[f] = d /\ \A g \in Frames : g # f => x.data[g] = w.data[g]
<1>1. PICK u : u = [w.data EXCEPT ![f] = d]
  OBVIOUS
<1>2. u \in [Frames -> DataType] /\ u[f] = d /\ \A g \in Frames : g # f => u[g] = w.data[g]
  BY <1>1, MachineFields
<1>3. x = [w EXCEPT !.data = u]
  BY <1>1 DEF FillData
<1> QED BY <1>2, <1>3 DEF Machine

(* A page of user memory is written to.                                    *)
LEMMA Filled ==
  ASSUME NEW w, NEW o, Own(w, o), NEW f \in Frames, o[f][1] # "loose", NEW d \in DataType,
         NEW x, x = FillData(w, f, d)
  PROVE  Keep(w, o, x, o) /\ SamePtes(o, w, x) /\ x.ret = w.ret /\ x.left = w.left /\ x.free = w.free
<1>1. w \in Machine
  BY Left
<1>2. /\ x \in Machine /\ x.pt = w.pt /\ x.free = w.free /\ x.left = w.left /\ x.ret = w.ret
      /\ x.proc = w.proc /\ \A g \in Frames : g # f => x.data[g] = w.data[g]
  BY <1>1, FillFields
<1>3. Own(x, o) /\ SamePtes(o, w, x)
  BY <1>2, Refit
<1>4. Keep(w, o, x, o)
  BY <1>2, <1>3 DEF Keep
<1> QED BY <1>2, <1>3, <1>4

(* The permissions of a page change, but not whose it is.                  *)
LeafChange(w, o, r, v, e) ==
  /\ Own(w, o) /\ Root_(o, r) /\ v \in VA /\ e \in PteType
  /\ PteAt(w, r, v).pa # 0 /\ e.pa = PteAt(w, r, v).pa /\ e.perm # {}
  /\ Mine(e) <=> Mine(PteAt(w, r, v))

LeafChanged(w, o, x, r, v, e) ==
  /\ Keep(w, o, x, o) /\ Others(o, w, x, r) /\ Remap(w, x, r, v, e)
  /\ x.ret = w.ret /\ x.left = w.left /\ x.free = w.free /\ x.data = w.data

LEMMA LeafChanges ==
  ASSUME NEW w, NEW o, NEW r, NEW v, NEW e, LeafChange(w, o, r, v, e),
         NEW x, x = SetPteAt(w, r, v, e)
  PROVE  LeafChanged(w, o, x, r, v, e)
<1> USE DEF LeafChange
<1>1. PICK t, i : t = BotOf(w, r, v) /\ i = PX(0, v)
  OBVIOUS
<1>2. t # 0 /\ t \in Frames /\ o[t][1] = "bot" /\ i \in Entries /\ w \in Machine
      /\ w.pt[t][i] = PteAt(w, r, v)
  BY <1>1, PteFacts, Path, Indices, Left
<1>3. x = SetEntry(w, t, i, e)
  BY <1>1, <1>2, SetPteFinds
<1>4. /\ x \in Machine /\ x.data = w.data /\ x.free = w.free /\ x.left = w.left
      /\ x.ret = w.ret /\ x.proc = w.proc
      /\ \A s \in Frames : s # t => x.pt[s] = w.pt[s]
      /\ \A j \in Entries : x.pt[t][j] = IF j = i THEN e ELSE w.pt[t][j]
  BY <1>2, <1>3, EntryFields
<1>5. e.pa # 0
  OBVIOUS
<1>6. EntryStep(w, o, x, t, i, e) /\ LeafSet(w, o, x, t, i, e)
  BY <1>2, <1>4, <1>5 DEF EntryStep, EntrySet, LeafSet
<1>7. Own(x, o)
  BY <1>2, <1>6, OwnEntry
<1>8. Others(o, w, x, r) /\ Remap(w, x, r, v, e)
  BY <1>1, <1>2, <1>6, <1>7, SetPtes
<1>9. Keep(w, o, x, o)
  BY <1>4, <1>7 DEF Keep
<1> QED BY <1>4, <1>8, <1>9 DEF LeafChanged

(* uvmclear(): the program can no longer reach page v.                     *)
WithoutU(e) == [e EXCEPT !.perm = @ \ {"U"}]

LEMMA Uvmclears ==
  ASSUME NEW w, NEW o, NEW r, NEW v, Own(w, o), Root_(o, r), v \in VA, PteAt(w, r, v).pa # 0,
         Mine(PteAt(w, r, v)), NEW x, x = Uvmclear(w, r, v)
  PROVE  LeafChanged(w, o, x, r, v, WithoutU(PteAt(w, r, v)))
<1>1. PICK t, i, a : t = BotOf(w, r, v) /\ i = PX(0, v) /\ a = PteAt(w, r, v)
  OBVIOUS
<1>2. t # 0 /\ t \in Frames /\ i \in Entries /\ w \in Machine /\ t \in Int /\ w.pt[t][i] = a
  BY <1>1, PteFacts, Path, Indices, Left
<1>3. a \in PteType /\ a.pa # 0 /\ Mine(a) /\ a.perm \in SUBSET (UserPerm \cup {"A"})
  BY <1>1, PteFacts
<1>4. PICK e : e = WithoutU(a)
  OBVIOUS
<1>5. e.pa = a.pa /\ e.perm = a.perm \ {"U"} /\ e \in PteType
  BY <1>3, <1>4 DEF WithoutU, PteType
<1>6. Mine(e) /\ e.perm # {}
  BY <1>3, <1>5 DEF Mine
<1>7. LeafChange(w, o, r, v, e)
  BY <1>1, <1>3, <1>5, <1>6 DEF LeafChange
<1>8. Find(w, r, v) = Ret(w, t)
  BY <1>1, WalkFinds
<1>9. Find(w, r, v).ret = t
  BY <1>2, <1>8, RetFields
<1>10. x = [w EXCEPT !.pt[t][i].perm = @ \ {"U"}]
  BY <1>1, <1>2, <1>9 DEF Uvmclear, Find
<1>11. w.pt \in [Frames -> [Entries -> PteType]]
  BY <1>2, MachineFields
<1>12. x = SetEntry(w, t, i, e)
  BY <1>2, <1>4, <1>10, <1>11 DEF SetEntry, WithoutU
<1>13. x = SetPteAt(w, r, v, e)
  BY <1>1, <1>2, <1>12, SetPteFinds
<1>14. LeafChanged(w, o, x, r, v, e)
  BY <1>7, <1>13, LeafChanges
<1> QED BY <1>1, <1>4, <1>14

(* copyout(): what the program can reach belongs to the program.           *)
Reachable(w, r) == \A v \in VA : "U" \in PteAt(w, r, v).perm => PteAt(w, r, v).pa \in Frames

LEMMA Walkaddrs ==
  ASSUME NEW w, NEW r, Reachable(w, r), NEW va \in Nat, NEW a, a = Walkaddr(w, r, va)
  PROVE  a = 0 \/ (va \in VA /\ a = PteAt(w, r, va).pa /\ "U" \in PteAt(w, r, va).perm /\ a \in Frames)
<1>1. va \in VA <=> ~(va >= MAXVA)
  BY Layout DEF VA
<1>2. CASE va >= MAXVA
  BY <1>2 DEF Walkaddr, NoPte
<1>3. CASE ~(va >= MAXVA)
  BY <1>1, <1>3 DEF Walkaddr, Reachable
<1> QED BY <1>2, <1>3

Written(w, o, x, r, va, d) ==
  /\ va \in VA /\ "U" \in PteAt(w, r, va).perm /\ x.ret = 0
  /\ Own(x, o) /\ SamePtes(o, w, x) /\ x.proc = w.proc /\ x.left = w.left /\ x.free = w.free
  /\ \A g \in Frames : x.data[g] = IF g = PteAt(w, r, va).pa THEN d ELSE w.data[g]

LEMMA Copyouts ==
  ASSUME NEW w, NEW o, Own(w, o), NEW r, Root_(o, r), Reachable(w, r), NEW va \in Nat,
         NEW d \in DataType, NEW x, x = Copyout(w, r, va, d)
  PROVE  \/ x.ret = -1 /\ Returned(w, o, x) /\ (va \in VA => "U" \notin PteAt(w, r, va).perm)
         \/ Written(w, o, x, r, va, d)
<1>1. PICK a : a = Walkaddr(w, r, va)
  OBVIOUS
<1>2. a = 0 \/ (va \in VA /\ a = PteAt(w, r, va).pa /\ "U" \in PteAt(w, r, va).perm /\ a \in Frames)
  BY <1>1, Walkaddrs
<1>3. CASE a = 0
  <2>1. x = Ret(w, -1)
    BY <1>1, <1>3 DEF Copyout
  <2>2. va \in VA => "U" \notin PteAt(w, r, va).perm
    <3> SUFFICES ASSUME va \in VA, "U" \in PteAt(w, r, va).perm PROVE FALSE
      OBVIOUS
    <3>1. ~(va >= MAXVA)
      BY Layout DEF VA
    <3>2. a = PteAt(w, r, va).pa /\ a \in Frames
      BY <1>1, <3>1 DEF Walkaddr, Reachable
    <3> QED BY <1>3, <3>2 DEF Frames
  <2> QED BY <2>1, <2>2, RetError
<1>4. CASE a # 0
  <2>1. va \in VA /\ a = PteAt(w, r, va).pa /\ "U" \in PteAt(w, r, va).perm /\ a \in Frames /\ w \in Machine
    BY <1>2, <1>4, Left
  <2>2. PICK y : y = FillData(w, a, d)
    OBVIOUS
  <2>3. /\ y \in Machine /\ y.pt = w.pt /\ y.free = w.free /\ y.left = w.left /\ y.ret = w.ret
        /\ y.proc = w.proc /\ y.data[a] = d /\ \A g \in Frames : g # a => y.data[g] = w.data[g]
    BY <2>1, <2>2, FillFields
  <2>4. x = Ret(y, 0)
    BY <1>1, <1>4, <2>2 DEF Copyout, FillData
  <2>5. /\ x \in Machine /\ x.pt = y.pt /\ x.data = y.data /\ x.free = y.free
        /\ x.left = y.left /\ x.ret = 0 /\ x.proc = y.proc
    <3>1. 0 \in Int
      OBVIOUS
    <3> QED BY <2>3, <2>4, <3>1, RetFields
  <2>6. Own(x, o) /\ SamePtes(o, w, x)
    BY <2>3, <2>5, Refit
  <2> QED BY <2>1, <2>3, <2>5, <2>6 DEF Written
<1> QED BY <1>3, <1>4

-----------------------------------------------------------------------------
(* What a system call does to the page tables and the pages of the kernel: *)
(* only those in R can change.                                             *)
Held(l) == l[1] \in {"root", "loose"}

Touch(w, o, x, p, R) ==
  /\ Own(x, p)
  /\ \A f \in Frames : f \notin R => p[f] = o[f] \/ (~Held(o[f]) /\ ~Held(p[f]))
  /\ \A f \in Frames : f \notin R /\ o[f][1] = "loose" => x.data[f] = w.data[f]
  /\ \A s : Root_(o, s) /\ s \notin R => \A v \in VA : PteAt(x, s, v) = PteAt(w, s, v)

LEMMA TouchRefl == ASSUME NEW w, NEW o, Own(w, o) PROVE Touch(w, o, w, o, {})
BY DEF Touch

LEMMA TouchRoots ==
  ASSUME NEW w, NEW o, NEW x, NEW p, NEW R, Touch(w, o, x, p, R), NEW f \in Frames, f \notin R
  PROVE  /\ Held(o[f]) \/ Held(p[f]) => p[f] = o[f]
         /\ Root_(p, f) <=> Root_(o, f)
         /\ p[f][1] = "loose" <=> o[f][1] = "loose"
BY DEF Touch, Held, Root_

LEMMA TouchTrans ==
  ASSUME NEW w, NEW o, NEW x, NEW p, NEW R, Touch(w, o, x, p, R), NEW y, NEW q, NEW T,
         Touch(x, p, y, q, T)
  PROVE  Touch(w, o, y, q, R \cup T)
<1>1. Own(y, q)
  BY DEF Touch
<1>2. ASSUME NEW f \in Frames, f \notin R \cup T
      PROVE  q[f] = o[f] \/ (~Held(o[f]) /\ ~Held(q[f]))
  BY <1>2 DEF Touch
<1>3. ASSUME NEW f \in Frames, f \notin R \cup T, o[f][1] = "loose" PROVE y.data[f] = w.data[f]
  <2>1. p[f][1] = "loose"
    BY <1>3, TouchRoots
  <2> QED BY <1>3, <2>1 DEF Touch
<1>4. ASSUME NEW s, Root_(o, s), s \notin R \cup T, NEW v \in VA PROVE PteAt(y, s, v) = PteAt(w, s, v)
  <2>1. s \in Frames
    BY <1>4 DEF Root_
  <2>2. Root_(p, s)
    BY <1>4, <2>1, TouchRoots
  <2> QED BY <1>4, <2>2 DEF Touch
<1> QED BY <1>1, <1>2, <1>3, <1>4 DEF Touch

LEMMA TouchMore ==
  ASSUME NEW w, NEW o, NEW x, NEW p, NEW R, Touch(w, o, x, p, R), NEW T, R \subseteq T
  PROVE  Touch(w, o, x, p, T)
<1>1. \A f : f \notin T => f \notin R
  OBVIOUS
<1> QED BY <1>1 DEF Touch

(* A page that has been used in between does not count.                    *)
LEMMA TouchLess ==
  ASSUME NEW w, NEW o, NEW x, NEW p, NEW R, Touch(w, o, x, p, R), NEW T,
         \A f \in Frames : f \in R /\ f \notin T => ~Held(o[f]) /\ ~Held(p[f])
  PROVE  Touch(w, o, x, p, T)
<1>1. ASSUME NEW f \in Frames, f \notin T PROVE p[f] = o[f] \/ (~Held(o[f]) /\ ~Held(p[f]))
  BY <1>1 DEF Touch
<1>2. ASSUME NEW f \in Frames, f \notin T, o[f][1] = "loose" PROVE x.data[f] = w.data[f]
  BY <1>2 DEF Touch, Held
<1>3. ASSUME NEW s, Root_(o, s), s \notin T, NEW v \in VA PROVE PteAt(x, s, v) = PteAt(w, s, v)
  <2>1. s \in Frames /\ Held(o[s])
    BY <1>3 DEF Root_, Held
  <2> QED BY <1>3, <2>1 DEF Touch
<1> QED BY <1>1, <1>2, <1>3 DEF Touch

LEMMA TouchSame ==
  ASSUME NEW w, NEW o, NEW x, NEW p, Keep(w, o, x, p), SamePtes(o, w, x)
  PROVE  Touch(w, o, x, p, {})
BY DEF Keep, SamePtes, Touch, Held

LEMMA TouchKeep ==
  ASSUME NEW w, NEW o, NEW x, NEW p, NEW r, Keep(w, o, x, p), Others(o, w, x, r)
  PROVE  Touch(w, o, x, p, {r})
<1>1. \A f : f \notin {r} => f # r
  OBVIOUS
<1> QED BY <1>1 DEF Keep, Others, Touch, Held

LEMMA TouchGone ==
  ASSUME NEW w, NEW o, NEW x, NEW p, NEW r, Gone(w, o, x, p, r)
  PROVE  Touch(w, o, x, p, {r})
<1>1. \A f : f \notin {r} => f # r
  OBVIOUS
<1> QED BY <1>1 DEF Gone, Others, Touch, Held

LEMMA TouchNew ==
  ASSUME NEW w, NEW o, Own(w, o), NEW y, NEW n, NEW f, NewMem(w, o, y, n, f)
  PROVE  Touch(w, o, y, n, {f})
<1>1. \A g \in Frames : g \notin {f} => n[g] = o[g]
  BY PutFields DEF NewMem, Own
<1>2. Own(y, n)
  BY DEF NewMem
<1>3. \A g \in Frames : g \notin {f} /\ o[g][1] = "loose" => y.data[g] = w.data[g]
  BY DEF NewMem
<1>4. \A s : Root_(o, s) /\ s \notin {f} => \A v \in VA : PteAt(y, s, v) = PteAt(w, s, v)
  BY DEF NewMem, SamePtes
<1> QED BY <1>1, <1>2, <1>3, <1>4 DEF Touch

LEMMA TouchPut ==
  ASSUME NEW w, NEW o, Own(w, o), NEW f \in Frames, NEW l, NEW p, p = Put(o, f, l), Own(w, p)
  PROVE  Touch(w, o, w, p, {f})
<1>1. \A g \in Frames : g \notin {f} => p[g] = o[g]
  BY PutFields DEF Own
<1> QED BY <1>1 DEF Touch

LEMMA TouchRefit ==
  ASSUME NEW w, NEW o, Own(w, o), NEW x \in Machine, x.pt = w.pt, x.free = w.free, x.data = w.data
  PROVE  Touch(w, o, x, o, {}) /\ Own(x, o) /\ SamePtes(o, w, x)
<1>1. Own(x, o) /\ SamePtes(o, w, x)
  BY Refit
<1> QED BY <1>1 DEF Touch, SamePtes

(* A page of the kernel is freed.                                          *)
LEMMA TouchKfree ==
  ASSUME NEW w, NEW o, Own(w, o), NEW f \in Frames, o[f][1] = "loose", NEW x, x = Kfree(w, f)
  PROVE  /\ Touch(w, o, x, Put(o, f, Free), {f}) /\ x.proc = w.proc
         /\ x.ret = w.ret /\ x.left = w.left
<1>1. w \in Machine /\ f \notin w.free
  BY Left DEF Own
<1>2. f \in Frames \ w.free
  BY <1>1
<1>3. /\ x \in Machine /\ \A g \in Frames : g # f => x.pt[g] = w.pt[g] /\ x.data[g] = w.data[g]
      /\ x.free = w.free \cup {f} /\ x.left = w.left /\ x.ret = w.ret /\ x.proc = w.proc
  BY <1>1, <1>2, KfreeFields
<1>4. PICK p : p = Put(o, f, Free)
  OBVIOUS
<1>5. Own(x, p)
  BY <1>3, <1>4, OwnFree
<1>6. \A g \in Frames : g # f => p[g] = o[g]
  BY <1>4, PutFields DEF Own
<1>7. ASSUME NEW s, Root_(o, s), NEW v \in VA PROVE PteAt(x, s, v) = PteAt(w, s, v)
  <2>1. s \in Frames /\ s # f
    BY <1>7 DEF Root_
  <2>2. Root_(p, s)
    BY <1>6, <1>7, <2>1 DEF Root_
  <2>3. \A t \in Frames : t = s \/ o[t][1] \in {"mid", "bot"} => x.pt[t] = w.pt[t]
    BY <1>3, <2>1
  <2> QED BY <1>5, <1>7, <2>2, <2>3, SamePte
<1>8. Touch(w, o, x, p, {f})
  BY <1>3, <1>5, <1>6, <1>7 DEF Touch
<1> QED BY <1>3, <1>4, <1>8

(* What a system call writes to.                                           *)
LEMMA TouchWritten ==
  ASSUME NEW w, NEW o, NEW x, NEW r, NEW va, NEW d, Written(w, o, x, r, va, d),
         NEW a, a = PteAt(w, r, va).pa
  PROVE  Touch(w, o, x, o, {a}) /\ (a \in Frames /\ o[a][1] # "loose" => Touch(w, o, x, o, {}))
<1>1. \A g \in Frames : g # a => x.data[g] = w.data[g]
  BY DEF Written
<1>2. Own(x, o) /\ SamePtes(o, w, x)
  BY DEF Written
<1>3. Touch(w, o, x, o, {a})
  BY <1>1, <1>2 DEF Touch, SamePtes
<1>4. ASSUME a \in Frames, o[a][1] # "loose" PROVE Touch(w, o, x, o, {})
  BY <1>1, <1>2, <1>4 DEF Touch, SamePtes
<1> QED BY <1>3, <1>4

(* What is returned after that.                                            *)
LEMMA TouchRet ==
  ASSUME NEW w, NEW o, NEW y, NEW p, NEW R, Touch(w, o, y, p, R), NEW a \in Int, NEW x, x = Ret(y, a)
  PROVE  /\ Touch(w, o, x, p, R) /\ x.ret = a /\ x.proc = y.proc /\ x.data = y.data
         /\ x.left = y.left /\ x.free = y.free /\ SamePtes(p, y, x)
<1>1. Own(y, p) /\ y \in Machine
  BY Left DEF Touch
<1>2. /\ x \in Machine /\ x.pt = y.pt /\ x.data = y.data /\ x.free = y.free
      /\ x.left = y.left /\ x.ret = a /\ x.proc = y.proc
  BY <1>1, RetFields
<1>3. Touch(y, p, x, p, {}) /\ SamePtes(p, y, x)
  BY <1>1, <1>2, TouchRefit
<1>4. Touch(w, o, x, p, R \cup {})
  BY <1>3, TouchTrans
<1>5. R \cup {} = R
  OBVIOUS
<1> QED BY <1>2, <1>3, <1>4, <1>5

LEMMA TouchError ==
  ASSUME NEW w, NEW o, NEW y, NEW p, NEW R, Touch(w, o, y, p, R), NEW x, x = Ret(y, -1)
  PROVE  Touch(w, o, x, p, R) /\ x.ret = -1 /\ x.proc = y.proc /\ x.data = y.data /\ SamePtes(p, y, x)
<1>1. PICK a \in Int : a = -1
  OBVIOUS
<1>2. x = Ret(y, a)
  BY <1>1
<1>3. Touch(w, o, x, p, R) /\ x.ret = a /\ x.proc = y.proc /\ x.data = y.data /\ SamePtes(p, y, x)
  BY <1>2, TouchRet
<1> QED BY <1>1, <1>3

LEMMA SpendsSame ==
  ASSUME NEW w, NEW y, NEW x, NEW n, x.left = y.left, x.free = y.free, Spends(w, y, n)
  PROVE  Spends(w, x, n)
BY DEF Spends, Room

-----------------------------------------------------------------------------
(* uvmcreate(): a page table that maps nothing.                            *)
Created(w, o, x, p) ==
  /\ x.proc = w.proc /\ Spends(w, x, 1) /\ (Ample(w, 1) => x.ret # 0)
  /\ x.ret = 0 => Touch(w, o, x, p, {})
  /\ x.ret # 0 => /\ x.ret \in Frames /\ ~Held(o[x.ret]) /\ p[x.ret] = <<"root", 0, 0>>
                  /\ Touch(w, o, x, p, {x.ret}) /\ Vacant(x, x.ret)

LEMMA Uvmcreates ==
  ASSUME NEW w, NEW o, Own(w, o), NEW x, x = Uvmcreate(w)
  PROVE  \E p : Created(w, o, x, p)
<1>1. PICK k : k = Kalloc(w)
  OBVIOUS
<1>2. /\ k \in Machine /\ k.ret \in Int
      /\ k.ret = 0 => NoMem(w, o, k)
      /\ k.ret # 0 => k.ret \in Frames /\ NewMem(w, o, k, Put(o, k.ret, New), k.ret)
  BY <1>1, KallocNew
<1>3. k.proc = w.proc /\ Spends(w, k, 1) /\ (Ample(w, 1) => k.ret # 0)
  BY <1>1, KallocOwn DEF Spends, Ample
<1>4. x = Memset0(k, k.ret)
  BY <1>1 DEF Uvmcreate
<1>5. CASE k.ret = 0
  <2>1. x = k
    BY <1>4, <1>5 DEF Memset0
  <2>2. Touch(w, o, k, o, {})
    BY <1>2, <1>5, TouchSame DEF NoMem
  <2>3. Created(w, o, x, o)
    BY <1>3, <1>5, <2>1, <2>2 DEF Created
  <2> QED BY <2>3
<1>6. CASE k.ret # 0
  <2>1. PICK f, n : f = k.ret /\ n = Put(o, f, New)
    OBVIOUS
  <2>2. f \in Frames /\ NewMem(w, o, k, n, f)
    BY <1>2, <1>6, <2>1
  <2>3. /\ x \in Machine /\ x.pt[f] = EmptyTable
        /\ \A g \in Frames : g # f => x.pt[g] = k.pt[g] /\ x.data[g] = k.data[g]
        /\ x.free = k.free /\ x.left = k.left /\ x.ret = f /\ x.proc = k.proc
    BY <1>2, <1>4, <2>1, <2>2, MemsetFields
  <2>4. NewMem(w, o, x, n, f)
    BY <2>2, <2>3, FillNew
  <2>5. n[f] = New /\ Own(x, n)
    BY <2>2, <2>4, PutFields DEF NewMem, Own
  <2>6. \A i \in Entries : x.pt[f][i] = NoPte
    BY <2>3 DEF EmptyTable
  <2>7. PICK p : p = Put(n, f, <<"root", 0, 0>>)
    OBVIOUS
  <2>8. Own(x, p)
    <3>1. n[f][1] = "loose" /\ 0 \in Nat
      BY <2>5 DEF New
    <3> QED BY <2>2, <2>5, <2>6, <2>7, <3>1, OwnRoot
  <2>9. p[f] = <<"root", 0, 0>>
    BY <2>2, <2>5, <2>7, PutFields DEF Own
  <2>10. Touch(w, o, x, n, {f})
    BY <2>4, TouchNew
  <2>11. Touch(x, n, x, p, {f})
    BY <2>2, <2>5, <2>7, <2>8, TouchPut
  <2>12. Touch(w, o, x, p, {f})
    <3>1. {f} \cup {f} = {f}
      OBVIOUS
    <3>2. Touch(w, o, x, p, {f} \cup {f})
      BY <2>10, <2>11, TouchTrans
    <3> QED BY <3>1, <3>2
  <2>13. Vacant(x, f)
    <3>1. Root_(p, f)
      BY <2>2, <2>9 DEF Root_
    <3>2. ASSUME NEW v \in VA PROVE PteAt(x, f, v).pa = 0
      <4>1. PX(2, v) \in Entries
        BY Indices
      <4>2. x.pt[f][PX(2, v)].pa = 0
        BY <2>6, <4>1 DEF NoPte
      <4>3. LeafOf(x, f, v) = NoPte
        BY <4>2 DEF LeafOf, BotOf, MidOf
      <4>4. PteAt(x, f, v) = LeafOf(x, f, v)
        BY <2>8, <3>1, PteLeaf
      <4> QED BY <4>3, <4>4 DEF NoPte
    <3> QED BY <3>2 DEF Vacant
  <2>14. f # 0 /\ ~Held(o[f])
    BY <2>2, <2>4 DEF NewMem, Held, Frames
  <2>15. Spends(w, x, 1)
    BY <1>3, <2>3, SpendsSame
  <2>16. Created(w, o, x, p)
    BY <1>3, <2>2, <2>3, <2>9, <2>12, <2>13, <2>14, <2>15 DEF Created
  <2> QED BY <2>16
<1> QED BY <1>5, <1>6

-----------------------------------------------------------------------------
(* proc_pagetable().                                                       *)

(* The three pages at the top, for the slot q.                             *)
TopPte(q, v) ==
  IF v = TRAMPOLINE THEN [pa |-> TrampolinePa, perm |-> {"R", "X"}]
  ELSE IF v = TRAPFRAME THEN [pa |-> q.trapframe, perm |-> {"R", "W"}]
  ELSE [pa |-> q.usyscall, perm |-> {"R", "U"}]

TopTurn(x, q, n) ==
  IF x.ret = 0 THEN x
  ELSE TopMapped(Mappages(x, x.ret, TopPages(q)[n].va, TopPages(q)[n].pa, TopPages(q)[n].perm),
                 x.ret, n - 1)

LEMMA TopEntry ==
  ASSUME NEW q, q.trapframe \in Frames, q.usyscall \in Frames, NEW n \in 1..3,
         NEW e, e = TopPte(q, MAXVA - n)
  PROVE  /\ TopPages(q)[n].va = MAXVA - n /\ MAXVA - n \in VA
         /\ TopPages(q)[n].pa = e.pa /\ TopPages(q)[n].perm = e.perm
         /\ e \in PteType /\ e.pa # 0 /\ e.perm # {} /\ ~Mine(e)
<1>1. /\ TRAPFRAME = USYSCALL + 1 /\ TRAMPOLINE = USYSCALL + 2 /\ MAXVA = USYSCALL + 3
      /\ USYSCALL \in Nat
  BY Layout
<1>2. TrampolinePa \in 0..TrampolinePa /\ TrampolinePa # 0
      /\ q.trapframe \in 0..TrampolinePa /\ q.usyscall \in 0..TrampolinePa
      /\ q.trapframe # 0 /\ q.usyscall # 0
  BY DEF TrampolinePa, Frames
<1>3. MAXVA - n \in VA
  BY <1>1 DEF VA
<1>4. CASE n = 1
  <2>1. e = [pa |-> TrampolinePa, perm |-> {"R", "X"}] /\ MAXVA - n = TRAMPOLINE
    BY <1>1, <1>4 DEF TopPte
  <2>2. TopPages(q)[n] = [va |-> TRAMPOLINE, pa |-> TrampolinePa, perm |-> {"R", "X"}]
    BY <1>4 DEF TopPages
  <2> QED BY <1>2, <1>3, <2>1, <2>2 DEF PteType, UserPerm, Mine
<1>5. CASE n = 2
  <2>1. e = [pa |-> q.trapframe, perm |-> {"R", "W"}] /\ MAXVA - n = TRAPFRAME
    BY <1>1, <1>5 DEF TopPte
  <2>2. TopPages(q)[n] = [va |-> TRAPFRAME, pa |-> q.trapframe, perm |-> {"R", "W"}]
    BY <1>5 DEF TopPages
  <2> QED BY <1>2, <1>3, <2>1, <2>2 DEF PteType, UserPerm, Mine
<1>6. CASE n = 3
  <2>1. e = [pa |-> q.usyscall, perm |-> {"R", "U"}] /\ MAXVA - n = USYSCALL
    BY <1>1, <1>6 DEF TopPte
  <2>2. TopPages(q)[n] = [va |-> USYSCALL, pa |-> q.usyscall, perm |-> {"R", "U"}]
    BY <1>6 DEF TopPages
  <2> QED BY <1>2, <1>3, <2>1, <2>2 DEF PteType, UserPerm, Mine
<1> QED BY <1>4, <1>5, <1>6

(* The first n of them are mapped, and nothing else.                       *)
TopsAre(x, c, q, n) ==
  \A v \in VA : IF v >= MAXVA - n THEN PteAt(x, c, v) = TopPte(q, v) ELSE PteAt(x, c, v).pa = 0

Tops(w, o, x, p, q, n) ==
  /\ x.proc = w.proc
  /\ x.ret = 0 => Touch(w, o, x, p, {})
  /\ x.ret # 0 => /\ x.ret \in Frames /\ ~Held(o[x.ret]) /\ p[x.ret] = <<"root", 0, 0>>
                  /\ Touch(w, o, x, p, {x.ret}) /\ TopsAre(x, x.ret, q, n)
  /\ Ample(w, 7) => x.ret # 0 /\ Spends(w, x, 1 + 2 * n)

(* mappages() of the next has failed.                                      *)
TopFailing(w, o, y, p, c, q, n) ==
  /\ n \in 0..2 /\ q.trapframe \in Frames /\ q.usyscall \in Frames
  /\ c \in Frames /\ ~Held(o[c]) /\ p[c] = <<"root", 0, 0>>
  /\ Touch(w, o, y, p, {c}) /\ TopsAre(y, c, q, n) /\ y.ret # 0

LEMMA TopFails ==
  ASSUME NEW w, NEW o, NEW y, NEW p, NEW c, NEW q, NEW n, TopFailing(w, o, y, p, c, q, n),
         NEW x, x = TopMapped(y, c, n)
  PROVE  x.ret = 0 /\ x.proc = y.proc /\ \E s : Touch(w, o, x, s, {})
<1> USE DEF TopFailing
<1>1. PICK z : z = FreeSpace(y, c, 0, n)
  OBVIOUS
<1>2. x = Ret(z, 0)
  <2>1. Pages(0) = 0
    <3>1. 0 \in Nat /\ 0 <= PGSIZE * 0
      OBVIOUS
    <3>2. Pages(0) \in Nat /\ Pages(0) <= 0
      BY <3>1, PagesLeast
    <3> QED BY <3>2
  <2>2. x = Ret(Uvmfree(UnmapOnly(y, c, MAXVA - n, n), c, 0), 0)
    BY Zenon DEF TopMapped, UnmapOnly
  <2>3. Uvmfree(UnmapOnly(y, c, MAXVA - n, n), c, 0) = Freewalk(UnmapFree(UnmapOnly(y, c, MAXVA - n, n), c, 0, 0), c)
    BY <2>1, Zenon DEF Uvmfree, UnmapFree
  <2> QED BY <1>1, <2>2, <2>3, Zenon DEF FreeSpace
<1>3. Own(y, p) /\ Root_(p, c)
  BY DEF Touch, Root_
<1>4. SpaceIs(y, c, 0, n)
  <2>1. ASSUME NEW v \in VA
        PROVE  LET e == PteAt(y, c, v)
               IN IF v >= MAXVA - n THEN e.pa # 0 /\ ~Mine(e)
                  ELSE IF v < 0 THEN e.pa # 0 /\ Mine(e)
                  ELSE e.pa = 0
    <3>1. ~(v < 0)
      BY Layout
    <3>2. CASE v >= MAXVA - n
      <4>1. PICK k \in 1..3 : v = MAXVA - k
        <5>1. PICK k : k = MAXVA - v
          OBVIOUS
        <5>2. k \in 1..3 /\ v = MAXVA - k
          BY <3>2, <5>1, Layout DEF VA
        <5> QED BY <5>2
      <4>2. TopPte(q, v).pa # 0 /\ ~Mine(TopPte(q, v))
        BY <4>1, TopEntry
      <4> QED BY <3>2, <4>2 DEF TopsAre
    <3>3. CASE ~(v >= MAXVA - n)
      BY <3>1, <3>3 DEF TopsAre
    <3> QED BY <3>2, <3>3
  <2> QED BY <2>1 DEF SpaceIs
<1>5. Space(y, p, c, 0, n)
  <2>1. 0 \in Nat /\ n \in Nat /\ 0 + n <= MAXVA
    BY Layout
  <2> QED BY <1>3, <1>4, <2>1 DEF Space
<1>6. PICK s : Gone(y, p, z, s, c)
  BY <1>1, <1>5, SpaceFreed
<1>7. Touch(y, p, z, s, {c}) /\ s[c] = Free /\ z.proc = y.proc
  BY <1>6, TouchGone DEF Gone
<1>8. Touch(w, o, z, s, {c} \cup {c})
  BY <1>7, TouchTrans
<1>9. Touch(w, o, z, s, {})
  BY <1>7, <1>8, TouchLess DEF Held, Free
<1>10. Touch(w, o, x, s, {}) /\ x.ret = 0 /\ x.proc = z.proc
  <2>1. 0 \in Int
    OBVIOUS
  <2> QED BY <1>2, <1>9, <2>1, TouchRet
<1> QED BY <1>7, <1>10

LEMMA TopNext ==
  ASSUME NEW w, NEW o, Own(w, o), NEW y, NEW p, NEW q, q.trapframe \in Frames, q.usyscall \in Frames,
         NEW n \in 1..3, Tops(w, o, y, p, q, n - 1), NEW x, x = TopTurn(y, q, n)
  PROVE  \E s : Tops(w, o, x, s, q, n)
<1>0. w.left \in Nat
  BY Left
<1>1. CASE y.ret = 0
  <2>1. x = y
    BY <1>1 DEF TopTurn
  <2>2. Tops(w, o, x, p, q, n)
    BY <1>1, <2>1 DEF Tops
  <2> QED BY <2>2
<1>2. CASE y.ret # 0
  <2>1. PICK c, m1, v : c = y.ret /\ m1 = n - 1 /\ v = MAXVA - n
    OBVIOUS
  <2>2. m1 \in 0..2 /\ m1 \in Nat /\ n = m1 + 1
    BY <2>1
  <2>3. /\ c \in Frames /\ ~Held(o[c]) /\ p[c] = <<"root", 0, 0>>
        /\ Touch(w, o, y, p, {c}) /\ TopsAre(y, c, q, m1) /\ y.proc = w.proc
        /\ Ample(w, 7) => Spends(w, y, 1 + 2 * m1)
    BY <1>2, <2>1 DEF Tops
  <2>4. PICK e : e = TopPte(q, v)
    OBVIOUS
  <2>5. /\ TopPages(q)[n].va = v /\ v \in VA /\ TopPages(q)[n].pa = e.pa /\ TopPages(q)[n].perm = e.perm
        /\ e \in PteType /\ e.pa # 0 /\ e.perm # {} /\ ~Mine(e)
    BY <2>1, <2>4, TopEntry
  <2>6. PICK z : z = MapAt(y, c, v, e)
    OBVIOUS
  <2>7. x = TopMapped(z, c, m1)
    BY <1>2, <2>1, <2>5, <2>6 DEF TopTurn, MapAt
  <2>8. Own(y, p) /\ Root_(p, c) /\ y.left \in Nat
    BY <2>3, Left DEF Touch, Root_
  <2>9. PteAt(y, c, v).pa = 0
    <3>1. ~(v >= MAXVA - m1)
      BY <2>1, <2>2, Layout
    <3> QED BY <2>3, <2>5, <3>1 DEF TopsAre
  <2>10. PICK s : TopMap(y, p, z, s, c, v, e)
    BY <2>5, <2>6, <2>8, <2>9, MapTopPage
  <2>11. /\ Keep(y, p, z, s) /\ z.ret \in {0, -1} /\ Spends(y, z, 2) /\ (Ample(y, 2) => z.ret = 0)
         /\ z.proc = y.proc /\ z.left \in Nat /\ s[c] = p[c]
    <3>1. Keep(y, p, z, s) /\ z.ret \in {0, -1} /\ Spends(y, z, 2) /\ (Ample(y, 2) => z.ret = 0)
      BY <2>10 DEF TopMap
    <3>2. s[c] = p[c]
      BY <2>3, <3>1 DEF Keep
    <3> QED BY <3>1, <3>2, KeepOwn
  <2>12. Ample(w, 7) => z.ret = 0 /\ Spends(w, z, 1 + 2 * n)
    <3> SUFFICES ASSUME Ample(w, 7) PROVE z.ret = 0 /\ Spends(w, z, 1 + 2 * n)
      OBVIOUS
    <3>1. PICK a \in Nat : a = 1 + 2 * m1
      BY <2>2
    <3>2. Spends(w, y, a)
      BY <2>3, <3>1
    <3>3. 7 >= a + 2 /\ a + 2 = 1 + 2 * n /\ 2 \in Nat /\ 7 \in Nat
      BY <2>2, <3>1
    <3>4. Ample(y, 2)
      BY <1>0, <2>8, <3>2, <3>3, AmpleAfter
    <3>5. Spends(w, z, a + 2)
      BY <1>0, <2>8, <2>11, <3>2, <3>3, SpendsTrans
    <3> QED BY <2>11, <3>3, <3>4, <3>5
  <2>13. CASE z.ret = 0
    <3>1. Others(p, y, z, c) /\ Remap(y, z, c, v, e)
      BY <2>10, <2>13 DEF TopMap
    <3>2. Touch(y, p, z, s, {c})
      BY <2>11, <3>1, TouchKeep
    <3>3. Touch(w, o, z, s, {c})
      <4>1. {c} \cup {c} = {c}
        OBVIOUS
      <4>2. Touch(w, o, z, s, {c} \cup {c})
        BY <2>3, <3>2, TouchTrans
      <4> QED BY <4>1, <4>2
    <3>4. x = Ret(z, c) /\ c \in Int
      BY <2>3, <2>7, <2>13 DEF TopMapped, Frames
    <3>5. /\ Touch(w, o, x, s, {c}) /\ x.ret = c /\ x.proc = z.proc
          /\ x.left = z.left /\ x.free = z.free /\ SamePtes(s, z, x)
      BY <3>3, <3>4, TouchRet
    <3>6. Root_(s, c)
      BY <2>3, <2>11 DEF Root_
    <3>7. TopsAre(x, c, q, n)
      <4>1. ASSUME NEW u \in VA
            PROVE  IF u >= MAXVA - n THEN PteAt(x, c, u) = TopPte(q, u) ELSE PteAt(x, c, u).pa = 0
        <5>1. PteAt(x, c, u) = IF u = v THEN e ELSE PteAt(y, c, u)
          BY <3>1, <3>5, <3>6 DEF Remap, SamePtes
        <5>2. CASE u = v
          <6>1. u >= MAXVA - n
            BY <2>1, <5>2, Layout
          <6> QED BY <2>4, <5>1, <5>2, <6>1
        <5>3. CASE u # v
          <6>1. u >= MAXVA - n <=> u >= MAXVA - m1
            BY <2>1, <2>2, <5>3, Layout
          <6> QED BY <2>3, <5>1, <5>3, <6>1 DEF TopsAre
        <5> QED BY <5>2, <5>3
      <4> QED BY <4>1 DEF TopsAre
    <3>8. Ample(w, 7) => Spends(w, x, 1 + 2 * n)
      BY <2>12, <3>5, SpendsSame
    <3>9. c # 0
      BY <2>3 DEF Frames
    <3>10. Tops(w, o, x, s, q, n)
      BY <2>3, <2>11, <3>5, <3>7, <3>8, <3>9 DEF Tops
    <3> QED BY <3>10
  <2>14. CASE z.ret # 0
    <3>1. SamePtes(p, y, z)
      BY <2>10, <2>14 DEF TopMap
    <3>2. Touch(y, p, z, s, {})
      BY <2>11, <3>1, TouchSame
    <3>3. Touch(w, o, z, s, {c})
      <4>1. {c} \cup {} = {c}
        OBVIOUS
      <4>2. Touch(w, o, z, s, {c} \cup {})
        BY <2>3, <3>2, TouchTrans
      <4> QED BY <4>1, <4>2
    <3>4. TopsAre(z, c, q, m1)
      BY <2>3, <2>8, <3>1 DEF TopsAre, SamePtes
    <3>5. PICK t : x.ret = 0 /\ x.proc = z.proc /\ Touch(w, o, x, t, {})
      <4>1. TopFailing(w, o, z, s, c, q, m1)
        BY <2>2, <2>3, <2>11, <2>14, <3>3, <3>4 DEF TopFailing
      <4> QED BY <2>7, <4>1, TopFails
    <3>6. ~Ample(w, 7)
      BY <2>12, <2>14
    <3>7. Tops(w, o, x, t, q, n)
      BY <2>3, <2>11, <3>5, <3>6 DEF Tops
    <3> QED BY <3>7
  <2> QED BY <2>13, <2>14
<1> QED BY <1>1, <1>2

(* An address space with n pages of user memory, for the slot q.           *)
NewImage(w, r, q, n) ==
  \A v \in VA : IF v >= USYSCALL THEN PteAt(w, r, v) = TopPte(q, v)
                ELSE IF v < n THEN PteAt(w, r, v).pa # 0 /\ PteAt(w, r, v).perm = UserPerm
                ELSE PteAt(w, r, v).pa = 0

CanMake(w, o, q) ==
  /\ Own(w, o) /\ q.trapframe \in Frames /\ q.usyscall \in Frames
  /\ o[q.usyscall][1] = "loose" /\ q.pid \in 1..(NPROC + 1)

Made(w, o, x, p, q) ==
  /\ x.proc = w.proc
  /\ x.ret = 0 => Touch(w, o, x, p, {})
  /\ x.ret # 0 => /\ x.ret \in Frames /\ ~Held(o[x.ret]) /\ p[x.ret] = <<"root", 0, 0>>
                  /\ Touch(w, o, x, p, {x.ret, q.usyscall}) /\ p[q.usyscall] = o[q.usyscall]
                  /\ x.data[q.usyscall] = q.pid /\ NewImage(x, x.ret, q, 0)
  /\ Ample(w, 7) => x.ret # 0 /\ Spends(w, x, 7)

LEMMA AllTops ==
  ASSUME NEW w, NEW o, NEW q, CanMake(w, o, q), NEW x,
         x = TopTurn(TopTurn(TopTurn(Uvmcreate(w), q, 1), q, 2), q, 3)
  PROVE  \E p : Tops(w, o, x, p, q, 3)
<1> USE DEF CanMake
<1>1. PICK a : a = Uvmcreate(w)
  OBVIOUS
<1>2. PICK p0 : Created(w, o, a, p0)
  BY <1>1, Uvmcreates
<1>3. Tops(w, o, a, p0, q, 0)
  <2>1. \A v \in VA : ~(v >= MAXVA - 0)
    BY Layout DEF VA
  <2>2. a.ret # 0 => TopsAre(a, a.ret, q, 0)
    BY <1>2, <2>1 DEF Created, Vacant, TopsAre
  <2>3. 1 + 2 * 0 = 1
    OBVIOUS
  <2>4. Ample(w, 7) => Ample(w, 1)
    <3>1. PICK l : l = w.left
      OBVIOUS
    <3>2. l \in Nat
      BY <3>1, Left
    <3> QED BY <3>1, <3>2 DEF Ample
  <2>5. Ample(w, 7) => a.ret # 0 /\ Spends(w, a, 1 + 2 * 0)
    BY <1>2, <2>3, <2>4 DEF Created
  <2> QED BY <1>2, <2>2, <2>5 DEF Created, Tops
<1>4. PICK b : b = TopTurn(a, q, 1)
  OBVIOUS
<1>5. PICK p1 : Tops(w, o, b, p1, q, 1)
  <2>1. PICK n \in 1..3 : n = 1
    OBVIOUS
  <2>2. n - 1 = 0
    BY <2>1
  <2>3. Tops(w, o, a, p0, q, n - 1)
    BY <1>3, <2>2
  <2>4. b = TopTurn(a, q, n)
    BY <1>4, <2>1
  <2>5. \E s : Tops(w, o, b, s, q, n)
    BY <2>3, <2>4, TopNext
  <2> QED BY <2>1, <2>5
<1>6. PICK c : c = TopTurn(b, q, 2)
  OBVIOUS
<1>7. PICK p2 : Tops(w, o, c, p2, q, 2)
  <2>1. PICK n \in 1..3 : n = 2
    OBVIOUS
  <2>2. n - 1 = 1
    BY <2>1
  <2>3. Tops(w, o, b, p1, q, n - 1)
    BY <1>5, <2>2
  <2>4. c = TopTurn(b, q, n)
    BY <1>6, <2>1
  <2>5. \E s : Tops(w, o, c, s, q, n)
    BY <2>3, <2>4, TopNext
  <2> QED BY <2>1, <2>5
<1>8. PICK n \in 1..3 : n = 3
  OBVIOUS
<1>9. Tops(w, o, c, p2, q, n - 1)
  <2>1. n - 1 = 2
    BY <1>8
  <2> QED BY <1>7, <2>1
<1>10. x = TopTurn(c, q, n)
  BY <1>1, <1>4, <1>6, <1>8
<1>11. \E s : Tops(w, o, x, s, q, n)
  BY <1>9, <1>10, TopNext
<1> QED BY <1>8, <1>11

LEMMA ProcPagetableMade ==
  ASSUME NEW w, NEW o, NEW j, NEW q, q = w.proc[j], CanMake(w, o, q),
         NEW x, x = ProcPagetable(w, j)
  PROVE  \E p : Made(w, o, x, p, q)
<1> USE DEF CanMake
<1>1. PICK y : y = TopTurn(TopTurn(TopTurn(Uvmcreate(w), q, 1), q, 2), q, 3)
  OBVIOUS
<1>2. x = IF y.ret = 0 THEN y ELSE WritePid(y, j)
  <2>1. PICK e : e = w.proc[j]
    OBVIOUS
  <2>2. ProcPagetable(w, j) =
          LET z == TopTurn(TopTurn(TopTurn(Uvmcreate(w), w.proc[j], 1), w.proc[j], 2), w.proc[j], 3)
          IN IF z.ret = 0 THEN z ELSE WritePid(z, j)
    BY Zenon DEF ProcPagetable, TopTurn
  <2> QED BY <1>1, <2>2
<1>3. PICK p : Tops(w, o, y, p, q, 3)
  BY <1>1, AllTops
<1>4. Ample(w, 7) => y.ret # 0 /\ Spends(w, y, 7)
  <2>1. 1 + 2 * 3 = 7
    OBVIOUS
  <2> QED BY <1>3, <2>1 DEF Tops
<1>5. CASE y.ret = 0
  <2>1. Made(w, o, y, p, q)
    BY <1>3, <1>4, <1>5 DEF Made, Tops
  <2> QED BY <1>2, <1>5, <2>1
<1>6. CASE y.ret # 0
  <2>1. PICK c, u : c = y.ret /\ u = q.usyscall
    OBVIOUS
  <2>2. /\ c \in Frames /\ ~Held(o[c]) /\ p[c] = <<"root", 0, 0>>
        /\ Touch(w, o, y, p, {c}) /\ TopsAre(y, c, q, 3) /\ y.proc = w.proc
    BY <1>3, <1>6, <2>1 DEF Tops
  <2>3. u \in Frames /\ u # c /\ p[u] = o[u] /\ p[u][1] = "loose" /\ Held(o[u])
    BY <2>1, <2>2 DEF Touch, Held
  <2>4. x = FillData(y, u, q.pid)
    BY <1>2, <1>6, <2>1, <2>2 DEF WritePid, FillData
  <2>5. Own(y, p) /\ y \in Machine /\ q.pid \in DataType
    BY <2>2, Left DEF Touch, DataType
  <2>6. /\ x \in Machine /\ x.pt = y.pt /\ x.free = y.free /\ x.left = y.left /\ x.ret = y.ret
        /\ x.proc = y.proc /\ x.data[u] = q.pid /\ \A g \in Frames : g # u => x.data[g] = y.data[g]
    BY Z3T(30), <2>3, <2>4, <2>5, FillFields
  <2>7. Own(x, p) /\ SamePtes(p, y, x)
    BY <2>5, <2>6, Refit
  <2>8. Touch(y, p, x, p, {u})
    <3>1. \A g : g \notin {u} => g # u
      OBVIOUS
    <3> QED BY <2>6, <2>7, <3>1 DEF Touch, SamePtes
  <2>9. Touch(w, o, x, p, {c, u})
    <3>1. {c} \cup {u} = {c, u}
      OBVIOUS
    <3>2. Touch(w, o, x, p, {c} \cup {u})
      BY <2>2, <2>8, TouchTrans
    <3> QED BY <3>1, <3>2
  <2>10. NewImage(x, c, q, 0)
    <3>1. Root_(p, c)
      BY <2>2 DEF Root_
    <3>2. ASSUME NEW v \in VA
          PROVE  IF v >= USYSCALL THEN PteAt(x, c, v) = TopPte(q, v)
                 ELSE IF v < 0 THEN PteAt(x, c, v).pa # 0 /\ PteAt(x, c, v).perm = UserPerm
                 ELSE PteAt(x, c, v).pa = 0
      <4>1. PteAt(x, c, v) = PteAt(y, c, v)
        BY <2>7, <3>1 DEF SamePtes
      <4>2. ~(v < 0) /\ (v >= USYSCALL <=> v >= MAXVA - 3)
        BY Layout
      <4> QED BY <2>2, <4>1, <4>2 DEF TopsAre
    <3> QED BY <3>2 DEF NewImage
  <2>11. Ample(w, 7) => Spends(w, x, 7)
    BY <1>4, <2>6, SpendsSame
  <2>12. x.ret = c /\ c # 0
    BY <1>6, <2>1, <2>6
  <2>13. Made(w, o, x, p, q)
    BY <2>1, <2>2, <2>3, <2>6, <2>9, <2>10, <2>11, <2>12 DEF Made
  <2> QED BY <2>13
<1> QED BY <1>5, <1>6

-----------------------------------------------------------------------------
(* freeproc().                                                             *)
Fields(q) == {q.pagetable, q.trapframe, q.usyscall} \ {0}

UnusedIn(ps, j) == [ps EXCEPT ![j] = UnusedProc]

(* What slot j has of its own, all of it or not: allocproc() may have      *)
(* failed in the middle.                                                   *)
PartlyMade(w, o, j, q) ==
  /\ Own(w, o) /\ j \in Procs /\ q = w.proc[j]
  /\ q.trapframe # 0 => q.trapframe \in Frames /\ o[q.trapframe] = <<"loose", 1, j>>
  /\ q.usyscall # 0 => q.usyscall \in Frames /\ o[q.usyscall] = <<"loose", 2, j>>
  /\ q.pagetable # 0 => /\ q.pagetable \in Frames /\ o[q.pagetable] = <<"root", 0, j>>
                        /\ SpaceIs(w, q.pagetable, Pages(q.sz), 3) /\ q.sz \in Nat /\ Pages(q.sz) <= USYSCALL

LEMMA ProcFields ==
  ASSUME NEW w \in Machine, NEW ps \in [Procs -> ProcType], NEW x, x = [w EXCEPT !.proc = ps]
  PROVE  /\ x \in Machine /\ x.pt = w.pt /\ x.data = w.data /\ x.free = w.free
         /\ x.left = w.left /\ x.ret = w.ret /\ x.proc = ps
BY DEF Machine

LEMMA UnusedType == ASSUME NEW ps \in [Procs -> ProcType], NEW j \in Procs
                    PROVE  UnusedIn(ps, j) \in [Procs -> ProcType]
<1>1. 0 \in 0..(NFrames * PGSIZE) /\ 0 \in 0..NFrames /\ 0 \in 0..NPROC /\ 0 \in 0..(NPROC + 1)
  <2>1. NFrames * PGSIZE \in Nat
    OBVIOUS
  <2> QED BY <2>1, UserAssumption
<1>2. UnusedProc \in ProcType
  BY <1>1 DEF UnusedProc, ProcType, States
<1> QED BY <1>2 DEF UnusedIn

(* GiveBack() of a page of the kernel, if there is one.                    *)
CanGive(w, o, f) == Own(w, o) /\ (f # 0 => f \in Frames /\ o[f][1] = "loose")

One(f) == {f} \ {0}

Gave(w, o, x, p, f) ==
  /\ x.proc = w.proc /\ Touch(w, o, x, p, One(f)) /\ (f # 0 => p[f] = Free)
  /\ \A g \in Frames : g # f => p[g] = o[g]

LEMMA GivesBack ==
  ASSUME NEW w, NEW o, NEW f, CanGive(w, o, f), NEW x, x = GiveBack(w, f)
  PROVE  \E p : Gave(w, o, x, p, f)
<1> USE DEF CanGive, Gave, One
<1>1. CASE f = 0
  <2>1. x = w
    BY <1>1 DEF GiveBack
  <2>2. Touch(w, o, x, o, {})
    BY <2>1, TouchRefl
  <2>3. {f} \ {0} = {}
    BY <1>1
  <2>4. Gave(w, o, x, o, f)
    BY <1>1, <2>1, <2>2, <2>3
  <2> QED BY <2>4
<1>2. CASE f # 0
  <2>1. x = Kfree(w, f)
    BY <1>2 DEF GiveBack
  <2>2. f \in Frames /\ o[f][1] = "loose"
    BY <1>2
  <2>3. PICK p : p = Put(o, f, Free)
    OBVIOUS
  <2>4. Touch(w, o, x, p, {f}) /\ x.proc = w.proc
    BY <2>1, <2>2, <2>3, TouchKfree
  <2>5. p[f] = Free /\ \A g \in Frames : g # f => p[g] = o[g]
    BY <2>2, <2>3, PutFields DEF Own
  <2>6. {f} \ {0} = {f}
    BY <1>2
  <2>7. Gave(w, o, x, p, f)
    BY <2>4, <2>5, <2>6
  <2> HIDE DEF Gave
  <2> QED BY <2>7
<1> QED BY <1>1, <1>2

Freeing(w, o, x, y, p, j, q) ==
  /\ Touch(w, o, y, p, Fields(q)) /\ y.proc = w.proc /\ \A f \in Fields(q) : ~Held(p[f])
  /\ x = [y EXCEPT !.proc[j] = UnusedProc]

Freed(w, o, x, p, j, q) ==
  /\ Touch(w, o, x, p, Fields(q)) /\ x.proc = UnusedIn(w.proc, j)
  /\ \A f \in Fields(q) : ~Held(p[f])

LEMMA Freeprocs ==
  ASSUME NEW w, NEW o, NEW j, NEW q, PartlyMade(w, o, j, q), NEW x, x = Freeproc(w, j)
  PROVE  \E p : Freed(w, o, x, p, j, q)
<1> USE DEF PartlyMade
<1>0. CanGive(w, o, q.trapframe)
  BY DEF CanGive
<1>1. PICK a, b : a = GiveBack(w, q.trapframe) /\ b = GiveBack(a, q.usyscall)
  OBVIOUS
<1>g. PICK p1 : Gave(w, o, a, p1, q.trapframe)
  BY <1>0, <1>1, GivesBack
<1>2. /\ Touch(w, o, a, p1, One(q.trapframe)) /\ (q.trapframe # 0 => p1[q.trapframe] = Free)
      /\ \A g \in Frames : g # q.trapframe => p1[g] = o[g]
  BY <1>g DEF Gave
<1>3. a.proc = w.proc
  BY <1>g DEF Gave
<1>4. q.usyscall # 0 => q.usyscall \in Frames /\ p1[q.usyscall] = <<"loose", 2, j>> /\ q.usyscall # q.trapframe
  BY <1>2
<1>5. CanGive(a, p1, q.usyscall)
  BY <1>2, <1>4 DEF Touch, CanGive
<1>h. PICK p2 : Gave(a, p1, b, p2, q.usyscall)
  BY <1>1, <1>5, GivesBack
<1>7. /\ Touch(a, p1, b, p2, One(q.usyscall)) /\ (q.usyscall # 0 => p2[q.usyscall] = Free)
      /\ \A g \in Frames : g # q.usyscall => p2[g] = p1[g]
  BY <1>h DEF Gave
<1>8. b.proc = w.proc
  BY <1>3, <1>h DEF Gave
<1>9. PICK R : R = One(q.trapframe) \cup One(q.usyscall)
  OBVIOUS
<1>10. Touch(w, o, b, p2, R)
  BY <1>2, <1>7, <1>9, TouchTrans
<1>11. \A f \in R : p2[f] = Free
  <2>1. q.trapframe # 0 => q.trapframe \in Frames
    OBVIOUS
  <2> QED BY <1>2, <1>4, <1>7, <1>9, <2>1 DEF One
<1>12. PICK y, p : Freeing(w, o, x, y, p, j, q)
  <2>1. CASE q.pagetable = 0
    <3>1. Fields(q) = R
      BY <1>9, <2>1 DEF Fields, One
    <3>2. x = [b EXCEPT !.proc[j] = UnusedProc]
      BY <1>1, <2>1 DEF Freeproc
    <3>3. Freeing(w, o, x, b, p2, j, q)
      BY <1>8, <1>10, <1>11, <3>1, <3>2 DEF Held, Free, Freeing
    <3> QED BY <3>3
  <2>2. CASE q.pagetable # 0
    <3>1. PICK r, n : r = q.pagetable /\ n = Pages(q.sz)
      OBVIOUS
    <3>2. PICK y : y = FreeSpace(b, r, n, 3)
      OBVIOUS
    <3>3. r \in Frames /\ o[r] = <<"root", 0, j>> /\ SpaceIs(w, r, n, 3) /\ n \in Nat /\ n <= USYSCALL
      BY <2>2, <3>1, PagesMonotone
    <3>4. r \notin R /\ p2[r] = o[r] /\ Root_(o, r) /\ Root_(p2, r)
      <4>1. r # q.trapframe /\ r # q.usyscall
        <5>1. q.trapframe # 0 => o[q.trapframe] = <<"loose", 1, j>>
          OBVIOUS
        <5>2. q.usyscall # 0 => o[q.usyscall] = <<"loose", 2, j>>
          OBVIOUS
        <5> QED BY <2>2, <3>1, <3>3, <5>1, <5>2
      <4>2. p2[r] = o[r]
        BY <1>2, <1>7, <3>3, <4>1
      <4> QED BY <1>9, <3>3, <4>1, <4>2 DEF Root_, One
    <3>5. SpaceIs(b, r, n, 3)
      BY <1>10, <3>3, <3>4 DEF Touch, SpaceIs
    <3>6. Space(b, p2, r, n, 3)
      <4>1. n + 3 <= MAXVA /\ 3 \in Nat
        BY <3>3, Layout
      <4> QED BY <1>10, <3>3, <3>4, <3>5, <4>1 DEF Space, Touch
    <3>7. PICK p : Gone(b, p2, y, p, r)
      BY <3>2, <3>6, SpaceFreed
    <3>8. Touch(b, p2, y, p, {r}) /\ p[r] = Free /\ y.proc = b.proc
      BY <3>7, TouchGone DEF Gone
    <3>9. Fields(q) = R \cup {r}
      BY <1>9, <2>2, <3>1 DEF Fields, One
    <3>10. Touch(w, o, y, p, Fields(q))
      BY <1>10, <3>8, <3>9, TouchTrans
    <3>11. \A f \in Fields(q) : ~Held(p[f])
      <4>1. ASSUME NEW f \in R PROVE ~Held(p[f])
        <5>1. f \in Frames /\ f # r
          BY <1>9, <3>4, <4>1 DEF One
        <5>2. p[f] = p2[f] \/ (~Held(p2[f]) /\ ~Held(p[f]))
          BY <3>8, <5>1 DEF Touch
        <5> QED BY <1>11, <4>1, <5>1, <5>2 DEF Held, Free
      <4> QED BY <3>8, <3>9, <4>1 DEF Held, Free
    <3>12. x = [y EXCEPT !.proc[j] = UnusedProc]
      <4>1. USYSCALL = MAXVA - 3
        BY Layout
      <4>2. ProcFreepagetable(b, r, q.sz) = y
        BY <3>1, <3>2, <4>1, Zenon DEF ProcFreepagetable, Uvmfree, FreeSpace, UnmapOnly, UnmapFree
      <4> QED BY <1>1, <2>2, <3>1, <4>2 DEF Freeproc
    <3>13. Freeing(w, o, x, y, p, j, q)
      BY <1>8, <3>8, <3>10, <3>11, <3>12 DEF Freeing
    <3> QED BY <3>13
  <2> QED BY <2>1, <2>2
<1>f. /\ Touch(w, o, y, p, Fields(q)) /\ y.proc = w.proc /\ \A f \in Fields(q) : ~Held(p[f])
      /\ x = [y EXCEPT !.proc[j] = UnusedProc]
  BY <1>12 DEF Freeing
<1>13. y \in Machine /\ Own(y, p)
  BY <1>f, Left DEF Touch
<1>14. PICK ps : ps = UnusedIn(w.proc, j)
  OBVIOUS
<1>15. x = [y EXCEPT !.proc = ps]
  BY <1>f, <1>14 DEF UnusedIn
<1>16. ps \in [Procs -> ProcType]
  <2>1. w.proc \in [Procs -> ProcType] /\ j \in Procs
    BY Left, MachineFields
  <2> QED BY <1>14, <2>1, UnusedType
<1>17. /\ x \in Machine /\ x.pt = y.pt /\ x.data = y.data /\ x.free = y.free /\ x.proc = ps
  BY <1>13, <1>15, <1>16, ProcFields
<1>18. Touch(y, p, x, p, {})
  BY <1>13, <1>17, TouchRefit
<1>19. Touch(w, o, x, p, Fields(q))
  <2>1. Fields(q) \cup {} = Fields(q)
    OBVIOUS
  <2>2. Touch(w, o, x, p, Fields(q) \cup {})
    BY <1>f, <1>18, TouchTrans
  <2> QED BY <2>1, <2>2
<1>20. Freed(w, o, x, p, j, q)
  BY <1>f, <1>14, <1>17, <1>19 DEF Freed
<1> QED BY <1>20
=============================================================================
