---------------------------- MODULE UserVmProofs ----------------------------
(***************************************************************************)
(* Proofs about UserVm and Vmprint, for any number of processes, any size  *)
(* of memory and of the tables, any programs and arguments, and however    *)
(* many pages are left to each call.                                       *)
(***************************************************************************)
EXTENDS PageTableProofs, Vmprint

USE SizeAssumption

-----------------------------------------------------------------------------
(* allocproc().                                                            *)
LEMMA MinNumber ==
  ASSUME NEW S, S \subseteq Nat, S # {}
  PROVE  Min(S) \in S
<1>1. \E n \in S : \A k \in S : n <= k
  BY LeastNumber
<1> QED BY <1>1 DEF Min

LEMMA FreshPids ==
  ASSUME NEW w \in Machine
  PROVE  FreshPid(w) \in 1..(NPROC + 1)
<1> DEFINE S == 1..(NPROC + 1)
           pid == [k \in Procs |-> w.proc[k].pid]
           Taken == {w.proc[p].pid : p \in Procs}
           f == [n \in S |-> CHOOSE k \in Procs : pid[k] = n]
<1>1. NPROC \in Nat
  BY UserAssumption
<1>2. \E n \in S : n \notin Taken
  <2> SUFFICES ASSUME \A n \in S : n \in Taken PROVE FALSE
    OBVIOUS
  <2>1. \A n \in S : \E k \in Procs : pid[k] = n
    OBVIOUS
  <2>2. \A n \in S : f[n] \in Procs /\ pid[f[n]] = n
    BY <2>1
  <2>3. f \in [S -> Procs]
    BY <2>2
  <2>4. IsFiniteSet(S) /\ Cardinality(S) = NPROC + 1
    <3>1. ~(1 > NPROC + 1) /\ (NPROC + 1) - 1 + 1 = NPROC + 1 /\ NPROC + 1 \in Int /\ 1 \in Int
      BY <1>1
    <3> HIDE DEF S
    <3> QED BY <3>1, FS_Interval DEF S
  <2>5. IsFiniteSet(Procs) /\ Cardinality(Procs) = NPROC
    <3>1. 1 \in Int /\ NPROC \in Int
      BY <1>1
    <3>2. IsFiniteSet(1..NPROC) /\ Cardinality(1..NPROC) = IF 1 > NPROC THEN 0 ELSE NPROC - 1 + 1
      BY <3>1, FS_Interval
    <3>3. (IF 1 > NPROC THEN 0 ELSE NPROC - 1 + 1) = NPROC
      BY <1>1
    <3> QED BY <3>2, <3>3 DEF Procs
  <2> HIDE DEF f, S, pid
  <2>6. Cardinality(Procs) < Cardinality(S)
    BY <1>1, <2>4, <2>5
  <2>7. \E x, y \in S : x # y /\ f[x] = f[y]
    BY <2>3, <2>4, <2>5, <2>6, FS_PigeonHole
  <2> QED BY <2>2, <2>7
<1>3. S \ Taken \subseteq Nat /\ S \ Taken # {}
  <2>1. S \subseteq Nat
    BY <1>1
  <2> HIDE DEF S, Taken
  <2> QED BY <1>2, <2>1
<1>4. FreshPid(w) = Min(S \ Taken)
  BY DEF FreshPid
<1> HIDE DEF S, Taken
<1>5. Min(S \ Taken) \in S \ Taken
  BY <1>3, MinNumber
<1> QED BY <1>4, <1>5 DEF S

(* Slot j is q, and the others are as they were.                           *)
WithSlot(ps, j, q) == [ps EXCEPT ![j] = q]

(* A slot that allocproc() fills in.                                       *)
Slot(n, a, b, c) ==
  [state |-> "USED", pid |-> n, sz |-> 0, parent |-> 0,
   pagetable |-> c, trapframe |-> a, usyscall |-> b]

LEMMA SlotFields ==
  ASSUME NEW n, NEW a, NEW b, NEW c, NEW q, q = Slot(n, a, b, c)
  PROVE  /\ q.state = "USED" /\ q.pid = n /\ q.sz = 0 /\ q.parent = 0 /\ q.trapframe = a
         /\ q.usyscall = b /\ q.pagetable = c /\ Fields(q) = {a, b, c} \ {0}
         /\ n \in 0..(NPROC + 1) /\ a \in 0..NFrames /\ b \in 0..NFrames /\ c \in 0..NFrames =>
              q \in ProcType
<1>1. /\ q.state = "USED" /\ q.pid = n /\ q.sz = 0 /\ q.parent = 0 /\ q.trapframe = a
      /\ q.usyscall = b /\ q.pagetable = c /\ Fields(q) = {a, b, c} \ {0}
  BY DEF Slot, Fields
<1>2. 0 \in 0..(NFrames * PGSIZE) /\ 0 \in 0..NPROC /\ "USED" \in States \cup {"USED"}
  <2>1. NFrames * PGSIZE \in Nat
    BY SizeAssumption, Products
  <2>2. NPROC \in Nat
    BY UserAssumption
  <2> QED BY <2>1, <2>2
<1>3. ASSUME n \in 0..(NPROC + 1), a \in 0..NFrames, b \in 0..NFrames, c \in 0..NFrames
      PROVE  q \in ProcType
  BY <1>2, <1>3 DEF Slot, ProcType
<1> QED BY <1>1, <1>3

LEMMA SlotSet ==
  ASSUME NEW ps \in [Procs -> ProcType], NEW j \in Procs, NEW q
  PROVE  /\ WithSlot(ps, j, q)[j] = q /\ \A k \in Procs : k # j => WithSlot(ps, j, q)[k] = ps[k]
         /\ q \in ProcType => WithSlot(ps, j, q) \in [Procs -> ProcType]
         /\ \A r : WithSlot(WithSlot(ps, j, q), j, r) = WithSlot(ps, j, r)
         /\ q = ps[j] => WithSlot(ps, j, q) = ps
BY DEF WithSlot

(* kalloc() of a page that slot j will refer to, as its kth.               *)
Claimed(w, o, x, p, k, j) ==
  /\ x.proc = w.proc /\ x.ret \in 0..NFrames /\ Spends(w, x, 1) /\ (Ample(w, 1) => x.ret # 0)
  /\ x.ret = 0 => p = o /\ Touch(w, o, x, p, {})
  /\ x.ret # 0 => /\ x.ret \in Frames /\ ~Held(o[x.ret]) /\ p[x.ret] = <<"loose", k, j>>
                  /\ Touch(w, o, x, p, {x.ret}) /\ \A g \in Frames : g # x.ret => p[g] = o[g]

LEMMA Claims ==
  ASSUME NEW w, NEW o, Own(w, o), NEW k \in Nat, NEW j \in Nat, NEW x, x = Kalloc(w)
  PROVE  \E p : Claimed(w, o, x, p, k, j)
<1>1. /\ x \in Machine /\ x.ret \in Int /\ x.left \in Nat /\ w.left \in Nat /\ x.proc = w.proc
  BY KallocNew, KallocFields, Left, MachineFields
<1>2. CASE x.ret = 0
  <2>1. NoMem(w, o, x)
    BY <1>2, KallocNew
  <2>2. Touch(w, o, x, o, {})
    BY <2>1, TouchSame DEF NoMem
  <2>3. Spends(w, x, 1) /\ ~Ample(w, 1)
    <3>1. x.free = w.free /\ x.left = w.left
      BY <1>1, <1>2, KallocFields, Left
    <3>2. Spends(w, x, 0)
      BY <1>1, <3>1, SameSpends
    <3> QED BY <1>1, <2>1, <3>2, SpendsLess DEF NoMem
  <2>4. x.ret \in 0..NFrames
    BY <1>2
  <2>5. Claimed(w, o, x, o, k, j)
    BY <1>1, <1>2, <2>2, <2>3, <2>4 DEF Claimed
  <2> QED BY <2>5
<1>3. CASE x.ret # 0
  <2>1. PICK f : f = x.ret
    OBVIOUS
  <2>2. PICK n : n = Put(o, f, New)
    OBVIOUS
  <2>3. f \in Frames /\ NewMem(w, o, x, n, f)
    BY <1>3, <2>1, <2>2, KallocNew
  <2>4. Own(x, n) /\ o[f][1] = "free" /\ Spends(w, x, 1)
    BY <2>3 DEF NewMem
  <2>5. Touch(w, o, x, n, {f})
    BY <2>3, TouchNew
  <2>6. n[f] = New /\ \A g \in Frames : g # f => n[g] = o[g]
    <3>1. o \in [Frames -> Places]
      BY DEF Own
    <3> QED BY <2>2, <2>3, <3>1, PutFields
  <2>7. PICK p : p = Put(n, f, <<"loose", k, j>>)
    OBVIOUS
  <2>8. Own(x, p)
    BY <2>3, <2>4, <2>6, <2>7, OwnLabel DEF New
  <2>9. p[f] = <<"loose", k, j>> /\ \A g \in Frames : g # f => p[g] = n[g]
    <3>1. n \in [Frames -> Places]
      BY <2>4 DEF Own
    <3> QED BY <2>3, <2>7, <3>1, PutFields
  <2>10. Touch(x, n, x, p, {f})
    BY <2>3, <2>4, <2>7, <2>8, TouchPut
  <2>11. Touch(w, o, x, p, {f})
    <3>1. Touch(w, o, x, p, {f} \cup {f})
      BY <2>5, <2>10, TouchTrans
    <3>2. {f} \cup {f} = {f}
      OBVIOUS
    <3> QED BY <3>1, <3>2
  <2>12. f \in 0..NFrames
    BY <2>3 DEF Frames
  <2>13. ~Held(o[f]) /\ \A g \in Frames : g # f => p[g] = o[g]
    BY <2>4, <2>6, <2>9 DEF Held
  <2>14. Claimed(w, o, x, p, k, j)
    BY <1>1, <1>3, <2>1, <2>3, <2>4, <2>9, <2>11, <2>12, <2>13 DEF Claimed
  <2> QED BY <2>14
<1> QED BY <1>2, <1>3

(* Slot j has been given a and b, 0 for what it does not have.             *)
Making(w, o, x, p, j, n, a, b) ==
  /\ j \in Procs /\ n \in 1..(NPROC + 1) /\ w.proc[j] = UnusedProc /\ w \in Machine
  /\ Own(x, p) /\ x.proc = WithSlot(w.proc, j, Slot(n, a, b, 0))
  /\ Touch(w, o, x, p, {a, b} \ {0})
  /\ a # 0 => a \in Frames /\ ~Held(o[a]) /\ p[a] = <<"loose", 1, j>>
  /\ b # 0 => b \in Frames /\ ~Held(o[b]) /\ p[b] = <<"loose", 2, j>>

LEMMA MakingType ==
  ASSUME NEW w, NEW o, NEW x, NEW p, NEW j, NEW n, NEW a, NEW b, Making(w, o, x, p, j, n, a, b)
  PROVE  /\ a \in 0..NFrames /\ b \in 0..NFrames /\ n \in 0..(NPROC + 1) /\ 0 \in 0..NFrames
         /\ x \in Machine /\ j \in Nat /\ w.proc \in [Procs -> ProcType]
<1> USE DEF Making
<1>1. NPROC \in Nat /\ NFrames \in Nat
  BY UserAssumption, SizeAssumption
<1>2. a \in 0..NFrames /\ b \in 0..NFrames
  BY <1>1 DEF Frames
<1>3. n \in 0..(NPROC + 1) /\ 0 \in 0..NFrames /\ j \in Nat
  BY <1>1 DEF Procs
<1>4. x \in Machine /\ w.proc \in [Procs -> ProcType]
  BY Left, MachineFields
<1> QED BY <1>2, <1>3, <1>4

(* A field of the slot is filled in.                                       *)
LEMMA SlotFilled ==
  ASSUME NEW x \in Machine, NEW j \in Procs, NEW q \in ProcType, NEW ps \in [Procs -> ProcType],
         NEW y, y = [x EXCEPT !.proc = WithSlot(ps, j, q)]
  PROVE  /\ y \in Machine /\ y.pt = x.pt /\ y.data = x.data /\ y.free = x.free /\ y.left = x.left
         /\ y.ret = x.ret /\ y.proc = WithSlot(ps, j, q)
<1>1. WithSlot(ps, j, q) \in [Procs -> ProcType]
  BY SlotSet
<1> QED BY <1>1, ProcFields

LEMMA MakesTrapframe ==
  ASSUME NEW w, NEW o, NEW x, NEW p, NEW j, NEW n, Making(w, o, x, p, j, n, 0, 0),
         NEW y, y = SetTrapframe(Kalloc(x), j)
  PROVE  /\ Spends(x, y, 1) /\ (Ample(x, 1) => y.ret # 0)
         /\ \E p2 : Making(w, o, y, p2, j, n, y.ret, 0)
<1>1. PICK k : k = Kalloc(x)
  OBVIOUS
<1>2. /\ n \in 0..(NPROC + 1) /\ x \in Machine /\ j \in Nat /\ w.proc \in [Procs -> ProcType]
      /\ 0 \in 0..NFrames /\ j \in Procs /\ n \in 1..(NPROC + 1) /\ w.proc[j] = UnusedProc
      /\ w \in Machine /\ Own(x, p) /\ x.proc = WithSlot(w.proc, j, Slot(n, 0, 0, 0))
      /\ Touch(w, o, x, p, {0, 0} \ {0})
  BY MakingType DEF Making
<1>3. PICK p2 : Claimed(x, p, k, p2, 1, j)
  <2>1. 1 \in Nat
    OBVIOUS
  <2> QED BY <1>1, <1>2, <2>1, Claims
<1>4. PICK a : a = k.ret
  OBVIOUS
<1>5. a \in 0..NFrames /\ k.proc = x.proc /\ Spends(x, k, 1) /\ (Ample(x, 1) => a # 0)
  BY <1>3, <1>4 DEF Claimed
<1>6. PICK q : q = Slot(n, a, 0, 0)
  OBVIOUS
<1>7. q \in ProcType
  BY <1>2, <1>5, <1>6, SlotFields
<1>8. k \in Machine
  BY <1>1, <1>2, KallocFields
<1>9. y = [k EXCEPT !.proc = WithSlot(w.proc, j, q)]
  <2>1. PICK s : s = Slot(n, 0, 0, 0)
    OBVIOUS
  <2>2. x.proc[j] = s
    BY <1>2, <2>1, SlotSet
  <2>3. q = [s EXCEPT !.trapframe = a]
    BY <1>6, <2>1 DEF Slot
  <2>4. WithSlot(w.proc, j, q) = WithSlot(x.proc, j, q)
    BY <1>2, SlotSet
  <2>5. y = [k EXCEPT !.proc = WithSlot(x.proc, j, q)]
    BY <1>1, <1>4, <1>5, <2>2, <2>3 DEF SetTrapframe, WithSlot
  <2> QED BY <2>4, <2>5
<1>10. /\ y \in Machine /\ y.pt = k.pt /\ y.data = k.data /\ y.free = k.free /\ y.left = k.left
       /\ y.ret = k.ret /\ y.proc = WithSlot(w.proc, j, q)
  BY <1>2, <1>7, <1>8, <1>9, SlotFilled
<1>11. Spends(x, y, 1) /\ (Ample(x, 1) => y.ret # 0)
  BY <1>4, <1>5, <1>10, SpendsSame
<1>12. Own(k, p2) /\ Touch(x, p, k, p2, {a} \ {0})
  <2>1. CASE a = 0
    BY <1>3, <1>4, <2>1 DEF Claimed, Touch
  <2>2. CASE a # 0
    <3>1. {a} \ {0} = {a}
      BY <2>2
    <3> QED BY <1>3, <1>4, <2>2, <3>1 DEF Claimed, Touch
  <2> QED BY <2>1, <2>2
<1>13. Touch(k, p2, y, p2, {}) /\ Own(y, p2)
  BY <1>10, <1>12, TouchRefit
<1>14. Touch(w, o, y, p2, {a, 0} \ {0})
  <2>1. Touch(w, o, k, p2, ({0, 0} \ {0}) \cup ({a} \ {0}))
    BY <1>2, <1>12, TouchTrans
  <2>2. Touch(w, o, y, p2, (({0, 0} \ {0}) \cup ({a} \ {0})) \cup {})
    BY <1>13, <2>1, TouchTrans
  <2>3. (({0, 0} \ {0}) \cup ({a} \ {0})) \cup {} = {a, 0} \ {0}
    OBVIOUS
  <2> QED BY <2>2, <2>3
<1>15. a # 0 => a \in Frames /\ ~Held(o[a]) /\ p2[a] = <<"loose", 1, j>>
  <2> SUFFICES ASSUME a # 0 PROVE a \in Frames /\ ~Held(o[a]) /\ p2[a] = <<"loose", 1, j>>
    OBVIOUS
  <2>1. a \in Frames /\ ~Held(p[a]) /\ p2[a] = <<"loose", 1, j>>
    BY <1>3, <1>4 DEF Claimed
  <2>2. a \notin {0, 0} \ {0}
    OBVIOUS
  <2>3. ~Held(o[a])
    BY <1>2, <2>1, <2>2, TouchRoots
  <2> QED BY <2>1, <2>3
<1>16. Making(w, o, y, p2, j, n, a, 0)
  BY <1>2, <1>6, <1>10, <1>13, <1>14, <1>15 DEF Making
<1> QED BY <1>4, <1>10, <1>11, <1>16

LEMMA MakesUsyscall ==
  ASSUME NEW w, NEW o, NEW x, NEW p, NEW j, NEW n, NEW a, Making(w, o, x, p, j, n, a, 0),
         NEW y, y = SetUsyscall(Kalloc(x), j)
  PROVE  /\ Spends(x, y, 1) /\ (Ample(x, 1) => y.ret # 0)
         /\ \E p2 : Making(w, o, y, p2, j, n, a, y.ret)
<1>1. PICK k : k = Kalloc(x)
  OBVIOUS
<1>2. /\ n \in 0..(NPROC + 1) /\ x \in Machine /\ j \in Nat /\ w.proc \in [Procs -> ProcType]
      /\ 0 \in 0..NFrames /\ j \in Procs /\ n \in 1..(NPROC + 1) /\ w.proc[j] = UnusedProc
      /\ w \in Machine /\ Own(x, p) /\ x.proc = WithSlot(w.proc, j, Slot(n, a, 0, 0))
      /\ Touch(w, o, x, p, {a, 0} \ {0}) /\ a \in 0..NFrames
      /\ a # 0 => a \in Frames /\ ~Held(o[a]) /\ p[a] = <<"loose", 1, j>>
  BY MakingType DEF Making
<1>3. PICK p2 : Claimed(x, p, k, p2, 2, j)
  <2>1. 2 \in Nat
    OBVIOUS
  <2> QED BY <1>1, <1>2, <2>1, Claims
<1>4. PICK b : b = k.ret
  OBVIOUS
<1>5. b \in 0..NFrames /\ k.proc = x.proc /\ Spends(x, k, 1) /\ (Ample(x, 1) => b # 0)
  BY <1>3, <1>4 DEF Claimed
<1>6. PICK q : q = Slot(n, a, b, 0)
  OBVIOUS
<1>7. q \in ProcType
  BY <1>2, <1>5, <1>6, SlotFields
<1>8. k \in Machine
  BY <1>1, <1>2, KallocFields
<1>9. y = [k EXCEPT !.proc = WithSlot(w.proc, j, q)]
  <2>1. PICK s : s = Slot(n, a, 0, 0)
    OBVIOUS
  <2>2. x.proc[j] = s
    BY <1>2, <2>1, SlotSet
  <2>3. q = [s EXCEPT !.usyscall = b]
    BY <1>6, <2>1 DEF Slot
  <2>4. WithSlot(w.proc, j, q) = WithSlot(x.proc, j, q)
    BY <1>2, SlotSet
  <2>5. y = [k EXCEPT !.proc = WithSlot(x.proc, j, q)]
    BY <1>1, <1>4, <1>5, <2>2, <2>3 DEF SetUsyscall, WithSlot
  <2> QED BY <2>4, <2>5
<1>10. /\ y \in Machine /\ y.pt = k.pt /\ y.data = k.data /\ y.free = k.free /\ y.left = k.left
       /\ y.ret = k.ret /\ y.proc = WithSlot(w.proc, j, q)
  BY <1>2, <1>7, <1>8, <1>9, SlotFilled
<1>11. Spends(x, y, 1) /\ (Ample(x, 1) => y.ret # 0)
  BY <1>4, <1>5, <1>10, SpendsSame
<1>12. Own(k, p2) /\ Touch(x, p, k, p2, {b} \ {0})
  <2>1. CASE b = 0
    BY <1>3, <1>4, <2>1 DEF Claimed, Touch
  <2>2. CASE b # 0
    <3>1. {b} \ {0} = {b}
      BY <2>2
    <3> QED BY <1>3, <1>4, <2>2, <3>1 DEF Claimed, Touch
  <2> QED BY <2>1, <2>2
<1>13. Touch(k, p2, y, p2, {}) /\ Own(y, p2)
  BY <1>10, <1>12, TouchRefit
<1>14. Touch(w, o, y, p2, {a, b} \ {0})
  <2>1. Touch(w, o, k, p2, ({a, 0} \ {0}) \cup ({b} \ {0}))
    BY <1>2, <1>12, TouchTrans
  <2>2. Touch(w, o, y, p2, (({a, 0} \ {0}) \cup ({b} \ {0})) \cup {})
    BY <1>13, <2>1, TouchTrans
  <2>3. (({a, 0} \ {0}) \cup ({b} \ {0})) \cup {} = {a, b} \ {0}
    OBVIOUS
  <2> QED BY <2>2, <2>3
<1>15. b # 0 => b \in Frames /\ b # a /\ ~Held(o[b]) /\ p2[b] = <<"loose", 2, j>>
  <2> SUFFICES ASSUME b # 0
               PROVE  b \in Frames /\ b # a /\ ~Held(o[b]) /\ p2[b] = <<"loose", 2, j>>
    OBVIOUS
  <2>1. b \in Frames /\ ~Held(p[b]) /\ p2[b] = <<"loose", 2, j>>
    BY <1>3, <1>4 DEF Claimed
  <2>2. b # a
    BY <1>2, <2>1 DEF Held
  <2>3. b \notin {a, 0} \ {0}
    BY <2>2
  <2>4. ~Held(o[b])
    BY <1>2, <2>1, <2>3, TouchRoots
  <2> QED BY <2>1, <2>2, <2>4
<1>16. a # 0 => p2[a] = <<"loose", 1, j>>
  <2>1. a # 0 => a # b
    BY <1>15
  <2>2. a # 0 => p2[a] = p[a]
    <3>1. b # 0 => \A g \in Frames : g # b => p2[g] = p[g]
      BY <1>3, <1>4 DEF Claimed
    <3>2. b = 0 => p2 = p
      BY <1>3, <1>4 DEF Claimed
    <3> QED BY <1>2, <2>1, <3>1, <3>2
  <2> QED BY <1>2, <2>2
<1>17. Making(w, o, y, p2, j, n, a, b)
  BY <1>2, <1>6, <1>10, <1>13, <1>14, <1>15, <1>16 DEF Making
<1> QED BY <1>4, <1>10, <1>11, <1>17

(* allocproc() has failed: the slot is as it was.                          *)
LEMMA MakingFails ==
  ASSUME NEW w, NEW o, NEW x, NEW p, NEW j, NEW n, NEW a, NEW b, Making(w, o, x, p, j, n, a, b),
         NEW y, y = Freeproc(x, j)
  PROVE  \E p2 : Touch(w, o, y, p2, {}) /\ y.proc = w.proc
<1>1. PICK q : q = Slot(n, a, b, 0)
  OBVIOUS
<1>2. /\ x.proc = WithSlot(w.proc, j, q) /\ w.proc \in [Procs -> ProcType] /\ j \in Procs
      /\ Own(x, p) /\ w.proc[j] = UnusedProc /\ Touch(w, o, x, p, {a, b} \ {0})
  BY <1>1, MakingType DEF Making
<1>3. /\ q.trapframe = a /\ q.usyscall = b /\ q.pagetable = 0 /\ Fields(q) = {a, b, 0} \ {0}
  BY <1>1, SlotFields
<1>4. x.proc[j] = q
  BY <1>2, SlotSet
<1>5. PartlyMade(x, p, j, q)
  BY <1>2, <1>3, <1>4 DEF PartlyMade, Making
<1>6. PICK p2 : Freed(x, p, y, p2, j, q)
  BY <1>5, Freeprocs
<1>7. PICK R : R = {a, b} \ {0}
  OBVIOUS
<1>8. Touch(x, p, y, p2, R) /\ \A f \in R : ~Held(p2[f])
  <2>1. Fields(q) = R
    BY <1>3, <1>7
  <2> QED BY <1>6, <2>1 DEF Freed
<1>9. Touch(w, o, y, p2, R)
  <2>1. Touch(w, o, y, p2, R \cup R)
    BY <1>2, <1>7, <1>8, TouchTrans
  <2>2. R \cup R = R
    OBVIOUS
  <2> QED BY <2>1, <2>2
<1>10. \A f \in R : ~Held(o[f])
  BY <1>7 DEF Making
<1>11. Touch(w, o, y, p2, {})
  BY <1>8, <1>9, <1>10, TouchLess
<1>12. y.proc = w.proc
  <2>1. y.proc = WithSlot(x.proc, j, UnusedProc)
    BY <1>6 DEF Freed, UnusedIn, WithSlot
  <2>2. y.proc = WithSlot(w.proc, j, UnusedProc)
    BY <1>2, <2>1, SlotSet
  <2> QED BY <1>2, <2>2, SlotSet
<1> QED BY <1>11, <1>12

(* allocproc() has given slot j all it needs.                              *)
Allocated(w, o, x, p, j, q) ==
  /\ j \in Procs /\ w.proc[j] = UnusedProc /\ x.proc = WithSlot(w.proc, j, q) /\ x.proc[j] = q
  /\ q \in ProcType /\ q.pid \in 1..(NPROC + 1) /\ q.sz = 0 /\ q.parent = 0 /\ q.state = "USED"
  /\ q.trapframe \in Frames /\ ~Held(o[q.trapframe]) /\ p[q.trapframe] = <<"loose", 1, j>>
  /\ q.usyscall \in Frames /\ ~Held(o[q.usyscall]) /\ p[q.usyscall] = <<"loose", 2, j>>
  /\ q.pagetable \in Frames /\ ~Held(o[q.pagetable]) /\ p[q.pagetable] = <<"root", 0, j>>
  /\ Touch(w, o, x, p, Fields(q)) /\ NewImage(x, q.pagetable, q, 0)
  /\ x.data[q.usyscall] = q.pid

Complete(w, o, x, p, j, n, a, b) == Making(w, o, x, p, j, n, a, b) /\ a # 0 /\ b # 0

(* proc_pagetable() has returned k.                                        *)
Tabled(w, o, x, p, j, n, a, b, k, p1) ==
  /\ Complete(w, o, x, p, j, n, a, b) /\ k = ProcPagetable(x, j)
  /\ Made(x, p, k, p1, Slot(n, a, b, 0))

LEMMA TableMissing ==
  ASSUME NEW w, NEW o, NEW x, NEW p, NEW j, NEW n, NEW a, NEW b, NEW k, NEW p1,
         Tabled(w, o, x, p, j, n, a, b, k, p1), k.ret = 0, NEW y, y = SetPagetable(k, j)
  PROVE  Making(w, o, y, p1, j, n, a, b) /\ y.ret = 0 /\ y.left = k.left /\ y.free = k.free
<1> USE DEF Tabled, Complete
<1>1. PICK q : q = Slot(n, a, b, 0)
  OBVIOUS
<1>2. /\ Touch(x, p, k, p1, {}) /\ k.proc = x.proc
  BY DEF Made
<1>3. /\ x.proc = WithSlot(w.proc, j, q) /\ w.proc \in [Procs -> ProcType] /\ j \in Procs
      /\ Touch(w, o, x, p, {a, b} \ {0})
  BY <1>1, MakingType DEF Making
<1>4. q \in ProcType /\ q.pagetable = 0
  BY <1>1, MakingType, SlotFields
<1>5. Own(k, p1) /\ k \in Machine
  BY <1>2, Left DEF Touch
<1>6. y = [k EXCEPT !.proc = WithSlot(w.proc, j, q)]
  <2>1. x.proc[j] = q
    BY <1>3, SlotSet
  <2>2. q = [q EXCEPT !.pagetable = 0]
    BY <1>1, <1>4 DEF Slot
  <2>3. WithSlot(x.proc, j, q) = WithSlot(w.proc, j, q)
    BY <1>3, SlotSet
  <2>4. y = [k EXCEPT !.proc = WithSlot(x.proc, j, q)]
    BY <1>2, <2>1, <2>2 DEF SetPagetable, WithSlot
  <2> QED BY <2>3, <2>4
<1>7. /\ y \in Machine /\ y.pt = k.pt /\ y.data = k.data /\ y.free = k.free /\ y.left = k.left
      /\ y.ret = k.ret /\ y.proc = WithSlot(w.proc, j, q)
  BY <1>3, <1>4, <1>5, <1>6, SlotFilled
<1>8. Touch(k, p1, y, p1, {}) /\ Own(y, p1)
  BY <1>5, <1>7, TouchRefit
<1>9. Touch(w, o, y, p1, {a, b} \ {0})
  <2>1. Touch(w, o, k, p1, ({a, b} \ {0}) \cup {})
    BY <1>2, <1>3, TouchTrans
  <2>2. Touch(w, o, y, p1, (({a, b} \ {0}) \cup {}) \cup {})
    BY <1>8, <2>1, TouchTrans
  <2>3. (({a, b} \ {0}) \cup {}) \cup {} = {a, b} \ {0}
    OBVIOUS
  <2> QED BY <2>2, <2>3
<1>10. p1[a] = p[a] /\ p1[b] = p[b]
  <2>1. a \in Frames /\ b \in Frames /\ Held(p[a]) /\ Held(p[b]) /\ a \notin {} /\ b \notin {}
    BY DEF Making, Held
  <2> QED BY <1>2, <2>1, TouchRoots
<1>11. Making(w, o, y, p1, j, n, a, b)
  BY <1>1, <1>7, <1>8, <1>9, <1>10 DEF Making
<1> QED BY <1>7, <1>11

LEMMA TableGiven ==
  ASSUME NEW w, NEW o, NEW x, NEW p, NEW j, NEW n, NEW a, NEW b, NEW k, NEW p1,
         Tabled(w, o, x, p, j, n, a, b, k, p1), k.ret # 0, NEW y, y = SetPagetable(k, j),
         NEW q, q = Slot(n, a, b, k.ret)
  PROVE  /\ \E p2 : Allocated(w, o, y, p2, j, q)
         /\ y.ret = k.ret /\ y.left = k.left /\ y.free = k.free
<1> USE DEF Tabled, Complete
<1>1. PICK s : s = Slot(n, a, b, 0)
  OBVIOUS
<1>2. PICK c : c = k.ret
  OBVIOUS
<1>3. /\ s.trapframe = a /\ s.usyscall = b /\ s.pid = n
  BY <1>1, SlotFields
<1>4. /\ c \in Frames /\ ~Held(p[c]) /\ p1[c] = <<"root", 0, 0>> /\ k.proc = x.proc
      /\ Touch(x, p, k, p1, {c, b}) /\ p1[b] = p[b] /\ k.data[b] = n /\ NewImage(k, c, s, 0)
  BY <1>1, <1>2, <1>3 DEF Made
<1>5. /\ x.proc = WithSlot(w.proc, j, s) /\ w.proc \in [Procs -> ProcType] /\ j \in Procs
      /\ Touch(w, o, x, p, {a, b} \ {0}) /\ j \in Nat /\ n \in 1..(NPROC + 1)
      /\ w.proc[j] = UnusedProc
  BY <1>1, MakingType DEF Making
<1>6. /\ a \in Frames /\ ~Held(o[a]) /\ p[a] = <<"loose", 1, j>>
      /\ b \in Frames /\ ~Held(o[b]) /\ p[b] = <<"loose", 2, j>>
  BY DEF Making
<1>7. a # b /\ a # c /\ b # c
  BY <1>4, <1>6 DEF Held
<1>8. /\ q.state = "USED" /\ q.pid = n /\ q.sz = 0 /\ q.parent = 0 /\ q.trapframe = a
      /\ q.usyscall = b /\ q.pagetable = c /\ Fields(q) = {a, b, c} \ {0} /\ q \in ProcType
  <2>1. c \in 0..NFrames
    BY <1>4 DEF Frames
  <2> QED BY <1>2, <2>1, MakingType, SlotFields
<1>9. PICK p2 : p2 = Put(p1, c, <<"root", 0, j>>)
  OBVIOUS
<1>10. Own(k, p1) /\ k \in Machine /\ p1 \in [Frames -> Places]
  BY <1>4, Left DEF Touch, Own
<1>11. Own(k, p2)
  BY <1>4, <1>5, <1>9, <1>10, OwnRoot
<1>12. Touch(k, p1, k, p2, {c})
  BY <1>4, <1>9, <1>10, <1>11, TouchPut
<1>13. y = [k EXCEPT !.proc = WithSlot(w.proc, j, q)]
  <2>1. x.proc[j] = s
    BY <1>5, SlotSet
  <2>2. q = [s EXCEPT !.pagetable = c]
    BY <1>1, <1>2 DEF Slot
  <2>3. WithSlot(x.proc, j, q) = WithSlot(w.proc, j, q)
    BY <1>5, SlotSet
  <2>4. y = [k EXCEPT !.proc = WithSlot(x.proc, j, q)]
    BY <1>2, <1>4, <2>1, <2>2 DEF SetPagetable, WithSlot
  <2> QED BY <2>3, <2>4
<1>14. /\ y \in Machine /\ y.pt = k.pt /\ y.data = k.data /\ y.free = k.free /\ y.left = k.left
       /\ y.ret = k.ret /\ y.proc = WithSlot(w.proc, j, q)
  BY <1>5, <1>8, <1>10, <1>13, SlotFilled
<1>15. Touch(k, p2, y, p2, {}) /\ Own(y, p2) /\ SamePtes(p2, k, y)
  BY <1>11, <1>14, TouchRefit
<1>16. p2[c] = <<"root", 0, j>> /\ p2[a] = p[a] /\ p2[b] = p[b]
  <2>1. p2[c] = <<"root", 0, j>> /\ p2[a] = p1[a] /\ p2[b] = p1[b]
    BY <1>4, <1>6, <1>7, <1>9, <1>10, PutFields
  <2>2. Held(p[a]) /\ a \notin {c, b}
    BY <1>6, <1>7 DEF Held
  <2>3. p1[a] = p[a]
    BY <1>4, <1>6, <2>2, TouchRoots
  <2> QED BY <1>4, <2>1, <2>3
<1>17. Touch(w, o, y, p2, Fields(q))
  <2>1. Touch(w, o, k, p1, ({a, b} \ {0}) \cup {c, b})
    BY <1>4, <1>5, TouchTrans
  <2>2. Touch(w, o, k, p2, (({a, b} \ {0}) \cup {c, b}) \cup {c})
    BY <1>12, <2>1, TouchTrans
  <2>3. Touch(w, o, y, p2, ((({a, b} \ {0}) \cup {c, b}) \cup {c}) \cup {})
    BY <1>15, <2>2, TouchTrans
  <2>4. 0 \notin Frames
    BY DEF Frames
  <2>5. ((({a, b} \ {0}) \cup {c, b}) \cup {c}) \cup {} = {a, b, c} \ {0}
    BY <1>4, <1>6, <2>4
  <2> QED BY <1>8, <2>3, <2>5
<1>18. NewImage(y, c, q, 0)
  <2>1. Root_(p2, c)
    BY <1>4, <1>16 DEF Root_
  <2>2. \A v \in VA : PteAt(y, c, v) = PteAt(k, c, v)
    BY <1>15, <2>1 DEF SamePtes
  <2>3. \A v : TopPte(q, v) = TopPte(s, v)
    BY <1>3, <1>8 DEF TopPte
  <2> QED BY <1>4, <2>2, <2>3 DEF NewImage
<1>19. ~Held(o[c])
  <2>1. c \notin {a, b} \ {0}
    BY <1>7
  <2> QED BY <1>4, <1>5, <2>1, TouchRoots
<1>20. y.proc[j] = q
  BY <1>5, <1>14, SlotSet
<1>21. Allocated(w, o, y, p2, j, q)
  BY <1>4, <1>5, <1>6, <1>8, <1>14, <1>16, <1>17, <1>18, <1>19, <1>20 DEF Allocated
<1> QED BY <1>14, <1>21

LEMMA MakesTable ==
  ASSUME NEW w, NEW o, NEW x, NEW p, NEW j, NEW n, NEW a, NEW b, Complete(w, o, x, p, j, n, a, b),
         NEW y, y = SetPagetable(ProcPagetable(x, j), j)
  PROVE  /\ Ample(x, 7) => y.ret # 0 /\ Spends(x, y, 7)
         /\ y.ret = 0 => \E p2 : Making(w, o, y, p2, j, n, a, b)
         /\ y.ret # 0 => \E p2, q : Allocated(w, o, y, p2, j, q)
<1>1. PICK k : k = ProcPagetable(x, j)
  OBVIOUS
<1>2. PICK s : s = Slot(n, a, b, 0)
  OBVIOUS
<1>3. s = x.proc[j] /\ CanMake(x, p, s)
  <2>1. /\ x.proc = WithSlot(w.proc, j, s) /\ w.proc \in [Procs -> ProcType] /\ j \in Procs
    BY <1>2, MakingType DEF Making, Complete
  <2>2. x.proc[j] = s
    BY <2>1, SlotSet
  <2>3. s.trapframe = a /\ s.usyscall = b /\ s.pid = n
    BY <1>2, SlotFields
  <2> QED BY <2>2, <2>3 DEF CanMake, Making, Complete
<1>4. PICK p1 : Made(x, p, k, p1, s)
  BY <1>1, <1>3, ProcPagetableMade
<1>5. Tabled(w, o, x, p, j, n, a, b, k, p1)
  BY <1>1, <1>2, <1>4 DEF Tabled
<1>6. y.ret = k.ret /\ y.left = k.left /\ y.free = k.free
  BY <1>1, <1>5, TableMissing, TableGiven
<1>7. Ample(x, 7) => y.ret # 0 /\ Spends(x, y, 7)
  BY <1>4, <1>6, SpendsSame DEF Made
<1> QED BY <1>1, <1>5, <1>6, <1>7, TableMissing, TableGiven

UnusedSlots(w) == \A k \in Procs : w.proc[k].state = "UNUSED" => w.proc[k] = UnusedProc
Unused(w) == {p \in Procs : w.proc[p].state = "UNUSED"}

(* allocproc() from found: on has come to an end, for slot j.              *)
FoundEnd(w, o, x, j) ==
  /\ x.ret = 0 => \E p, n, a, b : Making(w, o, x, p, j, n, a, b)
  /\ x.ret # 0 => \E p, q : Allocated(w, o, x, p, j, q)
  /\ Ample(w, 9) => x.ret # 0 /\ Spends(w, x, 9)

LEMMA Founds ==
  ASSUME NEW w, NEW o, NEW x, NEW p, NEW j, NEW n, Making(w, o, x, p, j, n, 0, 0),
         x.left = w.left, x.free = w.free, NEW y, y = Found(x, j)
  PROVE  FoundEnd(w, o, y, j)
<1>1. PICK t : t = SetTrapframe(Kalloc(x), j)
  OBVIOUS
<1>2. PICK u : u = IF t.ret = 0 THEN t ELSE SetUsyscall(Kalloc(t), j)
  OBVIOUS
<1>3. y = IF u.ret = 0 THEN u ELSE SetPagetable(ProcPagetable(u, j), j)
  BY <1>1, <1>2 DEF Found
<1>4. PICK p1, a : a = t.ret /\ Making(w, o, t, p1, j, n, a, 0)
  BY <1>1, MakesTrapframe
<1>5. x.left \in Nat /\ t.left \in Nat /\ w.left \in Nat
  BY <1>4, Left DEF Making
<1>6. Ample(w, 9) => a # 0 /\ Ample(t, 8) /\ Spends(w, t, 1)
  <2> SUFFICES ASSUME Ample(w, 9) PROVE a # 0 /\ Ample(t, 8) /\ Spends(w, t, 1)
    OBVIOUS
  <2>1. Ample(x, 9) /\ Ample(x, 1)
    BY <1>5 DEF Ample, Room
  <2>2. Spends(x, t, 1) /\ a # 0
    BY <1>1, <1>4, <2>1, MakesTrapframe
  <2>3. Ample(t, 8)
    <3>1. 9 >= 1 + 8
      OBVIOUS
    <3> QED BY <1>5, <2>1, <2>2, <3>1, AmpleAfter
  <2>4. Spends(w, x, 0)
    BY <1>5, SameSpends
  <2>5. Spends(w, t, 0 + 1)
    BY <1>5, <2>2, <2>4, SpendsTrans
  <2> QED BY <2>2, <2>3, <2>5
<1>7. CASE a = 0
  <2>1. u = t /\ y = t
    BY <1>2, <1>3, <1>4, <1>7
  <2>2. \E p2, n2, a2, b2 : Making(w, o, y, p2, j, n2, a2, b2)
    BY <1>4, <2>1
  <2> QED BY <1>4, <1>6, <1>7, <2>1, <2>2 DEF FoundEnd
<1>8. CASE a # 0
  <2>1. u = SetUsyscall(Kalloc(t), j)
    BY <1>2, <1>4, <1>8
  <2>2. PICK p2, b : b = u.ret /\ Making(w, o, u, p2, j, n, a, b)
    BY <1>4, <2>1, MakesUsyscall
  <2>3. u.left \in Nat
    BY <2>2, Left DEF Making
  <2>4. Ample(w, 9) => b # 0 /\ Ample(u, 7) /\ Spends(w, u, 2)
    <3> SUFFICES ASSUME Ample(w, 9) PROVE b # 0 /\ Ample(u, 7) /\ Spends(w, u, 2)
      OBVIOUS
    <3>1. Ample(t, 8) /\ Ample(t, 1) /\ Spends(w, t, 1)
      BY <1>5, <1>6 DEF Ample
    <3>2. Spends(t, u, 1) /\ b # 0
      BY <1>4, <2>1, <2>2, <3>1, MakesUsyscall
    <3>3. Ample(u, 7)
      <4>1. 8 >= 1 + 7
        OBVIOUS
      <4> QED BY <1>5, <2>3, <3>1, <3>2, <4>1, AmpleAfter
    <3>4. Spends(w, u, 1 + 1)
      BY <1>5, <2>3, <3>1, <3>2, SpendsTrans
    <3> QED BY <3>2, <3>3, <3>4
  <2>5. CASE b = 0
    <3>1. y = u
      BY <1>3, <2>2, <2>5
    <3>2. \E p3, n2, a2, b2 : Making(w, o, y, p3, j, n2, a2, b2)
      BY <2>2, <3>1
    <3> QED BY <2>2, <2>4, <2>5, <3>1, <3>2 DEF FoundEnd
  <2>6. CASE b # 0
    <3>1. y = SetPagetable(ProcPagetable(u, j), j)
      BY <1>3, <2>2, <2>6
    <3>2. Complete(w, o, u, p2, j, n, a, b)
      BY <1>8, <2>2, <2>6 DEF Complete
    <3>3. /\ Ample(u, 7) => y.ret # 0 /\ Spends(u, y, 7)
          /\ y.ret = 0 => \E p3 : Making(w, o, y, p3, j, n, a, b)
          /\ y.ret # 0 => \E p3, q : Allocated(w, o, y, p3, j, q)
      BY <3>1, <3>2, MakesTable
    <3>4. y.ret = 0 => \E p3, n2, a2, b2 : Making(w, o, y, p3, j, n2, a2, b2)
      BY <3>3
    <3>5. y.left \in Nat
      BY <3>3, <3>4, Left DEF Making, Allocated, Touch
    <3>6. Ample(w, 9) => y.ret # 0 /\ Spends(w, y, 9)
      <4>1. Spends(w, u, 2) /\ Spends(u, y, 7) => Spends(w, y, 2 + 7)
        BY <1>5, <2>3, <3>5, SpendsTrans
      <4>2. 2 + 7 = 9
        OBVIOUS
      <4> QED BY <2>4, <3>3, <4>1, <4>2
    <3> QED BY <3>3, <3>4, <3>6 DEF FoundEnd
  <2> QED BY <2>5, <2>6
<1> QED BY <1>7, <1>8

LEMMA Allocprocs ==
  ASSUME NEW w, NEW o, Own(w, o), UnusedSlots(w), NEW x, x = Allocproc(w)
  PROVE  /\ \/ x.ret = 0 /\ \E p : Touch(w, o, x, p, {}) /\ x.proc = w.proc
            \/ /\ x.ret # 0 /\ x.ret \in Unused(w) /\ \A k \in Unused(w) : x.ret <= k
               /\ \E p, q : Allocated(w, o, x, p, x.ret, q)
         /\ Ample(w, 9) /\ Unused(w) # {} => x.ret # 0 /\ Spends(w, x, 9)
<1>1. w \in Machine /\ w.proc \in [Procs -> ProcType] /\ w.left \in Nat
  BY Left, MachineFields
<1>2. CASE Unused(w) = {}
  <2>1. x = Ret(w, 0)
    BY <1>2 DEF Allocproc, Unused
  <2>2. Touch(w, o, w, o, {}) /\ 0 \in Int
    BY TouchRefl
  <2>3. Touch(w, o, x, o, {}) /\ x.ret = 0 /\ x.proc = w.proc
    BY <2>1, <2>2, TouchRet
  <2> QED BY <1>2, <2>3
<1>3. CASE Unused(w) # {}
  <2>1. PICK j : j = Min(Unused(w))
    OBVIOUS
  <2>2. j \in Unused(w) /\ \A k \in Unused(w) : j <= k
    <3>1. Unused(w) \subseteq Nat
      BY DEF Unused, Procs
    <3>2. \E k \in Unused(w) : \A i \in Unused(w) : k <= i
      BY <1>3, <3>1, LeastNumber
    <3> HIDE DEF Unused
    <3> QED BY <2>1, <3>2 DEF Min
  <2>3. j \in Procs /\ w.proc[j] = UnusedProc
    BY <2>2 DEF Unused, UnusedSlots
  <2>4. PICK n : n = FreshPid(w)
    OBVIOUS
  <2>5. n \in 1..(NPROC + 1) /\ n \in 0..(NPROC + 1)
    <3>1. n \in 1..(NPROC + 1)
      BY <1>1, <2>4, FreshPids
    <3> QED BY <3>1
  <2>6. PICK s : s = Slot(n, 0, 0, 0)
    OBVIOUS
  <2>7. s \in ProcType
    <3>1. 0 \in 0..NFrames
      BY SizeAssumption
    <3> QED BY <2>5, <2>6, <3>1, SlotFields
  <2>8. PICK y : y = [w EXCEPT !.proc = WithSlot(w.proc, j, s)]
    OBVIOUS
  <2>9. y = [w EXCEPT !.proc[j].state = "USED", !.proc[j].pid = n]
    <3>1. s = [w.proc[j] EXCEPT !.state = "USED", !.pid = n]
      <4> DEFINE r == [UnusedProc EXCEPT !.state = "USED"]
      <4>a. r = [state |-> "USED", pid |-> 0, sz |-> 0, parent |-> 0,
                 pagetable |-> 0, trapframe |-> 0, usyscall |-> 0]
        BY DEF UnusedProc
      <4>b. [r EXCEPT !.pid = n] = Slot(n, 0, 0, 0)
        <5> HIDE DEF r
        <5> QED BY <4>a DEF Slot
      <4>1. [UnusedProc EXCEPT !.state = "USED", !.pid = n] = Slot(n, 0, 0, 0)
        BY <4>b
      <4> QED BY <2>3, <2>6, <4>1
    <3> QED BY <1>1, <2>3, <2>8, <3>1 DEF WithSlot, Machine
  <2>10. /\ y \in Machine /\ y.pt = w.pt /\ y.data = w.data /\ y.free = w.free /\ y.left = w.left
         /\ y.ret = w.ret /\ y.proc = WithSlot(w.proc, j, s)
    BY <1>1, <2>3, <2>7, <2>8, SlotFilled
  <2>11. Touch(w, o, y, o, {}) /\ Own(y, o)
    BY <2>10, TouchRefit
  <2>12. Making(w, o, y, o, j, n, 0, 0)
    <3>1. {0, 0} \ {0} = {}
      OBVIOUS
    <3> QED BY <1>1, <2>3, <2>5, <2>6, <2>10, <2>11, <3>1 DEF Making
  <2>13. PICK z : z = Found(y, j)
    OBVIOUS
  <2>14. FoundEnd(w, o, z, j)
    BY <2>10, <2>12, <2>13, Founds
  <2>15. x = AllocprocEnd(z, j)
    BY <1>3, <2>1, <2>4, <2>9, <2>13 DEF Allocproc, Unused
  <2>16. CASE z.ret = 0
    <3>1. PICK v : v = Freeproc(z, j)
      OBVIOUS
    <3>2. \E p, a, b, c : Making(w, o, z, p, j, c, a, b)
      BY <2>14, <2>16 DEF FoundEnd
    <3>3. PICK p : Touch(w, o, v, p, {}) /\ v.proc = w.proc
      BY <3>1, <3>2, MakingFails
    <3>4. x = Ret(v, 0) /\ 0 \in Int
      BY <2>15, <2>16, <3>1 DEF AllocprocEnd
    <3>5. Touch(w, o, x, p, {}) /\ x.ret = 0 /\ x.proc = w.proc
      BY <3>3, <3>4, TouchRet
    <3> QED BY <2>14, <2>16, <3>5 DEF FoundEnd
  <2>17. CASE z.ret # 0
    <3>1. x = Ret(z, j) /\ j \in Int /\ j # 0
      BY <2>3, <2>15, <2>17 DEF AllocprocEnd, Procs
    <3>2. PICK p, q : Allocated(w, o, z, p, j, q)
      BY <2>14, <2>17 DEF FoundEnd
    <3>3. Touch(w, o, z, p, Fields(q)) /\ Own(z, p)
      BY <3>2 DEF Allocated, Touch
    <3>4. /\ Touch(w, o, x, p, Fields(q)) /\ x.ret = j /\ x.proc = z.proc /\ x.data = z.data
          /\ x.left = z.left /\ x.free = z.free /\ SamePtes(p, z, x)
      BY <3>1, <3>3, TouchRet
    <3>5. NewImage(x, q.pagetable, q, 0)
      <4>1. Root_(p, q.pagetable)
        BY <3>2 DEF Root_, Allocated
      <4>2. \A v \in VA : PteAt(x, q.pagetable, v) = PteAt(z, q.pagetable, v)
        BY <3>4, <4>1 DEF SamePtes
      <4> QED BY <3>2, <4>2 DEF NewImage, Allocated
    <3>6. Allocated(w, o, x, p, j, q)
      BY <3>2, <3>4, <3>5 DEF Allocated
    <3>7. Ample(w, 9) => Spends(w, x, 9)
      BY <2>14, <3>4, SpendsSame DEF FoundEnd
    <3> QED BY <2>2, <3>1, <3>4, <3>6, <3>7
  <2> QED BY <2>16, <2>17
<1> QED BY <1>2, <1>3

-----------------------------------------------------------------------------
(* The processes between two system calls.                                 *)
HistType == [guard : Nat, accessed : SUBSET VA, inherited : SUBSET VA, lost : SUBSET VA,
             scribbled : BOOLEAN]

(* The PTE e of page v, when the process has n pages.                      *)
PteIs(e, v, q, n, h) ==
  /\ IF v >= USYSCALL THEN e.pa = TopPte(q, v).pa /\ e.perm \ {"A"} = TopPte(q, v).perm
     ELSE IF v < n
     THEN e.pa # 0 /\ e.perm \ {"A"} = UserPerm \ (IF v = h.guard THEN {"U"} ELSE {})
     ELSE e.pa = 0
  /\ "A" \in e.perm <=> v \in Marked(h)
  /\ v >= TRAPFRAME => "A" \notin e.perm

Image_(w, r, q, n, h) == \A v \in VA : PteIs(PteAt(w, r, v), v, q, n, h)

GuardOK(h, n) == h.guard = MAXVA \/ h.guard < n

(* The pages of slot k, and what they hold.                                *)
Owns(o, k, q) ==
  /\ q.trapframe \in Frames /\ o[q.trapframe] = <<"loose", 1, k>>
  /\ q.usyscall \in Frames /\ o[q.usyscall] = <<"loose", 2, k>>
  /\ q.pagetable \in Frames /\ o[q.pagetable] = <<"root", 0, k>>

Process(w, o, k, q, h) ==
  /\ q.state \in {"RUNNABLE", "ZOMBIE"} /\ q.pid \in 1..(NPROC + 1)
  /\ Owns(o, k, q) /\ Pages(q.sz) <= NFrames
  /\ Image_(w, q.pagetable, q, Pages(q.sz), h) /\ GuardOK(h, Pages(q.sz))
  /\ ~h.scribbled => w.data[q.usyscall] = q.pid

SlotOK(w, o, k, q, h) == q = UnusedProc \/ Process(w, o, k, q, h)

(* Every page that the kernel refers to belongs to a slot.                 *)
Accounted(w, o) ==
  \A f \in Frames : Held(o[f]) => o[f][3] \in Procs /\ f \in Fields(w.proc[o[f][3]])

Mem(w, o, h) ==
  /\ Own(w, o) /\ Accounted(w, o) /\ h \in [Procs -> HistType]
  /\ \A k \in Procs : SlotOK(w, o, k, w.proc[k], h[k])

LEMMA InUseIs ==
  ASSUME NEW w, NEW o, NEW h, Mem(w, o, h), NEW k \in Procs
  PROVE  /\ w.proc[k].state # "UNUSED" => Process(w, o, k, w.proc[k], h[k])
         /\ w.proc[k].state = "UNUSED" => w.proc[k] = UnusedProc
         /\ w.proc[k] \in ProcType /\ h[k] \in HistType
<1>1. SlotOK(w, o, k, w.proc[k], h[k])
  BY DEF Mem
<1>2. UnusedProc.state = "UNUSED"
  BY DEF UnusedProc
<1>3. w.proc[k] \in ProcType /\ h[k] \in HistType
  BY Left, MachineFields DEF Mem
<1> QED BY <1>1, <1>2, <1>3 DEF SlotOK, Process

(* A page of a slot is labelled as such.                                   *)
LEMMA FieldsHeld ==
  ASSUME NEW w, NEW o, NEW k, NEW q, NEW h, SlotOK(w, o, k, q, h), NEW f \in Fields(q)
  PROVE  f \in Frames /\ Held(o[f]) /\ o[f][3] = k /\ q # UnusedProc
<1>1. Fields(UnusedProc) = {}
  BY DEF Fields, UnusedProc
<1>2. q # UnusedProc
  BY <1>1
<1>3. Owns(o, k, q)
  BY <1>2 DEF SlotOK, Process
<1>4. f \in {q.pagetable, q.trapframe, q.usyscall}
  BY DEF Fields
<1> QED BY <1>2, <1>3, <1>4 DEF Owns, Held

(* What has been done has not touched slot k.                              *)
LEMMA SlotKept ==
  ASSUME NEW w, NEW o, NEW k, NEW q, NEW h, SlotOK(w, o, k, q, h),
         NEW x, NEW p, NEW R, Touch(w, o, x, p, R), \A f \in Fields(q) : f \notin R
  PROVE  SlotOK(x, p, k, q, h)
<1>1. CASE q = UnusedProc
  BY <1>1 DEF SlotOK
<1>2. CASE q # UnusedProc
  <2>1. Process(w, o, k, q, h)
    BY <1>2 DEF SlotOK
  <2>2. Owns(o, k, q)
    BY <2>1 DEF Process
  <2>3. 0 \notin Frames
    BY DEF Frames
  <2>4. q.trapframe \in Fields(q) /\ q.usyscall \in Fields(q) /\ q.pagetable \in Fields(q)
    BY <2>2, <2>3 DEF Owns, Fields
  <2>5. /\ q.trapframe \in Frames /\ q.usyscall \in Frames /\ q.pagetable \in Frames
        /\ Held(o[q.trapframe]) /\ Held(o[q.usyscall]) /\ Held(o[q.pagetable])
        /\ q.trapframe \notin R /\ q.usyscall \notin R /\ q.pagetable \notin R
    BY <2>2, <2>4 DEF Owns, Held
  <2>6. /\ p[q.trapframe] = o[q.trapframe] /\ p[q.usyscall] = o[q.usyscall]
        /\ p[q.pagetable] = o[q.pagetable]
    BY <2>5, TouchRoots
  <2>7. x.data[q.usyscall] = w.data[q.usyscall]
    BY <2>2, <2>5 DEF Touch, Owns
  <2>8. \A v \in VA : PteAt(x, q.pagetable, v) = PteAt(w, q.pagetable, v)
    BY <2>2, <2>5 DEF Touch, Owns, Root_
  <2>9. Image_(x, q.pagetable, q, Pages(q.sz), h)
    BY <2>1, <2>8 DEF Process, Image_
  <2>10. Owns(p, k, q)
    BY <2>2, <2>6 DEF Owns
  <2> QED BY <2>1, <2>7, <2>9, <2>10 DEF Process, SlotOK
<1> QED BY <1>1, <1>2

(* A call has touched the pages R, and the slots J.                        *)
Stepped(w, o, h, x, p, g, R, J) ==
  /\ Mem(w, o, h) /\ Touch(w, o, x, p, R) /\ J \subseteq Procs /\ g \in [Procs -> HistType]
  /\ \A k \in Procs : k \notin J => x.proc[k] = w.proc[k] /\ g[k] = h[k]
  /\ \A k \in J : /\ SlotOK(x, p, k, x.proc[k], g[k])
                  /\ \A f \in Fields(w.proc[k]) : f \notin R => f \in Fields(x.proc[k])
  /\ \A f \in Frames : f \in R =>
       /\ Held(o[f]) => o[f][3] \in J
       /\ Held(p[f]) => p[f][3] \in Procs /\ f \in Fields(x.proc[p[f][3]])

LEMMA MemStep ==
  ASSUME NEW w, NEW o, NEW h, NEW x, NEW p, NEW g, NEW R, NEW J, Stepped(w, o, h, x, p, g, R, J)
  PROVE  Mem(x, p, g)
<1> USE DEF Stepped
<1>1. Own(x, p)
  BY DEF Touch
<1>2. ASSUME NEW k \in Procs PROVE SlotOK(x, p, k, x.proc[k], g[k])
  <2>1. CASE k \in J
    BY <2>1
  <2>2. CASE k \notin J
    <3>1. SlotOK(w, o, k, w.proc[k], h[k])
      BY <1>2 DEF Mem
    <3>2. ASSUME NEW f \in Fields(w.proc[k]) PROVE f \notin R
      <4>1. f \in Frames /\ Held(o[f]) /\ o[f][3] = k
        BY <3>1, <3>2, FieldsHeld
      <4> QED BY <2>2, <4>1
    <3>3. SlotOK(x, p, k, w.proc[k], h[k])
      BY <3>1, <3>2, SlotKept
    <3> QED BY <1>2, <2>2, <3>3
  <2> QED BY <2>1, <2>2
<1>3. ASSUME NEW f \in Frames, Held(p[f])
      PROVE  p[f][3] \in Procs /\ f \in Fields(x.proc[p[f][3]])
  <2>1. CASE f \in R
    BY <1>3, <2>1
  <2>2. CASE f \notin R
    <3>1. p[f] = o[f] /\ Held(o[f])
      BY <1>3, <2>2, TouchRoots
    <3>2. PICK k : k = o[f][3]
      OBVIOUS
    <3>3. k \in Procs /\ f \in Fields(w.proc[k])
      BY <1>3, <3>1, <3>2 DEF Mem, Accounted
    <3>4. f \in Fields(x.proc[k])
      BY <2>2, <3>3
    <3> QED BY <3>1, <3>2, <3>3, <3>4
  <2> QED BY <2>1, <2>2
<1> QED BY <1>1, <1>2, <1>3 DEF Mem, Accounted

(* Nothing but the registers of the machine has changed.                   *)
LEMMA MemSame ==
  ASSUME NEW w, NEW o, NEW h, Mem(w, o, h), NEW x, NEW p, Touch(w, o, x, p, {}), x.proc = w.proc
  PROVE  Mem(x, p, h)
<1>1. Stepped(w, o, h, x, p, h, {}, {})
  BY DEF Stepped, Mem
<1> QED BY <1>1, MemStep

(* What the image of a process says of its page table.                     *)
LEMMA PteKinds ==
  ASSUME NEW w, NEW o, Own(w, o), NEW r, Root_(o, r), NEW v \in VA, NEW e, e = PteAt(w, r, v),
         NEW q, q.trapframe \in Frames, q.usyscall \in Frames, NEW n \in Nat, NEW h,
         n <= NFrames, PteIs(e, v, q, n, h)
  PROVE  /\ v >= USYSCALL => e.pa # 0 /\ ~Mine(e)
         /\ v < USYSCALL /\ v < n => e.pa # 0 /\ Mine(e)
         /\ v < USYSCALL /\ v >= n => e.pa = 0 /\ e = NoPte
         /\ "U" \in e.perm => e.pa \in Frames
<1>1. v \in Nat /\ n < USYSCALL /\ USYSCALL \in Nat /\ TrampolinePa # 0 /\ NFrames \in Nat
  BY Layout, SizeAssumption DEF TrampolinePa
<1>2. /\ e \in PteType /\ e.pa \in Nat /\ (e.pa = 0 => e = NoPte)
      /\ e.pa # 0 /\ Mine(e) => e.pa \in Frames
  BY PteFacts
<1>3. CASE v >= USYSCALL
  <2>1. e.pa = TopPte(q, v).pa /\ e.perm \ {"A"} = TopPte(q, v).perm /\ ~(v < n)
    BY <1>1, <1>3 DEF PteIs
  <2>2. PICK t : t = TopPte(q, v)
    OBVIOUS
  <2>3. \/ t.pa = TrampolinePa /\ t.perm = {"R", "X"}
        \/ t.pa \in Frames /\ t.perm = {"R", "W"}
        \/ t.pa \in Frames /\ t.perm = {"R", "U"}
    BY <2>2 DEF TopPte
  <2>4. t.pa # 0
    BY <1>1, <2>3 DEF Frames
  <2>5. ~Mine(e) /\ ("U" \in e.perm => "U" \in t.perm)
    BY <2>1, <2>2, <2>3 DEF Mine
  <2>6. "U" \in t.perm => t.pa \in Frames
    BY <2>3
  <2> QED BY <1>1, <1>3, <2>1, <2>2, <2>4, <2>5, <2>6
<1>4. CASE v < USYSCALL /\ v < n
  <2>1. e.pa # 0 /\ e.perm \ {"A"} = UserPerm \ (IF v = h.guard THEN {"U"} ELSE {})
    BY <1>1, <1>4 DEF PteIs
  <2>2. Mine(e)
    <3>1. (IF v = h.guard THEN {"U"} ELSE {}) \subseteq {"U"}
      OBVIOUS
    <3>2. {"W", "X"} \subseteq UserPerm \ {"U"}
      BY DEF UserPerm
    <3> QED BY <2>1, <3>1, <3>2 DEF Mine
  <2> QED BY <1>1, <1>2, <1>4, <2>1, <2>2
<1>5. CASE v < USYSCALL /\ v >= n
  <2>1. e.pa = 0
    BY <1>1, <1>5 DEF PteIs
  <2>2. e = NoPte /\ NoPte.perm = {}
    BY <1>2, <2>1 DEF NoPte
  <2> QED BY <1>1, <1>5, <2>1, <2>2
<1> QED BY <1>1, <1>3, <1>4, <1>5

LEMMA ImageFacts ==
  ASSUME NEW w, NEW o, Own(w, o), NEW k, NEW q \in ProcType, NEW h, Process(w, o, k, q, h),
         NEW r, r = q.pagetable, NEW n, n = Pages(q.sz)
  PROVE  /\ q.sz \in Nat /\ n \in Nat /\ n <= NFrames /\ n < USYSCALL /\ Root_(o, r) /\ r # 0
         /\ SpaceIs(w, r, n, 3) /\ Ours(w, r, 0, n) /\ Reachable(w, r)
         /\ AllocOK(w, o, r, q.sz)
         /\ w.proc[k] = q /\ k \in Procs => PartlyMade(w, o, k, q)
<1>1. Owns(o, k, q) /\ Image_(w, r, q, n, h) /\ n <= NFrames
  BY DEF Process
<1>2. Root_(o, r) /\ r # 0 /\ q.trapframe \in Frames /\ q.usyscall \in Frames
  <2>1. 0 \notin Frames
    BY DEF Frames
  <2> QED BY <1>1, <2>1 DEF Owns, Root_
<1>3. q.sz \in Nat
  <2>1. NFrames * PGSIZE \in Nat
    BY SizeAssumption, Products
  <2>2. q.sz \in 0..(NFrames * PGSIZE)
    BY DEF ProcType
  <2> QED BY <2>1, <2>2
<1>4. n \in Nat
  <2>1. 0 \in Nat
    OBVIOUS
  <2> QED BY <1>3, <2>1, PagesLeast
<1>5. n < USYSCALL /\ USYSCALL = MAXVA - 3 /\ MAXVA \in Nat /\ USYSCALL \in Nat /\ NFrames \in Nat
      /\ VA \subseteq Nat /\ 0..(0 + n - 1) \subseteq VA
  <2>1. /\ MAXVA \in Nat /\ USYSCALL \in Nat /\ USYSCALL > NFrames /\ MAXVA = USYSCALL + 3
        /\ VA \subseteq Nat /\ NFrames \in Nat
    BY Layout, SizeAssumption
  <2> QED BY <1>1, <1>4, <2>1 DEF VA
<1>6. ASSUME NEW v \in VA, NEW e, e = PteAt(w, r, v)
      PROVE  /\ v >= USYSCALL => e.pa # 0 /\ ~Mine(e)
             /\ v < USYSCALL /\ v < n => e.pa # 0 /\ Mine(e)
             /\ v < USYSCALL /\ v >= n => e.pa = 0 /\ e = NoPte
             /\ "U" \in e.perm => e.pa \in Frames
  <2>1. PteIs(e, v, q, n, h)
    BY <1>1, <1>6 DEF Image_
  <2> QED BY <1>1, <1>2, <1>4, <1>6, <2>1, PteKinds
<1>7. ASSUME NEW v \in VA
      PROVE  LET e == PteAt(w, r, v)
             IN IF v >= MAXVA - 3 THEN e.pa # 0 /\ ~Mine(e)
                ELSE IF v < n THEN e.pa # 0 /\ Mine(e)
                ELSE e.pa = 0
  <2>1. PICK e : e = PteAt(w, r, v)
    OBVIOUS
  <2>2. /\ v >= USYSCALL => e.pa # 0 /\ ~Mine(e)
        /\ v < USYSCALL /\ v < n => e.pa # 0 /\ Mine(e)
        /\ v < USYSCALL /\ v >= n => e.pa = 0 /\ e = NoPte
    BY <1>6, <2>1
  <2>3. v \in Nat
    BY <1>5
  <2> QED BY <1>4, <1>5, <2>1, <2>2, <2>3
<1>8. SpaceIs(w, r, n, 3)
  BY <1>7 DEF SpaceIs
<1>9. Ours(w, r, 0, n)
  <2>1. ASSUME NEW u \in 0..(0 + n - 1) PROVE PteAt(w, r, u).pa # 0 /\ Mine(PteAt(w, r, u))
    <3>1. u \in VA /\ u < USYSCALL /\ u < n
      BY <1>4, <1>5
    <3> QED BY <1>6, <3>1
  <2> QED BY <2>1 DEF Ours
<1>10. Reachable(w, r)
  BY <1>6 DEF Reachable
<1>11. AllocOK(w, o, r, q.sz)
  <2>1. ASSUME NEW v \in VA, v >= n, v < USYSCALL PROVE PteAt(w, r, v).pa = 0
    BY <1>6, <2>1
  <2> QED BY <1>2, <1>3, <1>4, <1>5, <1>9, <2>1 DEF AllocOK
<1>12. ASSUME w.proc[k] = q, k \in Procs PROVE PartlyMade(w, o, k, q)
  BY <1>1, <1>2, <1>3, <1>4, <1>5, <1>8, <1>12 DEF PartlyMade, Owns
<1> QED BY <1>1, <1>2, <1>3, <1>4, <1>5, <1>8, <1>9, <1>10, <1>11, <1>12

-----------------------------------------------------------------------------
(* A new process: userinit() and fork().                                   *)

(* The slot q when its process can run, with its size and its parent.      *)
Ran(q, sz, par) == [q EXCEPT !.sz = sz, !.parent = par, !.state = "RUNNABLE"]

(* These are the same slot as far as the pages go.                         *)
SameFields(q, q2) ==
  /\ q2.pid = q.pid /\ q2.trapframe = q.trapframe /\ q2.usyscall = q.usyscall
  /\ q2.pagetable = q.pagetable

LEMMA RanFields ==
  ASSUME NEW q \in ProcType, NEW sz \in 0..(NFrames * PGSIZE), NEW par \in 0..NPROC,
         NEW q2, q2 = Ran(q, sz, par)
  PROVE  q2 \in ProcType /\ q2.sz = sz /\ q2.parent = par /\ q2.state = "RUNNABLE" /\ SameFields(q, q2)
<1>1. "RUNNABLE" \in States \cup {"USED"}
  BY DEF States
<1> QED BY <1>1 DEF Ran, ProcType, SameFields

Adopting(w, o, h, x, p, j, q, y, p2, z, q2, g) ==
  /\ Mem(w, o, h) /\ Allocated(w, o, x, p, j, q)
  /\ Keep(x, p, y, p2) /\ Others(p, x, y, q.pagetable)
  /\ z \in Machine /\ z.pt = y.pt /\ z.data = y.data /\ z.free = y.free
  /\ z.proc = WithSlot(w.proc, j, q2)
  /\ SameFields(q, q2) /\ q2.state = "RUNNABLE" /\ Pages(q2.sz) <= NFrames
  /\ g \in [Procs -> HistType] /\ \A k \in Procs : k # j => g[k] = h[k]
  /\ Image_(y, q.pagetable, q2, Pages(q2.sz), g[j]) /\ GuardOK(g[j], Pages(q2.sz))

LEMMA Adopted ==
  ASSUME NEW w, NEW o, NEW h, NEW x, NEW p, NEW j, NEW q, NEW y, NEW p2, NEW z, NEW q2, NEW g,
         Adopting(w, o, h, x, p, j, q, y, p2, z, q2, g)
  PROVE  Mem(z, p2, g)
<1> USE DEF Adopting
<1>1. /\ j \in Procs /\ w.proc[j] = UnusedProc /\ q.pid \in 1..(NPROC + 1)
      /\ Touch(w, o, x, p, Fields(q)) /\ x.data[q.usyscall] = q.pid /\ Owns(p, j, q)
      /\ \A f \in Fields(q) : f \in Frames /\ ~Held(o[f])
  BY DEF Allocated, Owns, Fields
<1>2. 0 \notin Frames
  BY DEF Frames
<1>3. PICK a, b, c : a = q.trapframe /\ b = q.usyscall /\ c = q.pagetable
  OBVIOUS
<1>4. /\ a \in Frames /\ b \in Frames /\ c \in Frames /\ Fields(q) = {a, b, c}
      /\ p[a] = <<"loose", 1, j>> /\ p[b] = <<"loose", 2, j>> /\ p[c] = <<"root", 0, j>>
  BY <1>1, <1>2, <1>3 DEF Owns, Fields
<1>5. Touch(x, p, y, p2, {c})
  BY <1>3, TouchKeep
<1>6. Touch(w, o, y, p2, Fields(q))
  <2>1. Touch(w, o, y, p2, Fields(q) \cup {c})
    BY <1>1, <1>5, TouchTrans
  <2>2. Fields(q) \cup {c} = Fields(q)
    BY <1>4
  <2> QED BY <2>1, <2>2
<1>7. p2[a] = p[a] /\ p2[b] = p[b] /\ p2[c] = p[c]
  BY <1>4 DEF Keep
<1>8. y.data[b] = q.pid
  BY <1>1, <1>3, <1>4 DEF Keep
<1>9. Own(y, p2)
  BY DEF Keep
<1>10. Touch(y, p2, z, p2, {}) /\ SamePtes(p2, y, z)
  BY <1>9, TouchRefit
<1>11. Touch(w, o, z, p2, Fields(q))
  <2>1. Touch(w, o, z, p2, Fields(q) \cup {})
    BY <1>6, <1>10, TouchTrans
  <2>2. Fields(q) \cup {} = Fields(q)
    OBVIOUS
  <2> QED BY <2>1, <2>2
<1>12. q2.trapframe = a /\ q2.usyscall = b /\ q2.pagetable = c /\ q2.pid = q.pid /\ Fields(q2) = Fields(q)
  BY <1>3 DEF SameFields, Fields
<1>13. Image_(z, c, q2, Pages(q2.sz), g[j])
  <2>1. Root_(p2, c)
    BY <1>4, <1>7 DEF Root_
  <2>2. \A v \in VA : PteAt(z, c, v) = PteAt(y, c, v)
    BY <1>10, <2>1 DEF SamePtes
  <2> QED BY <1>3, <2>2 DEF Image_
<1>14. Owns(p2, j, q2)
  BY <1>4, <1>7, <1>12 DEF Owns
<1>15. Process(z, p2, j, q2, g[j])
  <2>1. z.data[b] = q2.pid
    BY <1>8, <1>12
  <2>2. q2.state \in {"RUNNABLE", "ZOMBIE"} /\ q2.pid \in 1..(NPROC + 1)
    BY <1>1, <1>12
  <2> QED BY <1>12, <1>13, <1>14, <2>1, <2>2 DEF Process
<1>16. z.proc[j] = q2 /\ \A k \in Procs : k # j => z.proc[k] = w.proc[k]
  <2>1. w.proc \in [Procs -> ProcType]
    BY Left, MachineFields DEF Mem
  <2> QED BY SMTT(30), <1>1, <2>1, SlotSet
<1>17. PICK J : J = {j}
  OBVIOUS
<1>18. PICK R : R = Fields(q)
  OBVIOUS
<1>19. ASSUME NEW f \in Frames, f \in R
       PROVE  /\ Held(o[f]) => o[f][3] \in J
              /\ Held(p2[f]) => p2[f][3] \in Procs /\ f \in Fields(z.proc[p2[f][3]])
  <2>1. ~Held(o[f])
    BY <1>1, <1>18, <1>19
  <2>2. p2[f][3] = j
    <3>1. f = a \/ f = b \/ f = c
      BY <1>4, <1>18, <1>19
    <3> QED BY <1>4, <1>7, <3>1
  <2> QED BY <1>1, <1>12, <1>16, <1>18, <1>19, <2>1, <2>2
<1>20. Fields(UnusedProc) = {}
  BY DEF Fields, UnusedProc
<1>21. Stepped(w, o, h, z, p2, g, R, J)
  BY <1>1, <1>11, <1>15, <1>16, <1>17, <1>18, <1>19, <1>20 DEF Stepped, SlotOK
<1> QED BY <1>21, MemStep

(* An image that nothing has been read from yet.                           *)
LEMMA NewImageIs ==
  ASSUME NEW w, NEW o, Own(w, o), NEW r, Root_(o, r), NEW q, NEW n \in Nat, n <= NFrames,
         NewImage(w, r, q, n), NEW h, h.guard = MAXVA, Marked(h) = {}, NEW q2, SameFields(q, q2)
  PROVE  Image_(w, r, q2, n, h)
<1>1. ASSUME NEW v \in VA, NEW e, e = PteAt(w, r, v), e.pa = 0 => e = NoPte
      PROVE  PteIs(e, v, q2, n, h)
  <2>1. v # MAXVA /\ v \in Nat /\ n < USYSCALL /\ USYSCALL \in Nat /\ TRAPFRAME = USYSCALL + 1
    BY Layout, SizeAssumption DEF VA
  <2>2. TopPte(q2, v) = TopPte(q, v) /\ "A" \notin TopPte(q, v).perm
    BY DEF TopPte, SameFields
  <2>3. CASE v >= USYSCALL
    <3>1. e = TopPte(q, v)
      BY <1>1, <2>3 DEF NewImage
    <3> QED BY <2>1, <2>2, <2>3, <3>1 DEF PteIs
  <2>4. CASE ~(v >= USYSCALL) /\ v < n
    <3>1. e.pa # 0 /\ e.perm = UserPerm
      BY <1>1, <2>4 DEF NewImage
    <3>2. "A" \notin UserPerm
      BY DEF UserPerm
    <3>3. UserPerm \ (IF v = h.guard THEN {"U"} ELSE {}) = UserPerm
      BY <2>1
    <3>4. UserPerm \ {"A"} = UserPerm
      BY <3>2
    <3>5. ~(v >= TRAPFRAME)
      BY <2>1, <2>4
    <3> QED BY <2>4, <3>1, <3>2, <3>3, <3>4, <3>5 DEF PteIs
  <2>5. CASE ~(v >= USYSCALL) /\ ~(v < n)
    <3>1. e.pa = 0
      BY <1>1, <2>5 DEF NewImage
    <3>2. e.perm = {}
      BY <1>1, <3>1 DEF NoPte
    <3> QED BY <2>5, <3>1, <3>2 DEF PteIs
  <2> QED BY <2>3, <2>4, <2>5
<1>2. ASSUME NEW v \in VA PROVE PteIs(PteAt(w, r, v), v, q2, n, h)
  <2>1. PICK e : e = PteAt(w, r, v)
    OBVIOUS
  <2>2. e.pa = 0 => e = NoPte
    BY <2>1, PteFacts
  <2> QED BY <1>1, <2>1, <2>2
<1> QED BY <1>2 DEF Image_

LEMMA EmptyOwn ==
  ASSUME NEW w, w = EmptyMachine, NEW h, h = [k \in Procs |-> NewHist]
  PROVE  /\ \E o : Mem(w, o, h)
         /\ Ample(w, 12) /\ UnusedSlots(w) /\ Unused(w) = Procs /\ w.proc = [k \in Procs |-> UnusedProc]
<1>1. JunkTable \in [Entries -> PteType]
  <2>1. 1 \in 0..TrampolinePa
    BY SizeAssumption DEF TrampolinePa
  <2> QED BY <2>1 DEF JunkTable, PteType, UserPerm
<1>2. UnusedProc \in ProcType
  <2>1. NFrames * PGSIZE \in Nat /\ NPROC \in Nat /\ NFrames \in Nat
    BY SizeAssumption, UserAssumption, Products
  <2> QED BY <2>1 DEF UnusedProc, ProcType, States
<1>3. w.proc = [k \in Procs |-> UnusedProc] /\ w.proc \in [Procs -> ProcType]
      /\ \A k \in Procs : w.proc[k] = UnusedProc
  BY <1>2 DEF EmptyMachine
<1>4. w \in Machine
  <2>1. [f \in Frames |-> JunkTable] \in [Frames -> [Entries -> PteType]]
    BY <1>1
  <2>2. [f \in Frames |-> Junk] \in [Frames -> DataType]
    BY DEF DataType
  <2>3. NFrames \in Nat /\ 0 \in Int
    BY SizeAssumption
  <2>4. [k \in Procs |-> UnusedProc] \in [Procs -> ProcType]
    BY <1>2
  <2> QED BY <2>1, <2>2, <2>3, <2>4 DEF EmptyMachine, Machine
<1> DEFINE o == [f \in Frames |-> Free]
<1>5. o \in [Frames -> Places] /\ \A f \in Frames : o[f] = Free /\ o[f][1] = "free"
  BY DEF Places, Free
<1>6. w.pt = [f \in Frames |-> JunkTable] /\ w.free = Frames /\ w.left = NFrames
  BY DEF EmptyMachine
<1>7. \A t \in Frames, i \in Entries : w.pt[t][i].pa # 0
  BY <1>6 DEF JunkTable
<1> HIDE DEF o
<1>8. Own(w, o)
  BY <1>4, <1>5, <1>6, <1>7 DEF Own, EntryOK, PlaceOK
<1>9. Accounted(w, o)
  BY <1>5 DEF Accounted, Held
<1>10. h \in [Procs -> HistType]
  <2>1. MAXVA \in Nat
    BY Layout
  <2> QED BY <2>1 DEF NewHist, HistType
<1>11. Mem(w, o, h)
  BY <1>3, <1>8, <1>9, <1>10 DEF Mem, SlotOK
<1>12. Ample(w, 12)
  <2>1. NFrames >= 12 /\ NFrames \in Nat
    BY SizeAssumption, UserAssumption
  <2> QED BY <1>6, <2>1, FramesFinite DEF Ample, Room
<1>13. UnusedSlots(w) /\ Unused(w) = Procs
  <2>1. UnusedProc.state = "UNUSED"
    BY DEF UnusedProc
  <2> QED BY <1>3, <2>1 DEF UnusedSlots, Unused
<1> QED BY <1>3, <1>11, <1>12, <1>13

(* userinit() from kalloc() of the first page on.                          *)
InitFill(k, r) == [MapNew(k, r, 0) EXCEPT !.data[k.ret] = Initcode]

LEMMA FirstPage ==
  ASSUME NEW w, NEW o, NEW r, Unmapped(w, o, r, 0), Ample(w, 3), NEW x, x = InitFill(Kalloc(w), r)
  PROVE  \E p : /\ Keep(w, o, x, p) /\ Others(o, w, x, r)
                /\ \A v \in VA : IF v = 0 THEN PteAt(x, r, v).pa # 0 /\ PteAt(x, r, v).perm = UserPerm
                                 ELSE PteAt(x, r, v) = PteAt(w, r, v)
<1>1. PICK k, y : k = Kalloc(w) /\ y = MapNew(k, r, 0)
  OBVIOUS
<1>2. PICK f : f = k.ret
  OBVIOUS
<1>3. Added(w, o, y, r, 0, UserPte(f), f)
  BY <1>1, <1>2, NewPage
<1>4. f \in Frames
  BY <1>3 DEF Added
<1>5. PICK p : PageAdded(w, o, y, p, r, 0, UserPte(f))
  BY <1>3 DEF Added
<1>6. Keep(w, o, y, p) /\ Others(o, w, y, r) /\ Remap(w, y, r, 0, UserPte(f))
  BY <1>5 DEF PageAdded
<1>7. 0 \in VA /\ Root_(o, r) /\ Own(y, p) /\ Root_(p, r)
  BY <1>6, KeepRoots DEF Unmapped, Keep
<1>8. PteAt(y, r, 0) = UserPte(f) /\ \A v \in VA : v # 0 => PteAt(y, r, v) = PteAt(w, r, v)
  BY <1>6, <1>7 DEF Remap
<1>9. p[f][1] # "loose"
  <2>1. PICK e : e = PteAt(y, r, 0)
    OBVIOUS
  <2>2. e.pa = f /\ Mine(e)
    BY <1>8, <2>1 DEF UserPte, Mine, UserPerm
  <2>3. f # 0
    BY <1>4 DEF Frames
  <2>4. p[f] = <<"page", BotOf(y, r, 0), PX(0, 0)>>
    BY <1>7, <2>1, <2>2, <2>3, MinePte
  <2> QED BY <2>4
<1>10. x = FillData(y, f, Initcode)
  BY <1>1, <1>2 DEF InitFill, FillData
<1>11. Initcode \in DataType
  BY DEF DataType, Data
<1>12. Keep(y, p, x, p) /\ SamePtes(p, y, x)
  BY <1>4, <1>7, <1>9, <1>10, <1>11, Filled
<1>13. Keep(w, o, x, p) /\ Others(o, w, x, r) /\ \A v \in VA : PteAt(x, r, v) = PteAt(y, r, v)
  BY <1>6, <1>7, <1>12, KeepSame
<1>14. f # 0
  BY <1>4 DEF Frames
<1> QED BY <1>8, <1>13, <1>14 DEF UserPte

LEMMA DoneFields ==
  ASSUME NEW w \in Machine, NEW x, x = Done(w)
  PROVE  /\ x \in Machine /\ x.pt = w.pt /\ x.data = w.data /\ x.free = w.free /\ x.proc = w.proc
         /\ x.left = 0 /\ x.ret = 0
<1>1. PICK y : y = [w EXCEPT !.left = 0]
  OBVIOUS
<1>2. /\ y \in Machine /\ y.pt = w.pt /\ y.data = w.data /\ y.free = w.free /\ y.proc = w.proc
      /\ y.left = 0
  BY <1>1 DEF Machine
<1>3. x = Ret(y, 0)
  BY <1>1 DEF Done, Ret
<1>4. 0 \in Int
  OBVIOUS
<1> QED BY <1>2, <1>3, <1>4, RetFields

LEMMA DoneMem ==
  ASSUME NEW w, NEW o, NEW h, Mem(w, o, h), NEW x, x = Done(w)
  PROVE  Mem(x, o, h) /\ x.left = 0 /\ x.ret = 0
<1>1. w \in Machine /\ Own(w, o)
  BY Left DEF Mem
<1>2. Touch(w, o, x, o, {}) /\ x.proc = w.proc /\ x.left = 0 /\ x.ret = 0
  BY <1>1, DoneFields, TouchRefit
<1> QED BY <1>2, MemSame

LEMMA NewHistory ==
  ASSUME NEW h, h = [k \in Procs |-> NewHist], NEW j \in Procs
  PROVE  h[j].guard = MAXVA /\ Marked(h[j]) = {} /\ h[j].scribbled = FALSE
BY DEF NewHist, Marked

LEMMA FirstProcess ==
  ASSUME NEW h, h = [k \in Procs |-> NewHist], NEW x, x = Userinit(EmptyMachine)
  PROVE  \E o : Mem(x, o, h)
<1>1. PICK w, a, k : w = EmptyMachine /\ a = Allocproc(w) /\ k = Kalloc(a)
  OBVIOUS
<1>2. PICK o : Mem(w, o, h)
  BY <1>1, EmptyOwn
<1>3. /\ Ample(w, 12) /\ UnusedSlots(w) /\ Unused(w) = Procs /\ Own(w, o)
      /\ w.proc \in [Procs -> ProcType] /\ w.left \in Nat
  BY <1>1, <1>2, EmptyOwn, Left, MachineFields DEF Mem
<1>4. 1 \in Procs
  BY UserAssumption DEF Procs
<1>5. Ample(w, 9) /\ Unused(w) # {}
  BY <1>3, <1>4 DEF Ample
<1>6. /\ a.ret # 0 /\ Spends(w, a, 9) /\ a.ret \in Unused(w) /\ \A i \in Unused(w) : a.ret <= i
      /\ \E p, q : Allocated(w, o, a, p, a.ret, q)
  BY <1>1, <1>3, <1>5, Allocprocs
<1>7. a.ret = 1
  <2>1. a.ret \in Procs /\ a.ret <= 1
    BY <1>3, <1>4, <1>6
  <2>2. a.ret \in Nat /\ a.ret >= 1
    BY <2>1, UserAssumption DEF Procs
  <2> QED BY <2>1, <2>2
<1>8. PICK p, q : Allocated(w, o, a, p, 1, q)
  BY <1>6, <1>7
<1>9. PICK r : r = q.pagetable
  OBVIOUS
<1>10. /\ a.proc = WithSlot(w.proc, 1, q) /\ a.proc[1] = q /\ q \in ProcType /\ q.parent = 0
       /\ Own(a, p) /\ Root_(p, r) /\ NewImage(a, r, q, 0)
  BY <1>8, <1>9 DEF Allocated, Touch, Root_
<1>11. a \in Machine /\ a.left \in Nat
  BY <1>10, Left
<1>12. Ample(a, 3)
  <2>1. 12 >= 9 + 3
    OBVIOUS
  <2> QED BY <1>3, <1>6, <1>11, <2>1, AmpleAfter
<1>13. 0 \in VA /\ 0 < USYSCALL
  <2>1. USYSCALL > NFrames /\ MAXVA = USYSCALL + 3 /\ USYSCALL \in Nat /\ NFrames \in Nat
    BY Layout, SizeAssumption
  <2> QED BY <2>1 DEF VA
<1>14. Unmapped(a, p, r, 0)
  <2>1. ~(0 >= USYSCALL) /\ ~(0 < 0)
    BY <1>13, Layout
  <2>2. PteAt(a, r, 0).pa = 0
    BY <1>10, <1>13, <2>1 DEF NewImage
  <2> QED BY <1>10, <1>13, <2>2 DEF Unmapped
<1>15. PICK y : y = InitFill(k, r)
  OBVIOUS
<1>16. PICK p2 : /\ Keep(a, p, y, p2) /\ Others(p, a, y, r)
                 /\ \A v \in VA : IF v = 0 THEN PteAt(y, r, v).pa # 0 /\ PteAt(y, r, v).perm = UserPerm
                                  ELSE PteAt(y, r, v) = PteAt(a, r, v)
  BY <1>1, <1>12, <1>14, <1>15, FirstPage
<1>17. Own(y, p2) /\ y \in Machine /\ y.proc = a.proc /\ Root_(p2, r)
  BY <1>10, <1>16, KeepOwn, KeepRoots, Left DEF Keep
<1>18. NewImage(y, r, q, 1)
  <2>1. ASSUME NEW v \in VA
        PROVE  IF v >= USYSCALL THEN PteAt(y, r, v) = TopPte(q, v)
               ELSE IF v < 1 THEN PteAt(y, r, v).pa # 0 /\ PteAt(y, r, v).perm = UserPerm
               ELSE PteAt(y, r, v).pa = 0
    <3>1. v \in Nat /\ USYSCALL \in Nat /\ 0 < USYSCALL
      BY <1>13, Layout
    <3>2. CASE v = 0
      BY <1>13, <1>16, <3>1, <3>2
    <3>3. CASE v # 0
      <4>1. PteAt(y, r, v) = PteAt(a, r, v) /\ ~(v < 1) /\ ~(v < 0)
        BY <1>16, <3>1, <3>3
      <4> QED BY <1>10, <4>1 DEF NewImage
    <3> QED BY <3>2, <3>3
  <2> QED BY <2>1 DEF NewImage
<1>19. Pages(PGSIZE) = 1 /\ PGSIZE \in 0..(NFrames * PGSIZE) /\ 1 <= NFrames
  <2>1. PGSIZE * 1 = PGSIZE /\ PGSIZE \in Nat /\ NFrames \in Nat \ {0} /\ 1 <= NFrames
    BY SizeAssumption
  <2>2. Pages(PGSIZE * 1) = 1
    <3>1. 1 \in Nat
      OBVIOUS
    <3> QED BY <3>1, PagesExact
  <2>3. NFrames * PGSIZE \in Nat /\ 1 * PGSIZE <= NFrames * PGSIZE
    BY <2>1, Products
  <2> QED BY <2>1, <2>2, <2>3
<1>20. PICK q2 : q2 = Ran(q, PGSIZE, 0)
  OBVIOUS
<1>21. q2 \in ProcType /\ q2.sz = PGSIZE /\ q2.parent = 0 /\ q2.state = "RUNNABLE" /\ SameFields(q, q2)
  <2>1. 0 \in 0..NPROC
    BY UserAssumption
  <2> QED BY <1>10, <1>19, <1>20, <2>1, RanFields
<1>22. x = [y EXCEPT !.proc = WithSlot(w.proc, 1, q2)]
  <2>1. y = Uvminit(k, 1)
    <3>1. k.proc = a.proc
      BY <1>1, <1>11, KallocFields
    <3>2. k.proc[1].pagetable = r
      BY <1>9, <1>10, <3>1
    <3> QED BY <1>15, <3>2 DEF Uvminit, InitFill
  <2>2. x = [y EXCEPT !.proc[1].sz = PGSIZE, !.proc[1].state = "RUNNABLE"]
    BY <1>1, <2>1 DEF Userinit
  <2>3. y.proc[1] = q /\ y.proc \in [Procs -> ProcType]
    BY <1>10, <1>17, MachineFields
  <2>4. q2 = [q EXCEPT !.sz = PGSIZE, !.state = "RUNNABLE"]
    BY <1>10, <1>20 DEF Ran, ProcType
  <2>5. x = [y EXCEPT !.proc = WithSlot(y.proc, 1, q2)]
    BY <1>4, <1>17, <2>2, <2>3, <2>4 DEF WithSlot, Machine
  <2>6. WithSlot(y.proc, 1, q2) = WithSlot(w.proc, 1, q2)
    BY <1>3, <1>4, <1>10, <1>17, SlotSet
  <2> QED BY <2>5, <2>6
<1>23. /\ x \in Machine /\ x.pt = y.pt /\ x.data = y.data /\ x.free = y.free
       /\ x.proc = WithSlot(w.proc, 1, q2)
  BY <1>3, <1>4, <1>17, <1>21, <1>22, SlotFilled
<1>24. Image_(y, r, q2, 1, h[1]) /\ GuardOK(h[1], 1)
  <2>1. h[1].guard = MAXVA /\ Marked(h[1]) = {} /\ 1 \in Nat
    BY <1>4, NewHistory
  <2>2. Image_(y, r, q2, 1, h[1])
    BY <1>17, <1>18, <1>19, <1>21, <2>1, NewImageIs
  <2> QED BY <2>1, <2>2 DEF GuardOK
<1>25. Adopting(w, o, h, a, p, 1, q, y, p2, x, q2, h)
  BY <1>2, <1>8, <1>9, <1>16, <1>19, <1>21, <1>23, <1>24 DEF Adopting, Mem
<1>26. Mem(x, p2, h)
  BY <1>25, Adopted
<1> QED BY <1>26

(* A process is gone.                                                      *)
LEMMA MemFreed ==
  ASSUME NEW w, NEW o, NEW h, Mem(w, o, h), NEW j \in Procs, w.proc[j].state # "UNUSED",
         NEW x, x = Freeproc(w, j), NEW g \in [Procs -> HistType],
         \A k \in Procs : k # j => g[k] = h[k]
  PROVE  \E p : Mem(x, p, g)
<1>1. PICK q : q = w.proc[j]
  OBVIOUS
<1>2. Process(w, o, j, q, h[j]) /\ q \in ProcType /\ Own(w, o)
  BY <1>1, InUseIs DEF Mem
<1>3. PartlyMade(w, o, j, q)
  BY <1>1, <1>2, ImageFacts
<1>4. PICK p : Freed(w, o, x, p, j, q)
  BY <1>3, Freeprocs
<1>5. PICK R, J : R = Fields(q) /\ J = {j}
  OBVIOUS
<1>6. Touch(w, o, x, p, R) /\ x.proc = UnusedIn(w.proc, j) /\ \A f \in R : ~Held(p[f])
  BY <1>4, <1>5 DEF Freed
<1>7. x.proc[j] = UnusedProc /\ \A k \in Procs : k # j => x.proc[k] = w.proc[k]
  <2>1. w.proc \in [Procs -> ProcType]
    BY <1>2, Left, MachineFields
  <2> QED BY <1>6, <2>1 DEF UnusedIn
<1>8. \A f \in R : o[f][3] = j
  <2>1. SlotOK(w, o, j, q, h[j])
    BY <1>2 DEF SlotOK
  <2> QED BY <1>5, <2>1, FieldsHeld
<1>9. Stepped(w, o, h, x, p, g, R, J)
  BY <1>1, <1>5, <1>6, <1>7, <1>8 DEF Stepped, SlotOK
<1> QED BY <1>9, MemStep

(* fork(), when allocproc() has found slot j.                              *)
Forking(w, o, h, a, p, j, q, k, f) ==
  /\ Mem(w, o, h) /\ Allocated(w, o, a, p, j, q) /\ k \in Procs /\ f = w.proc[k]
  /\ f.state # "UNUSED"

LEMMA ForkFacts ==
  ASSUME NEW w, NEW o, NEW h, NEW a, NEW p, NEW j, NEW q, NEW k, NEW f,
         Forking(w, o, h, a, p, j, q, k, f)
  PROVE  /\ k # j /\ a.proc[k] = f /\ a.proc[j] = q /\ a.proc \in [Procs -> ProcType]
         /\ Own(a, p) /\ j \in Procs /\ Process(a, p, k, f, h[k]) /\ f \in ProcType
         /\ Root_(p, q.pagetable) /\ q.pagetable # f.pagetable /\ NewImage(a, q.pagetable, q, 0)
         /\ h[k] \in HistType /\ q \in ProcType
<1> USE DEF Forking
<1>1. /\ j \in Procs /\ w.proc[j] = UnusedProc /\ a.proc = WithSlot(w.proc, j, q) /\ a.proc[j] = q
      /\ Touch(w, o, a, p, Fields(q)) /\ Own(a, p) /\ NewImage(a, q.pagetable, q, 0) /\ Owns(p, j, q)
      /\ \A g \in Fields(q) : g \in Frames /\ ~Held(o[g])
      /\ q \in ProcType
  BY DEF Allocated, Touch, Owns, Fields
<1>2. Process(w, o, k, f, h[k]) /\ f \in ProcType /\ h[k] \in HistType
  BY InUseIs
<1>3. k # j
  BY <1>1 DEF UnusedProc
<1>4. a.proc[k] = f /\ a.proc \in [Procs -> ProcType]
  <2>1. w.proc \in [Procs -> ProcType]
    BY Left, MachineFields DEF Mem
  <2>2. a.proc \in [Procs -> ProcType]
    BY <1>1, Left, MachineFields
  <2>3. a.proc = WithSlot(w.proc, j, q) /\ j \in Procs /\ k \in Procs /\ f = w.proc[k]
    BY <1>1
  <2>4. a.proc[k] = w.proc[k]
    BY <1>3, <2>1, <2>3, SlotSet
  <2> QED BY <2>2, <2>3, <2>4
<1>5. SlotOK(w, o, k, f, h[k])
  BY <1>2 DEF SlotOK
<1>6. \A g \in Fields(f) : g \notin Fields(q)
  BY <1>1, <1>5, FieldsHeld
<1>7. SlotOK(a, p, k, f, h[k])
  BY <1>1, <1>5, <1>6, SlotKept
<1>8. Process(a, p, k, f, h[k])
  BY <1>7 DEF SlotOK, UnusedProc
<1>9. q.pagetable # f.pagetable
  <2>1. p[q.pagetable][3] = j /\ p[f.pagetable][3] = k
    BY <1>1, <1>8 DEF Process, Owns
  <2> QED BY <1>3, <2>1
<1>10. Root_(p, q.pagetable)
  BY <1>1 DEF Owns, Root_
<1> QED BY <1>1, <1>2, <1>3, <1>4, <1>8, <1>9, <1>10

(* uvmcopy() in fork().                                                    *)
LEMMA ForkCopies ==
  ASSUME NEW w, NEW o, NEW h, NEW a, NEW p, NEW j, NEW q, NEW k, NEW f,
         Forking(w, o, h, a, p, j, q, k, f), NEW n, n = Pages(f.sz),
         NEW y, y = Uvmcopy(a, f.pagetable, q.pagetable, f.sz)
  PROVE  Copies(a, p, y, f.pagetable, q.pagetable, n)
<1>1. /\ Own(a, p) /\ Process(a, p, k, f, h[k]) /\ f \in ProcType
      /\ Root_(p, q.pagetable) /\ q.pagetable # f.pagetable /\ NewImage(a, q.pagetable, q, 0)
  BY ForkFacts
<1>2. PICK r : r = f.pagetable
  OBVIOUS
<1>3. n \in Nat /\ n <= NFrames /\ Root_(p, r) /\ Ours(a, r, 0, n)
  BY <1>1, <1>2, ImageFacts
<1>4. PICK c : c = q.pagetable
  OBVIOUS
<1>5. ASSUME NEW v \in VA, v < USYSCALL PROVE PteAt(a, c, v).pa = 0
  <2>1. v \in Nat /\ USYSCALL \in Nat
    BY Layout
  <2>2. ~(v >= USYSCALL) /\ ~(v < 0)
    BY <1>5, <2>1
  <2> QED BY <1>1, <1>4, <2>2 DEF NewImage
<1>6. CopyOK(a, p, r, c, n)
  BY <1>1, <1>2, <1>3, <1>4, <1>5 DEF CopyOK
<1>7. Copies(a, p, y, r, c, n)
  BY <1>2, <1>4, <1>6, Uvmcopies
<1> QED BY <1>2, <1>4, <1>7

(* uvmcopy() has failed.                                                   *)
LEMMA ForkFails ==
  ASSUME NEW w, NEW o, NEW h, NEW a, NEW p, NEW j, NEW q, NEW k, NEW f,
         Forking(w, o, h, a, p, j, q, k, f), NEW y, NEW p2, Keep(a, p, y, p2), SamePtes(p, a, y),
         NEW x, x = Ret(Freeproc(y, j), -1)
  PROVE  x.ret = -1 /\ \E p3 : Mem(x, p3, h)
<1>1. PICK z : z = Freeproc(y, j)
  OBVIOUS
<1>2. /\ j \in Procs /\ w.proc[j] = UnusedProc /\ a.proc = WithSlot(w.proc, j, q) /\ a.proc[j] = q
      /\ Touch(w, o, a, p, Fields(q)) /\ NewImage(a, q.pagetable, q, 0) /\ Owns(p, j, q)
      /\ \A g \in Fields(q) : g \in Frames /\ ~Held(o[g])
      /\ q.sz = 0
  BY DEF Forking, Allocated, Owns, Fields
<1>3. Touch(a, p, y, p2, {}) /\ y.proc = a.proc /\ Own(y, p2)
  BY TouchSame DEF Keep
<1>4. Owns(p2, j, q)
  BY <1>2 DEF Owns, Keep
<1>5. PICK c : c = q.pagetable
  OBVIOUS
<1>6. Pages(0) = 0
  <2>1. PGSIZE * 0 = 0 /\ 0 \in Nat
    BY SizeAssumption
  <2> QED BY <2>1, PagesExact
<1>7. SpaceIs(y, c, 0, 3)
  <2>1. Root_(p, c)
    BY <1>2, <1>5 DEF Owns, Root_
  <2>2. \A v \in VA : PteAt(y, c, v) = PteAt(a, c, v)
    BY <2>1 DEF SamePtes
  <2>3. ASSUME NEW v \in VA
        PROVE  LET e == PteAt(y, c, v)
               IN IF v >= MAXVA - 3 THEN e.pa # 0 /\ ~Mine(e)
                  ELSE IF v < 0 THEN e.pa # 0 /\ Mine(e) ELSE e.pa = 0
    <3>1. USYSCALL = MAXVA - 3 /\ v \in Nat /\ ~(v < 0)
      BY Layout
    <3>2. PICK e : e = PteAt(y, c, v)
      OBVIOUS
    <3>3. IF v >= USYSCALL THEN e = TopPte(q, v) ELSE e.pa = 0
      BY <1>2, <1>5, <2>2, <3>1, <3>2 DEF NewImage
    <3>4. TopPte(q, v).pa # 0 /\ ~Mine(TopPte(q, v))
      <4>1. q.trapframe # 0 /\ q.usyscall # 0 /\ TrampolinePa # 0
        BY <1>2, SizeAssumption DEF Owns, Frames, TrampolinePa
      <4> QED BY <4>1 DEF TopPte, Mine
    <3> QED BY <3>1, <3>2, <3>3, <3>4
  <2> QED BY <2>3 DEF SpaceIs
<1>8. PartlyMade(y, p2, j, q)
  <2>1. 0 \in Nat /\ 0 <= USYSCALL
    BY Layout
  <2> QED BY <1>2, <1>3, <1>4, <1>5, <1>6, <1>7, <2>1 DEF PartlyMade, Owns
<1>9. PICK p3 : Freed(y, p2, z, p3, j, q)
  BY <1>1, <1>8, Freeprocs
<1>10. PICK R : R = Fields(q)
  OBVIOUS
<1>11. Touch(y, p2, z, p3, R) /\ z.proc = UnusedIn(y.proc, j) /\ \A g \in R : ~Held(p3[g])
  BY <1>9, <1>10 DEF Freed
<1>12. Touch(w, o, z, p3, R)
  <2>1. Touch(w, o, y, p2, R \cup {})
    BY <1>2, <1>3, <1>10, TouchTrans
  <2>2. Touch(w, o, z, p3, (R \cup {}) \cup R)
    BY <1>11, <2>1, TouchTrans
  <2>3. (R \cup {}) \cup R = R
    OBVIOUS
  <2> QED BY <2>2, <2>3
<1>13. Touch(w, o, z, p3, {})
  BY <1>2, <1>10, <1>11, <1>12, TouchLess
<1>14. z.proc = w.proc
  <2>1. w.proc \in [Procs -> ProcType]
    BY Left, MachineFields DEF Forking, Mem
  <2>2. z.proc = WithSlot(a.proc, j, UnusedProc)
    BY <1>3, <1>11 DEF UnusedIn, WithSlot
  <2>3. z.proc = WithSlot(w.proc, j, UnusedProc)
    BY <1>2, <2>1, <2>2, SlotSet
  <2>4. w.proc[j] = UnusedProc /\ j \in Procs
    BY <1>2
  <2> QED BY SMTT(30), <2>1, <2>3, <2>4, SlotSet
<1>15. Touch(w, o, x, p3, {}) /\ x.ret = -1 /\ x.proc = w.proc
  BY <1>1, <1>13, <1>14, TouchError
<1>16. Mem(x, p3, h)
  BY <1>15, MemSame DEF Forking
<1> QED BY <1>15, <1>16

HistAt(h, j, g) == [h EXCEPT ![j] = g]

(* The history of the child.                                               *)
ForkHist(h) == [NewHist EXCEPT !.guard = h.guard, !.inherited = Marked(h) \ {USYSCALL}]

LEMMA ForkHistFields ==
  ASSUME NEW h \in HistType, NEW g, g = ForkHist(h)
  PROVE  /\ g \in HistType /\ g.guard = h.guard
         /\ Marked(g) = Marked(h) \ {USYSCALL} /\ g.scribbled = FALSE
<1>1. PICK s, c : s = Marked(h) \ {USYSCALL} /\ c = h.guard
  OBVIOUS
<1>2. s \in SUBSET VA /\ c \in Nat
  BY <1>1 DEF HistType, Marked
<1>3. g = [guard |-> c, accessed |-> {}, inherited |-> s, lost |-> {}, scribbled |-> FALSE]
  BY <1>1 DEF ForkHist, NewHist
<1>4. g.guard = c /\ g.accessed = {} /\ g.inherited = s /\ g.lost = {} /\ g.scribbled = FALSE
  BY <1>3
<1>5. Marked(g) = s
  BY <1>4 DEF Marked
<1>6. g \in HistType
  BY <1>2, <1>3 DEF HistType
<1> QED BY <1>1, <1>4, <1>5, <1>6

LEMMA ForkImage ==
  ASSUME NEW w, NEW o, NEW h, NEW a, NEW p, NEW j, NEW q, NEW k, NEW f,
         Forking(w, o, h, a, p, j, q, k, f), NEW y, NEW p2, NEW r, r = f.pagetable,
         NEW c, c = q.pagetable, NEW n, n = Pages(f.sz), Keep(a, p, y, p2),
         SamePerms(a, y, r, c, n), NEW q2, SameFields(q, q2), NEW g, g = ForkHist(h[k])
  PROVE  Image_(y, c, q2, n, g) /\ GuardOK(g, n)
<1>1. /\ Own(a, p) /\ Process(a, p, k, f, h[k]) /\ f \in ProcType
      /\ Root_(p, c) /\ NewImage(a, c, q, 0) /\ h[k] \in HistType
  BY ForkFacts
<1>2. n \in Nat /\ n <= NFrames /\ Root_(p, r) /\ n < USYSCALL
  BY <1>1, ImageFacts
<1>3. g.guard = h[k].guard /\ Marked(g) = Marked(h[k]) \ {USYSCALL}
  BY <1>1, ForkHistFields
<1>4. Image_(a, r, f, n, h[k]) /\ GuardOK(h[k], n)
  BY <1>1 DEF Process
<1>5. Own(y, p2) /\ Root_(p2, c)
  BY <1>1, KeepRoots DEF Keep
<1>6. ASSUME NEW v \in VA PROVE PteIs(PteAt(y, c, v), v, q2, n, g)
  <2>1. PICK e, d : e = PteAt(y, c, v) /\ d = PteAt(a, r, v)
    OBVIOUS
  <2>2. PteIs(d, v, f, n, h[k])
    BY <1>4, <2>1 DEF Image_
  <2>3. (e.pa = 0 => e = NoPte) /\ (d.pa = 0 => d = NoPte) /\ NoPte.perm = {}
    <3>1. NoPte.perm = {}
      BY DEF NoPte
    <3>2. Root_(p, r) /\ Root_(p2, c) /\ Own(a, p) /\ Own(y, p2)
      BY <1>1, <1>2, <1>5
    <3> QED BY <2>1, <3>1, <3>2, PteFacts
  <2>4. IF v < n THEN e.pa # 0 /\ e.perm = d.perm ELSE e = PteAt(a, c, v)
    BY <2>1 DEF SamePerms
  <2>5. IF v >= USYSCALL THEN PteAt(a, c, v) = TopPte(q, v)
        ELSE IF v < 0 THEN PteAt(a, c, v).pa # 0 /\ PteAt(a, c, v).perm = UserPerm
        ELSE PteAt(a, c, v).pa = 0
    BY <1>1 DEF NewImage
  <2>6. v \in Nat /\ USYSCALL \in Nat /\ TRAPFRAME = USYSCALL + 1
    BY Layout
  <2>7. ASSUME v >= USYSCALL PROVE PteIs(e, v, q2, n, g)
    <3>1. e = TopPte(q, v) /\ TopPte(q2, v) = TopPte(q, v) /\ "A" \notin TopPte(q, v).perm
      BY <1>2, <2>4, <2>5, <2>6, <2>7 DEF TopPte, SameFields
    <3>2. v \notin Marked(g)
      <4>1. CASE v = USYSCALL
        BY <1>3, <4>1
      <4>2. CASE v # USYSCALL
        <5>1. v >= TRAPFRAME
          BY <2>6, <2>7, <4>2
        <5>2. v \notin Marked(h[k])
          BY <2>2, <5>1 DEF PteIs
        <5> QED BY <1>3, <4>2, <5>2
      <4> QED BY <4>1, <4>2
    <3> QED BY <2>7, <3>1, <3>2 DEF PteIs
  <2>8. ASSUME ~(v >= USYSCALL) PROVE PteIs(e, v, q2, n, g)
    <3>1. v \in Marked(g) <=> v \in Marked(h[k])
      BY <1>3, <2>6, <2>8
    <3>2. ~(v >= TRAPFRAME)
      BY <2>6, <2>8
    <3>3. CASE v < n
      BY <1>3, <2>2, <2>4, <2>8, <3>1, <3>2, <3>3 DEF PteIs
    <3>4. CASE ~(v < n)
      <4>1. e.pa = 0
        BY <2>4, <2>5, <2>6, <2>8, <3>4
      <4>2. d.pa = 0
        BY <2>2, <2>8, <3>4 DEF PteIs
      <4>3. e.perm = d.perm
        BY <2>3, <4>1, <4>2
      <4> QED BY <2>2, <2>8, <3>1, <3>2, <3>4, <4>1, <4>3 DEF PteIs
    <3> QED BY <3>3, <3>4
  <2> QED BY <2>1, <2>7, <2>8
<1> QED BY <1>3, <1>4, <1>6 DEF Image_, GuardOK

(* The end of fork().                                                      *)
ForkEnd(y, sz, k, j) ==
  [y EXCEPT !.proc[j].sz = sz, !.proc[j].parent = k, !.proc[j].state = "RUNNABLE", !.ret = j]

LEMMA ForkSucceeds ==
  ASSUME NEW w, NEW o, NEW h, NEW a, NEW p, NEW j, NEW q, NEW k, NEW f,
         Forking(w, o, h, a, p, j, q, k, f), NEW y, NEW p2, NEW r, r = f.pagetable,
         NEW c, c = q.pagetable, NEW n, n = Pages(f.sz), Keep(a, p, y, p2), Others(p, a, y, c),
         SamePerms(a, y, r, c, n), NEW g, g = HistAt(h, j, ForkHist(h[k])),
         NEW x, x = ForkEnd(y, f.sz, k, j)
  PROVE  x.ret = j /\ Mem(x, p2, g)
<1>1. /\ k # j /\ a.proc[k] = f /\ a.proc[j] = q /\ a.proc \in [Procs -> ProcType]
      /\ Own(a, p) /\ j \in Procs /\ Process(a, p, k, f, h[k]) /\ f \in ProcType
      /\ h[k] \in HistType /\ q \in ProcType
  BY ForkFacts
<1>2. /\ Mem(w, o, h) /\ Allocated(w, o, a, p, j, q) /\ k \in Procs
      /\ a.proc = WithSlot(w.proc, j, q)
  BY DEF Forking, Allocated
<1>3. w.proc \in [Procs -> ProcType] /\ h \in [Procs -> HistType]
  BY <1>2, Left, MachineFields DEF Mem
<1>4. y \in Machine /\ y.proc = a.proc /\ Own(y, p2)
  BY Left DEF Keep
<1>5. PICK s : s = f.sz
  OBVIOUS
<1>6. s \in 0..(NFrames * PGSIZE) /\ k \in 0..NPROC /\ j \in Int
  <2>1. s \in 0..(NFrames * PGSIZE)
    BY <1>1, <1>5 DEF ProcType
  <2>2. NPROC \in Nat /\ k \in Procs /\ j \in Procs
    BY <1>1, <1>2, UserAssumption
  <2> QED BY <2>1, <2>2 DEF Procs
<1>7. PICK q2 : q2 = Ran(q, s, k)
  OBVIOUS
<1>8. q2 \in ProcType /\ q2.sz = s /\ q2.parent = k /\ q2.state = "RUNNABLE" /\ SameFields(q, q2)
  BY <1>1, <1>6, <1>7, RanFields
<1>9. PICK z : z = [y EXCEPT !.proc = WithSlot(w.proc, j, q2)]
  OBVIOUS
<1>10. /\ z \in Machine /\ z.pt = y.pt /\ z.data = y.data /\ z.free = y.free /\ z.left = y.left
       /\ z.ret = y.ret /\ z.proc = WithSlot(w.proc, j, q2)
  BY <1>1, <1>3, <1>4, <1>8, <1>9, SlotFilled
<1>11. x = Ret(z, j)
  <2>1. WithSlot(y.proc, j, q2) = WithSlot(w.proc, j, q2)
    <3>1. y.proc = WithSlot(w.proc, j, q) /\ w.proc \in [Procs -> ProcType] /\ j \in Procs
      BY <1>1, <1>2, <1>3, <1>4
    <3>2. WithSlot(WithSlot(w.proc, j, q), j, q2) = WithSlot(w.proc, j, q2)
      BY <3>1, SlotSet
    <3> QED BY <3>1, <3>2
  <2>2. y.proc[j] = q
    BY <1>1, <1>4
  <2>3. z = [y EXCEPT !.proc[j].sz = s, !.proc[j].parent = k, !.proc[j].state = "RUNNABLE"]
    <3>1. z = [y EXCEPT !.proc = WithSlot(y.proc, j, q2)]
      BY <1>9, <2>1
    <3> QED BY <1>1, <1>4, <1>7, <2>2, <3>1 DEF Ran, WithSlot, Machine
  <2> QED BY <1>5, <2>3 DEF Ret, ForkEnd
<1>12. /\ x \in Machine /\ x.pt = y.pt /\ x.data = y.data /\ x.free = y.free
       /\ x.proc = WithSlot(w.proc, j, q2) /\ x.ret = j
  BY <1>6, <1>10, <1>11, RetFields
<1>13. g \in [Procs -> HistType] /\ g[j] = ForkHist(h[k]) /\ \A i \in Procs : i # j => g[i] = h[i]
  <2>1. ForkHist(h[k]) \in HistType
    BY <1>1, ForkHistFields
  <2> QED BY <1>1, <1>3, <2>1 DEF HistAt
<1>14. Image_(y, c, q2, n, g[j]) /\ GuardOK(g[j], n)
  BY <1>8, <1>13, ForkImage
<1>15. n <= NFrames
  BY <1>1 DEF Process
<1>16. Adopting(w, o, h, a, p, j, q, y, p2, x, q2, g)
  BY <1>2, <1>5, <1>8, <1>12, <1>13, <1>14, <1>15 DEF Adopting
<1> QED BY <1>12, <1>16, Adopted

(* What Fork does with the history.                                        *)
Forked(w, o, h, k, x) ==
  \/ x.ret < 0 /\ \E p : Mem(x, p, h)
  \/ ~(x.ret < 0) /\ \E p : Mem(x, p, HistAt(h, x.ret, ForkHist(h[k])))

LEMMA SysForks ==
  ASSUME NEW w, NEW o, NEW h, Mem(w, o, h), NEW k \in Procs, w.proc[k].state # "UNUSED",
         NEW x, x = SysFork(w, k)
  PROVE  Forked(w, o, h, k, x)
<1>1. PICK a, j : a = Allocproc(w) /\ j = a.ret
  OBVIOUS
<1>2. Own(w, o) /\ UnusedSlots(w)
  BY InUseIs DEF Mem, UnusedSlots
<1>3. \/ a.ret = 0 /\ \E p : Touch(w, o, a, p, {}) /\ a.proc = w.proc
      \/ a.ret # 0 /\ \E p, q : Allocated(w, o, a, p, a.ret, q)
  BY <1>1, <1>2, Allocprocs
<1>4. x = ForkInto(a, k, j)
  BY <1>1 DEF SysFork
<1>5. CASE j = 0
  <2>1. PICK p : Touch(w, o, a, p, {}) /\ a.proc = w.proc
    BY <1>1, <1>3, <1>5
  <2>2. x = Ret(a, -1)
    BY <1>4, <1>5 DEF ForkInto
  <2>3. Touch(w, o, x, p, {}) /\ x.ret = -1 /\ x.proc = w.proc
    BY <2>1, <2>2, TouchError
  <2>4. Mem(x, p, h)
    BY <2>3, MemSame
  <2> QED BY <2>3, <2>4 DEF Forked
<1>6. CASE j # 0
  <2>1. PICK p, q : Allocated(w, o, a, p, j, q)
    BY <1>1, <1>3, <1>6
  <2>2. PICK f : f = w.proc[k]
    OBVIOUS
  <2>3. Forking(w, o, h, a, p, j, q, k, f)
    BY <2>1, <2>2 DEF Forking
  <2>4. a.proc[k] = f /\ a.proc[j] = q /\ j \in Procs /\ k # j
    BY <2>3, ForkFacts
  <2>5. PICK r, c, n : r = f.pagetable /\ c = q.pagetable /\ n = Pages(f.sz)
    OBVIOUS
  <2>6. PICK y : y = Uvmcopy(a, r, c, f.sz)
    OBVIOUS
  <2>7. x = ForkCopied(y, k, j)
    BY <1>4, <1>6, <2>4, <2>5, <2>6 DEF ForkInto
  <2>8. Copies(a, p, y, r, c, n)
    BY <2>3, <2>5, <2>6, ForkCopies
  <2>9. CASE y.ret = -1 /\ \E p2 : Keep(a, p, y, p2) /\ SamePtes(p, a, y)
    <3>1. PICK p2 : Keep(a, p, y, p2) /\ SamePtes(p, a, y)
      BY <2>9
    <3>2. y.ret < 0
      BY <2>9
    <3>3. x = Ret(Freeproc(y, j), -1)
      BY <2>7, <3>2 DEF ForkCopied
    <3>4. x.ret = -1 /\ \E p3 : Mem(x, p3, h)
      BY <2>3, <3>1, <3>3, ForkFails
    <3> QED BY <3>4 DEF Forked
  <2>10. CASE y.ret = 0 /\ \E p2 : Keep(a, p, y, p2) /\ Others(p, a, y, c) /\ SamePerms(a, y, r, c, n)
    <3>1. PICK p2 : Keep(a, p, y, p2) /\ Others(p, a, y, c) /\ SamePerms(a, y, r, c, n)
      BY <2>10
    <3>2. ~(y.ret < 0)
      BY <2>10
    <3>3. y.proc = a.proc /\ y.proc[k] = f
      BY <2>4, <3>1 DEF Keep
    <3>4. x = ForkEnd(y, f.sz, k, j)
      BY <2>7, <3>2, <3>3 DEF ForkCopied, ForkEnd
    <3>5. PICK g : g = HistAt(h, j, ForkHist(h[k]))
      OBVIOUS
    <3>6. x.ret = j /\ Mem(x, p2, g)
      BY <2>3, <2>5, <3>1, <3>4, <3>5, ForkSucceeds
    <3>7. ~(x.ret < 0)
      BY <2>4, <3>6, UserAssumption DEF Procs
    <3> QED BY <3>5, <3>6, <3>7 DEF Forked
  <2> QED BY <2>8, <2>9, <2>10 DEF Copies
<1> QED BY <1>5, <1>6

-----------------------------------------------------------------------------
(* exit() and wait().                                                      *)

(* A process does not depend on its state and its parent, and on more of   *)
(* its history than this.                                                  *)
LEMMA ProcessSame ==
  ASSUME NEW w, NEW o, NEW k, NEW q, NEW h, Process(w, o, k, q, h), NEW q2, SameFields(q, q2),
         q2.sz = q.sz, q2.state \in {"RUNNABLE", "ZOMBIE"}
  PROVE  Process(w, o, k, q2, h)
<1>1. \A v : TopPte(q2, v) = TopPte(q, v)
  BY DEF TopPte, SameFields
<1>2. q2.pagetable = q.pagetable /\ q2.usyscall = q.usyscall /\ q2.pid = q.pid /\ Owns(o, k, q2)
  BY DEF SameFields, Process, Owns
<1>3. PICK n : n = Pages(q.sz)
  OBVIOUS
<1>4. Image_(w, q.pagetable, q, n, h)
  BY <1>3 DEF Process
<1>5. Image_(w, q.pagetable, q2, n, h)
  BY <1>1, <1>4 DEF Image_, PteIs
<1> QED BY <1>2, <1>3, <1>5 DEF Process

SameHist(g, h) ==
  g.guard = h.guard /\ Marked(g) = Marked(h)

LEMMA ProcessHist ==
  ASSUME NEW w, NEW o, NEW k, NEW q, NEW h, Process(w, o, k, q, h), NEW g, SameHist(g, h),
         ~g.scribbled => ~h.scribbled
  PROVE  Process(w, o, k, q, g)
<1>1. PICK n : n = Pages(q.sz)
  OBVIOUS
<1>2. Image_(w, q.pagetable, q, n, h) /\ GuardOK(h, n)
  BY <1>1 DEF Process
<1>3. Image_(w, q.pagetable, q, n, g) /\ GuardOK(g, n)
  BY <1>2 DEF Image_, PteIs, SameHist, GuardOK
<1> QED BY <1>1, <1>3 DEF Process

Exited(ps, p) ==
  [q \in Procs |-> IF q = p THEN [ps[p] EXCEPT !.state = "ZOMBIE"]
                   ELSE IF ps[q].parent = p THEN [ps[q] EXCEPT !.parent = 1]
                   ELSE ps[q]]

LEMMA SysExits ==
  ASSUME NEW w, NEW o, NEW h, Mem(w, o, h), NEW p \in Procs, w.proc[p].state # "UNUSED",
         NEW x, x = SysExit(w, p)
  PROVE  Mem(x, o, h) /\ x.ret = w.ret /\ x.left = w.left
<1>1. PICK ps : ps = Exited(w.proc, p)
  OBVIOUS
<1>2. Own(w, o) /\ w \in Machine /\ w.proc \in [Procs -> ProcType]
  BY Left, MachineFields DEF Mem
<1>3. x = [w EXCEPT !.proc = ps]
  BY <1>1, <1>2 DEF SysExit, Exited, Machine
<1>4. ASSUME NEW k \in Procs
      PROVE  /\ ps[k] \in ProcType
             /\ w.proc[k] = UnusedProc => ps[k] = UnusedProc
             /\ SameFields(w.proc[k], ps[k]) /\ ps[k].sz = w.proc[k].sz
             /\ ps[k].state = w.proc[k].state \/ ps[k].state = "ZOMBIE"
  <2>1. PICK q : q = w.proc[k]
    OBVIOUS
  <2>2. q \in ProcType
    BY <1>2, <2>1
  <2>3. CASE k = p
    <3>1. ps[k] = [q EXCEPT !.state = "ZOMBIE"]
      BY <1>1, <2>1, <2>3 DEF Exited
    <3>2. q # UnusedProc
      BY <2>1, <2>3 DEF UnusedProc
    <3> QED BY <2>1, <2>2, <3>1, <3>2 DEF ProcType, States, SameFields
  <2>4. CASE k # p /\ q.parent = p
    <3>1. ps[k] = [q EXCEPT !.parent = 1]
      BY <1>1, <2>1, <2>4 DEF Exited
    <3>2. q # UnusedProc
      <4>1. p # 0
        BY DEF Procs
      <4> QED BY <2>4, <4>1 DEF UnusedProc
    <3>3. 1 \in 0..NPROC
      BY UserAssumption
    <3> QED BY <2>1, <2>2, <3>1, <3>2, <3>3 DEF ProcType, SameFields
  <2>5. CASE k # p /\ q.parent # p
    <3>1. ps[k] = q
      BY <1>1, <2>1, <2>5 DEF Exited
    <3> QED BY <2>1, <2>2, <3>1 DEF SameFields
  <2> QED BY <2>3, <2>4, <2>5
<1>5. ps \in [Procs -> ProcType]
  <2>1. ps = [k \in Procs |-> ps[k]]
    BY <1>1 DEF Exited
  <2> QED BY <1>4, <2>1
<1>6. /\ x \in Machine /\ x.pt = w.pt /\ x.data = w.data /\ x.free = w.free /\ x.left = w.left
      /\ x.ret = w.ret /\ x.proc = ps
  BY <1>2, <1>3, <1>5, ProcFields
<1>7. Touch(w, o, x, o, {})
  BY <1>2, <1>6, TouchRefit
<1>8. ASSUME NEW k \in Procs
      PROVE  /\ SlotOK(x, o, k, ps[k], h[k])
             /\ \A f \in Fields(w.proc[k]) : f \in Fields(ps[k])
  <2>1. PICK q : q = w.proc[k]
    OBVIOUS
  <2>2. SlotOK(w, o, k, q, h[k])
    BY <2>1 DEF Mem
  <2>3. SlotOK(x, o, k, q, h[k])
    BY <1>7, <2>2, SlotKept
  <2>4. Fields(ps[k]) = Fields(q)
    BY <1>4, <2>1 DEF Fields, SameFields
  <2>5. CASE q = UnusedProc
    BY <1>4, <2>1, <2>4, <2>5 DEF SlotOK
  <2>6. CASE q # UnusedProc
    <3>1. Process(x, o, k, q, h[k])
      BY <2>3, <2>6 DEF SlotOK
    <3>2. ps[k].state \in {"RUNNABLE", "ZOMBIE"}
      BY <1>4, <2>1, <3>1 DEF Process
    <3>3. Process(x, o, k, ps[k], h[k])
      BY <1>4, <2>1, <3>1, <3>2, ProcessSame
    <3> QED BY <2>1, <2>4, <3>3 DEF SlotOK
  <2> QED BY <2>5, <2>6
<1>9. Stepped(w, o, h, x, o, h, {}, Procs)
  BY <1>6, <1>7, <1>8 DEF Stepped, Mem
<1> QED BY <1>6, <1>9, MemStep

(* copyout() has written to a page of process k.                           *)
Wrote(w, o, h, x, r, va, d, k, g) ==
  /\ Mem(w, o, h) /\ k \in Procs /\ w.proc[k].state # "UNUSED" /\ r = w.proc[k].pagetable
  /\ Written(w, o, x, r, va, d) /\ g \in [Procs -> HistType]
  /\ \A i \in Procs : i # k => g[i] = h[i]
  /\ SameHist(g[k], h[k]) /\ (~g[k].scribbled => ~h[k].scribbled /\ va # USYSCALL)

LEMMA WroteMem ==
  ASSUME NEW w, NEW o, NEW h, NEW x, NEW r, NEW va, NEW d, NEW k, NEW g,
         Wrote(w, o, h, x, r, va, d, k, g)
  PROVE  Mem(x, o, g)
<1> USE DEF Wrote
<1>1. PICK q : q = w.proc[k]
  OBVIOUS
<1>2. Process(w, o, k, q, h[k]) /\ q \in ProcType /\ Own(w, o)
  BY <1>1, InUseIs DEF Mem
<1>3. PICK n : n = Pages(q.sz)
  OBVIOUS
<1>4. n \in Nat /\ n <= NFrames /\ Root_(o, r) /\ n < USYSCALL
  BY <1>1, <1>2, <1>3, ImageFacts
<1>5. Owns(o, k, q) /\ Image_(w, r, q, n, h[k])
  BY <1>1, <1>2, <1>3 DEF Process
<1>6. PICK e, a : e = PteAt(w, r, va) /\ a = e.pa
  OBVIOUS
<1>7. /\ va \in VA /\ "U" \in e.perm /\ Own(x, o) /\ SamePtes(o, w, x) /\ x.proc = w.proc
      /\ \A f \in Frames : x.data[f] = IF f = a THEN d ELSE w.data[f]
  BY <1>6 DEF Written
<1>8. PteIs(e, va, q, n, h[k])
  BY <1>5, <1>6, <1>7 DEF Image_
<1>9. a \in Frames /\ (va >= USYSCALL => va = USYSCALL /\ a = q.usyscall)
      /\ (va < USYSCALL => o[a][1] = "page")
  <2>1. q.trapframe \in Frames /\ q.usyscall \in Frames
    BY <1>5 DEF Owns
  <2>2. /\ va < USYSCALL /\ va >= n => e = NoPte
        /\ va < USYSCALL /\ va < n => e.pa # 0 /\ Mine(e)
        /\ "U" \in e.perm => e.pa \in Frames
    BY <1>2, <1>4, <1>6, <1>7, <1>8, <2>1, PteKinds
  <2>3. NoPte.perm = {}
    BY DEF NoPte
  <2>4. va \in Nat /\ USYSCALL \in Nat /\ TRAPFRAME = USYSCALL + 1 /\ TRAMPOLINE = USYSCALL + 2
    BY <1>7, Layout
  <2>5. CASE va >= USYSCALL
    <3>1. e.pa = TopPte(q, va).pa /\ e.perm \ {"A"} = TopPte(q, va).perm
      BY <1>8, <2>5 DEF PteIs
    <3>2. "U" \in TopPte(q, va).perm
      BY <1>7, <3>1
    <3>3. va # TRAMPOLINE /\ va # TRAPFRAME
      BY <3>2 DEF TopPte
    <3>4. va = USYSCALL
      <4>1. va < MAXVA /\ MAXVA = USYSCALL + 3
        BY <1>7, <2>4, Layout DEF VA
      <4> QED BY <2>4, <2>5, <3>3, <4>1
    <3>5. a = q.usyscall
      BY <1>6, <3>1, <3>3 DEF TopPte
    <3> QED BY <2>1, <2>4, <3>4, <3>5
  <2>6. CASE va < USYSCALL
    <3>1. e.pa # 0 /\ Mine(e)
      BY <1>4, <1>7, <2>2, <2>3, <2>4, <2>6
    <3>2. e.pa \in Frames /\ o[e.pa] = <<"page", BotOf(w, r, va), PX(0, va)>>
      BY Z3T(30), <1>2, <1>4, <1>6, <1>7, <3>1, MinePte
    <3> QED BY <1>6, <2>4, <2>6, <3>2
  <2> QED BY <2>4, <2>5, <2>6
<1>10. PICK R : R = {a}
  OBVIOUS
<1>11. Touch(w, o, x, o, R) /\ (o[a][1] # "loose" => Touch(w, o, x, o, {}))
  BY <1>6, <1>9, <1>10, TouchWritten
<1>12. Process(w, o, k, q, g[k])
  BY <1>2, ProcessHist
<1>13. SlotOK(x, o, k, q, g[k])
  <2>1. CASE va < USYSCALL
    <3>1. Touch(w, o, x, o, {})
      BY <1>9, <1>11, <2>1
    <3>2. SlotOK(w, o, k, q, g[k])
      BY <1>12 DEF SlotOK
    <3> QED BY <3>1, <3>2, SlotKept
  <2>2. CASE va = USYSCALL
    <3>1. g[k].scribbled
      BY <2>2
    <3>2. Image_(w, r, q, n, g[k])
      BY <1>1, <1>3, <1>12 DEF Process
    <3>3. \A v \in VA : PteAt(x, r, v) = PteAt(w, r, v)
      BY <1>4, <1>7 DEF SamePtes
    <3>4. Image_(x, r, q, n, g[k])
      BY <3>2, <3>3 DEF Image_
    <3> QED BY <1>1, <1>3, <1>12, <3>1, <3>4 DEF Process, SlotOK
  <2>3. va < USYSCALL \/ va = USYSCALL
    BY <1>7, <1>9, Layout
  <2> QED BY <2>1, <2>2, <2>3
<1>14. PICK J : J = {k}
  OBVIOUS
<1>15. CASE va < USYSCALL
  <2>1. Touch(w, o, x, o, {})
    BY <1>9, <1>11, <1>15
  <2>2. Stepped(w, o, h, x, o, g, {}, J)
    BY <1>1, <1>7, <1>13, <1>14, <2>1 DEF Stepped
  <2> QED BY <2>2, MemStep
<1>16. CASE va = USYSCALL
  <2>1. a = q.usyscall /\ o[a] = <<"loose", 2, k>> /\ a \in Fields(q)
    <3>1. 0 \notin Frames
      BY DEF Frames
    <3>2. a = q.usyscall
      BY <1>7, <1>9, <1>16, Layout
    <3> QED BY <1>5, <3>1, <3>2 DEF Owns, Fields
  <2>2. ASSUME NEW f \in Frames, f \in R PROVE o[f][3] = k /\ f \in Fields(q)
    BY <1>10, <2>1, <2>2
  <2>3. Stepped(w, o, h, x, o, g, R, J)
    BY <1>1, <1>7, <1>11, <1>13, <1>14, <2>2 DEF Stepped
  <2> QED BY <2>3, MemStep
<1>17. va < USYSCALL \/ va = USYSCALL
  BY <1>7, <1>9, Layout
<1> QED BY <1>15, <1>16, <1>17

LEMMA MemRet ==
  ASSUME NEW w, NEW o, NEW h, Mem(w, o, h), NEW a \in Int, NEW x, x = Ret(w, a)
  PROVE  Mem(x, o, h) /\ x.ret = a /\ x.proc = w.proc
<1>1. Touch(w, o, w, o, {})
  BY TouchRefl DEF Mem
<1>2. Touch(w, o, x, o, {}) /\ x.ret = a /\ x.proc = w.proc
  BY <1>1, TouchRet
<1> QED BY <1>2, MemSame

LEMMA MemHist ==
  ASSUME NEW w, NEW o, NEW h, Mem(w, o, h), NEW g \in [Procs -> HistType],
         \A k \in Procs : SameHist(g[k], h[k]) /\ (~g[k].scribbled => ~h[k].scribbled)
  PROVE  Mem(w, o, g)
<1>1. ASSUME NEW k \in Procs PROVE SlotOK(w, o, k, w.proc[k], g[k])
  <2>1. SlotOK(w, o, k, w.proc[k], h[k])
    BY DEF Mem
  <2>2. ASSUME Process(w, o, k, w.proc[k], h[k]) PROVE Process(w, o, k, w.proc[k], g[k])
    BY <2>2, ProcessHist
  <2> QED BY <2>1, <2>2 DEF SlotOK
<1> QED BY <1>1 DEF Mem

(* What Wait does with the history: of the caller, and of both processes.  *)
Scribbles(h, addr) == [h EXCEPT !.scribbled = @ \/ addr = USYSCALL]
WaitHist(h, j, k, addr) == [h EXCEPT ![j] = NewHist, ![k].scribbled = @ \/ addr = USYSCALL]

LEMMA ScribblesFields ==
  ASSUME NEW h \in HistType, NEW addr, NEW g, g = Scribbles(h, addr)
  PROVE  /\ g \in HistType /\ SameHist(g, h)
         /\ ~g.scribbled => ~h.scribbled /\ addr # USYSCALL
         /\ g.scribbled <=> h.scribbled \/ addr = USYSCALL
BY DEF Scribbles, HistType, SameHist, Marked

LEMMA NewHistType == NewHist \in HistType
<1>1. MAXVA \in Nat
  BY Layout
<1> QED BY <1>1 DEF NewHist, HistType

WaitHists(h, j, k, addr, g, h1) ==
  /\ g \in [Procs -> HistType] /\ h1 \in [Procs -> HistType]
  /\ \A i \in Procs : i # j => g[i] = h1[i]
  /\ \A i \in Procs : i # k => h1[i] = h[i]
  /\ h1[k] = Scribbles(h[k], addr)

LEMMA WaitHistFields ==
  ASSUME NEW h \in [Procs -> HistType], NEW j \in Procs, NEW k \in Procs, j # k, NEW addr
  PROVE  WaitHists(h, j, k, addr, WaitHist(h, j, k, addr), HistAt(h, k, Scribbles(h[k], addr)))
<1> DEFINE g == WaitHist(h, j, k, addr)
           h1 == HistAt(h, k, Scribbles(h[k], addr))
<1>1. PICK s, n : s = Scribbles(h[k], addr) /\ n = NewHist
  OBVIOUS
<1>2. s \in HistType /\ n \in HistType
  BY <1>1, ScribblesFields, NewHistType
<1>3. g = [h EXCEPT ![j] = n, ![k] = s]
  BY <1>1 DEF WaitHist, Scribbles
<1>4. h1 = [h EXCEPT ![k] = s]
  BY <1>1 DEF HistAt
<1> HIDE DEF g, h1
<1>5. WaitHists(h, j, k, addr, g, h1)
  BY <1>1, <1>2, <1>3, <1>4 DEF WaitHists
<1> QED BY <1>5 DEF g, h1

(* What Wait does with the machine and the history.                        *)
Waited(w, o, h, k, addr, x) ==
  \/ x.ret < 0 /\ \E p : Mem(x, p, h)
  \/ ~(x.ret < 0) /\ \E p : Mem(x, p, WaitHist(h, x.ret, k, addr))

(* The copyout() of wait() and of pgaccess(), or nothing for wait(0).      *)
CopiedOut(w, o, h, k, addr, c) ==
  \/ c.ret < 0 /\ \E p : Mem(c, p, h) /\ c.proc = w.proc
  \/ c.ret = 0 /\ Mem(c, o, HistAt(h, k, Scribbles(h[k], addr))) /\ c.proc = w.proc

LEMMA CopiesOut ==
  ASSUME NEW w, NEW o, NEW h, Mem(w, o, h), NEW k \in Procs, w.proc[k].state # "UNUSED",
         NEW addr \in Nat, NEW c, c = Copyout(w, w.proc[k].pagetable, addr, Out)
  PROVE  CopiedOut(w, o, h, k, addr, c)
<1>1. PICK q : q = w.proc[k]
  OBVIOUS
<1>2. Process(w, o, k, q, h[k]) /\ q \in ProcType /\ Own(w, o) /\ h[k] \in HistType
  BY <1>1, InUseIs DEF Mem
<1>3. PICK r : r = q.pagetable
  OBVIOUS
<1>4. Root_(o, r) /\ Reachable(w, r)
  BY <1>2, <1>3, ImageFacts
<1>5. Out \in DataType
  BY DEF DataType, Data
<1>6. c = Copyout(w, r, addr, Out)
  BY <1>1, <1>3
<1>7. CASE c.ret = -1 /\ Returned(w, o, c)
  <2>1. Touch(w, o, c, o, {}) /\ c.proc = w.proc
    BY <1>7, TouchSame DEF Returned
  <2>2. Mem(c, o, h)
    BY <2>1, MemSame
  <2>3. c.ret < 0
    BY <1>7
  <2> QED BY <2>1, <2>2, <2>3 DEF CopiedOut
<1>8. CASE Written(w, o, c, r, addr, Out)
  <2>1. PICK g : g = HistAt(h, k, Scribbles(h[k], addr))
    OBVIOUS
  <2>2. h \in [Procs -> HistType]
    BY DEF Mem
  <2>3. PICK s : s = Scribbles(h[k], addr)
    OBVIOUS
  <2>4. s \in HistType /\ SameHist(s, h[k]) /\ (~s.scribbled => ~h[k].scribbled /\ addr # USYSCALL)
    BY <1>2, <2>3, ScribblesFields
  <2>5. g \in [Procs -> HistType] /\ g[k] = s /\ \A i \in Procs : i # k => g[i] = h[i]
    BY <2>1, <2>2, <2>3, <2>4 DEF HistAt
  <2>6. Wrote(w, o, h, c, r, addr, Out, k, g)
    BY <1>1, <1>3, <1>8, <2>4, <2>5 DEF Wrote
  <2>7. Mem(c, o, g)
    BY <2>6, WroteMem
  <2> QED BY <1>8, <2>1, <2>7 DEF CopiedOut, Written
<1> QED BY <1>2, <1>4, <1>5, <1>6, <1>7, <1>8, Copyouts

LEMMA SysWaits ==
  ASSUME NEW w, NEW o, NEW h, Mem(w, o, h), NEW k \in Procs, w.proc[k].state = "RUNNABLE",
         NEW addr \in Nat, Zombies(w, k) # {}, NEW x, x = SysWait(w, k, addr)
  PROVE  Waited(w, o, h, k, addr, x)
<1>1. PICK j : j = Min(Zombies(w, k))
  OBVIOUS
<1>2. j \in Zombies(w, k)
  <2>1. Zombies(w, k) \subseteq Nat
    BY DEF Zombies, Procs
  <2> QED BY <1>1, <2>1, MinNumber
<1>3. j \in Procs /\ w.proc[j].state = "ZOMBIE" /\ j # k /\ j \in Int /\ ~(j < 0)
  BY <1>2, UserAssumption DEF Zombies, Procs
<1>4. PICK c : c = IF addr = MAXVA THEN Ret(w, 0) ELSE Copyout(w, w.proc[k].pagetable, addr, Out)
  OBVIOUS
<1>5. x = IF c.ret < 0 THEN c ELSE Ret(Freeproc(c, j), j)
  BY Zenon, <1>1, <1>4 DEF SysWait
<1>6. PICK g, h1 : g = WaitHist(h, j, k, addr) /\ h1 = HistAt(h, k, Scribbles(h[k], addr))
  OBVIOUS
<1>7. h \in [Procs -> HistType] /\ h[k] \in HistType
  BY DEF Mem
<1>8. /\ g \in [Procs -> HistType] /\ h1 \in [Procs -> HistType]
      /\ \A i \in Procs : i # j => g[i] = h1[i]
      /\ \A i \in Procs : i # k => h1[i] = h[i]
      /\ h1[k] = Scribbles(h[k], addr)
  <2>1. j \in Procs /\ k \in Procs /\ j # k /\ h \in [Procs -> HistType]
    BY <1>3, <1>7
  <2>2. WaitHists(h, j, k, addr, g, h1)
    BY <1>6, <2>1, WaitHistFields
  <2> QED BY <2>2 DEF WaitHists
<1>9. \/ c.ret < 0 /\ \E p : Mem(c, p, h)
      \/ c.ret = 0 /\ Mem(c, o, h1) /\ c.proc = w.proc
  <2>1. CASE addr = MAXVA
    <3>1. c = Ret(w, 0) /\ 0 \in Int
      BY <1>4, <2>1
    <3>2. Mem(c, o, h) /\ c.ret = 0 /\ c.proc = w.proc
      BY <3>1, MemRet
    <3>3. addr # USYSCALL
      BY <2>1, Layout
    <3>4. \A i \in Procs : SameHist(h1[i], h[i]) /\ (~h1[i].scribbled => ~h[i].scribbled)
      <4>1. PICK s : s = Scribbles(h[k], addr)
        OBVIOUS
      <4>2. SameHist(s, h[k]) /\ (~s.scribbled => ~h[k].scribbled)
        BY <1>7, <4>1, ScribblesFields
      <4>3. h1[k] = s
        BY <1>8, <4>1
      <4> QED BY <1>8, <4>2, <4>3 DEF SameHist
    <3>5. Mem(c, o, h1)
      BY <1>8, <3>2, <3>4, MemHist
    <3> QED BY <3>2, <3>5
  <2>2. CASE addr # MAXVA
    <3>1. c = Copyout(w, w.proc[k].pagetable, addr, Out)
      BY <1>4, <2>2
    <3>2. CopiedOut(w, o, h, k, addr, c)
      BY <3>1, CopiesOut
    <3> QED BY <1>6, <3>2 DEF CopiedOut
  <2> QED BY <2>1, <2>2
<1>10. CASE c.ret < 0 /\ \E p : Mem(c, p, h)
  BY <1>5, <1>10 DEF Waited
<1>11. CASE c.ret = 0 /\ Mem(c, o, h1) /\ c.proc = w.proc
  <2>1. PICK y : y = Freeproc(c, j)
    OBVIOUS
  <2>2. c.proc[j].state # "UNUSED"
    BY <1>3, <1>11
  <2>3. PICK p : Mem(y, p, g)
    BY <1>3, <1>8, <1>11, <2>1, <2>2, MemFreed
  <2>4. x = Ret(y, j)
    BY <1>5, <1>11, <2>1
  <2>5. Mem(x, p, g) /\ x.ret = j
    BY <1>3, <2>3, <2>4, MemRet
  <2> QED BY <1>3, <1>6, <2>5 DEF Waited
<1> QED BY <1>9, <1>10, <1>11

-----------------------------------------------------------------------------
(* PTE_A, which the hardware sets and pgaccess() clears.                   *)

WithA(e) == [e EXCEPT !.perm = @ \cup {"A"}]
WithoutA(e) == [e EXCEPT !.perm = @ \ {"A"}]

LEMMA WithAFields ==
  ASSUME NEW e \in PteType
  PROVE  /\ WithA(e) \in PteType /\ WithA(e).pa = e.pa /\ WithA(e).perm = e.perm \cup {"A"}
         /\ WithoutA(e) \in PteType /\ WithoutA(e).pa = e.pa /\ WithoutA(e).perm = e.perm \ {"A"}
BY DEF WithA, WithoutA, PteType

(* A user page of process k gets the PTE e, which differs from the one it  *)
(* has in PTE_A, and the history of k follows.                             *)
Marks(w, o, h, k, r, v, e, g) ==
  /\ Mem(w, o, h) /\ k \in Procs /\ w.proc[k].state # "UNUSED" /\ r = w.proc[k].pagetable
  /\ v \in VA /\ "U" \in PteAt(w, r, v).perm /\ e \in PteType
  /\ e.pa = PteAt(w, r, v).pa /\ e.perm \ {"A"} = PteAt(w, r, v).perm \ {"A"}
  /\ g \in [Procs -> HistType] /\ \A i \in Procs : i # k => g[i] = h[i]
  /\ g[k].guard = h[k].guard /\ (~g[k].scribbled => ~h[k].scribbled)
  /\ "A" \in e.perm <=> v \in Marked(g[k])
  /\ \A u \in VA : u # v => (u \in Marked(g[k]) <=> u \in Marked(h[k]))

LEMMA UserPage ==
  ASSUME NEW w, NEW o, NEW h, Mem(w, o, h), NEW k \in Procs, NEW q, q = w.proc[k], q.state # "UNUSED",
         NEW v \in VA, NEW e, e = PteAt(w, q.pagetable, v), "U" \in e.perm
  PROVE  e.pa # 0 /\ e.pa \in Frames /\ v < TRAPFRAME /\ (v # USYSCALL => v < USYSCALL /\ o[e.pa][1] = "page")
<1>1. Process(w, o, k, q, h[k]) /\ q \in ProcType /\ Own(w, o)
  BY InUseIs DEF Mem
<1>2. PICK n, r : n = Pages(q.sz) /\ r = q.pagetable
  OBVIOUS
<1>3. n \in Nat /\ n <= NFrames /\ Root_(o, r) /\ n < USYSCALL /\ q.trapframe \in Frames /\ q.usyscall \in Frames
  BY <1>1, <1>2, ImageFacts DEF Process, Owns
<1>4. PteIs(e, v, q, n, h[k])
  BY <1>1, <1>2 DEF Process, Image_
<1>5. /\ v < USYSCALL /\ v >= n => e = NoPte
      /\ v < USYSCALL /\ v < n => e.pa # 0 /\ Mine(e)
      /\ "U" \in e.perm => e.pa \in Frames
  BY <1>1, <1>2, <1>3, <1>4, PteKinds
<1>6. NoPte.perm = {} /\ 0 \notin Frames
  BY DEF NoPte, Frames
<1>7. v \in Nat /\ USYSCALL \in Nat /\ TRAPFRAME = USYSCALL + 1 /\ TRAMPOLINE = USYSCALL + 2
      /\ v < MAXVA /\ MAXVA = USYSCALL + 3
  BY Layout DEF VA
<1>8. e.pa \in Frames /\ e.pa # 0
  BY <1>5, <1>6
<1>9. CASE v >= USYSCALL
  <2>1. e.perm \ {"A"} = TopPte(q, v).perm
    BY <1>4, <1>9 DEF PteIs
  <2>2. "U" \in TopPte(q, v).perm
    BY <2>1
  <2>3. v # TRAMPOLINE /\ v # TRAPFRAME
    BY <2>2 DEF TopPte
  <2>4. v = USYSCALL
    BY <1>7, <1>9, <2>3
  <2> QED BY <1>7, <1>8, <2>4
<1>10. CASE v < USYSCALL
  <2>1. e.pa # 0 /\ Mine(e)
    BY <1>3, <1>5, <1>6, <1>7, <1>10
  <2>2. o[e.pa] = <<"page", BotOf(w, r, v), PX(0, v)>>
    BY Z3T(30), <1>1, <1>2, <1>3, <2>1, MinePte
  <2> QED BY <1>7, <1>8, <1>10, <2>2
<1> QED BY <1>7, <1>9, <1>10

LEMMA MarksMem ==
  ASSUME NEW w, NEW o, NEW h, NEW k, NEW r, NEW v, NEW e, NEW g, Marks(w, o, h, k, r, v, e, g),
         NEW x, x = SetPteAt(w, r, v, e)
  PROVE  /\ Mem(x, o, g) /\ Keep(w, o, x, o) /\ Others(o, w, x, r) /\ Remap(w, x, r, v, e)
         /\ x.proc = w.proc /\ x.ret = w.ret /\ x.left = w.left /\ x.free = w.free /\ x.data = w.data
<1> USE DEF Marks
<1>1. PICK q, n, f : q = w.proc[k] /\ n = Pages(q.sz) /\ f = PteAt(w, r, v)
  OBVIOUS
<1>2. Process(w, o, k, q, h[k]) /\ q \in ProcType /\ Own(w, o)
  BY <1>1, InUseIs DEF Mem
<1>3. n \in Nat /\ n <= NFrames /\ Root_(o, r) /\ n < USYSCALL /\ Owns(o, k, q)
      /\ Image_(w, r, q, n, h[k]) /\ GuardOK(h[k], n)
  BY <1>1, <1>2, ImageFacts DEF Process
<1>4. f.pa # 0 /\ v < TRAPFRAME
  BY <1>1, UserPage
<1>5. LeafChange(w, o, r, v, e)
  <2>1. e.perm # {} /\ (Mine(e) <=> Mine(f))
    BY <1>1 DEF Mine
  <2> QED BY <1>1, <1>2, <1>3, <1>4, <2>1 DEF LeafChange
<1>6. LeafChanged(w, o, x, r, v, e)
  BY <1>5, LeafChanges
<1>7. /\ Keep(w, o, x, o) /\ Others(o, w, x, r) /\ Remap(w, x, r, v, e) /\ x.proc = w.proc
      /\ x.ret = w.ret /\ x.left = w.left /\ x.free = w.free /\ x.data = w.data
  BY <1>6 DEF LeafChanged, Keep
<1>8. PICK R, J : R = {r} /\ J = {k}
  OBVIOUS
<1>9. Touch(w, o, x, o, R)
  BY <1>7, <1>8, TouchKeep
<1>10. Image_(x, r, q, n, g[k])
  <2>1. ASSUME NEW u \in VA PROVE PteIs(PteAt(x, r, u), u, q, n, g[k])
    <3>1. PteIs(PteAt(w, r, u), u, q, n, h[k]) /\ (u = v => PteIs(f, v, q, n, h[k]))
      BY <1>1, <1>3 DEF Image_
    <3>2. PICK d : d = PteAt(x, r, u)
      OBVIOUS
    <3>3. d = IF u = v THEN e ELSE PteAt(w, r, u)
      BY <1>7, <3>2 DEF Remap
    <3>4. ASSUME u = v PROVE PteIs(d, u, q, n, g[k])
      <4>1. d = e /\ e.pa = f.pa /\ e.perm \ {"A"} = f.perm \ {"A"} /\ g[k].guard = h[k].guard
        BY <1>1, <3>3, <3>4
      <4>2. "A" \in e.perm <=> v \in Marked(g[k])
        OBVIOUS
      <4>3. ~(v >= TRAPFRAME)
        BY <1>4, Layout
      <4> QED BY <3>1, <3>4, <4>1, <4>2, <4>3 DEF PteIs
    <3>5. ASSUME u # v PROVE PteIs(d, u, q, n, g[k])
      <4>1. d = PteAt(w, r, u) /\ g[k].guard = h[k].guard
        BY <3>3, <3>5
      <4>2. u \in Marked(g[k]) <=> u \in Marked(h[k])
        BY <3>5
      <4> QED BY <3>1, <4>1, <4>2 DEF PteIs
    <3> QED BY <3>2, <3>4, <3>5
  <2> QED BY <2>1 DEF Image_
<1>11. SlotOK(x, o, k, q, g[k])
  <2>1. ~g[k].scribbled => x.data[q.usyscall] = q.pid
    BY <1>2, <1>7 DEF Process
  <2>2. GuardOK(g[k], n)
    BY <1>3 DEF GuardOK
  <2> QED BY <1>1, <1>2, <1>3, <1>10, <2>1, <2>2 DEF SlotOK, Process
<1>12. ASSUME NEW f2 \in Frames, f2 \in R PROVE o[f2][3] = k /\ f2 \in Fields(q)
  <2>1. f2 = q.pagetable /\ 0 \notin Frames
    BY <1>1, <1>8, <1>12 DEF Frames
  <2> QED BY <1>3, <2>1 DEF Owns, Fields
<1>13. Stepped(w, o, h, x, o, g, R, J)
  BY <1>1, <1>7, <1>8, <1>9, <1>11, <1>12 DEF Stepped
<1> QED BY <1>7, <1>13, MemStep

(* The program uses page v.                                                *)
UseHist(h, v) == [h EXCEPT !.accessed = @ \cup {v}, !.lost = @ \ {v}]

LEMMA UseHistFields ==
  ASSUME NEW h \in HistType, NEW v \in VA, NEW g, g = UseHist(h, v)
  PROVE  /\ g \in HistType /\ g.guard = h.guard /\ Marked(g) = Marked(h) \cup {v}
         /\ (g.scribbled <=> h.scribbled)
<1>1. /\ g \in HistType /\ g.guard = h.guard /\ (g.scribbled <=> h.scribbled)
      /\ g.accessed = h.accessed \cup {v} /\ g.inherited = h.inherited /\ g.lost = h.lost \ {v}
  BY DEF UseHist, HistType
<1> QED BY <1>1 DEF Marked

(* A step that changes the history of one process.                         *)
LEMMA HistSet ==
  ASSUME NEW h \in [Procs -> HistType], NEW k \in Procs, NEW s
  PROVE  /\ HistAt(h, k, s)[k] = s /\ \A i \in Procs : i # k => HistAt(h, k, s)[i] = h[i]
         /\ s \in HistType => HistAt(h, k, s) \in [Procs -> HistType]
         /\ HistAt(h, k, h[k]) = h
         /\ \A t : HistAt(HistAt(h, k, s), k, t) = HistAt(h, k, t)
BY DEF HistAt

LEMMA Loads ==
  ASSUME NEW w, NEW o, NEW h, Mem(w, o, h), NEW k \in Procs, w.proc[k].state # "UNUSED",
         NEW r, r = w.proc[k].pagetable, NEW v \in VA, NEW e, e = PteAt(w, r, v), "U" \in e.perm,
         NEW x, x = SetPteAt(w, r, v, WithA(e)), NEW g, g = HistAt(h, k, UseHist(h[k], v))
  PROVE  Mem(x, o, g) /\ x.ret = w.ret /\ x.left = w.left
<1>1. PICK d, s : d = WithA(e) /\ s = UseHist(h[k], v)
  OBVIOUS
<1>2. h \in [Procs -> HistType] /\ h[k] \in HistType
  BY DEF Mem
<1>3. /\ s \in HistType /\ s.guard = h[k].guard /\ Marked(s) = Marked(h[k]) \cup {v}
      /\ (s.scribbled <=> h[k].scribbled)
  BY <1>1, <1>2, UseHistFields
<1>4. g[k] = s /\ g \in [Procs -> HistType] /\ \A i \in Procs : i # k => g[i] = h[i]
  BY <1>1, <1>2, <1>3, HistSet
<1>5. PICK q : q = w.proc[k]
  OBVIOUS
<1>6. Own(w, o) /\ Root_(o, r)
  <2>1. Process(w, o, k, q, h[k]) /\ q \in ProcType /\ Own(w, o)
    BY <1>5, InUseIs DEF Mem
  <2> QED BY <1>5, <2>1, ImageFacts
<1>7. e \in PteType
  BY <1>6, PteFacts
<1>8. d \in PteType /\ d.pa = e.pa /\ d.perm = e.perm \cup {"A"}
  BY <1>1, <1>7, WithAFields
<1>9. d.perm \ {"A"} = e.perm \ {"A"} /\ "A" \in d.perm
  BY <1>8
<1>10. Marks(w, o, h, k, r, v, d, g)
  BY <1>3, <1>4, <1>8, <1>9 DEF Marks
<1>11. x = SetPteAt(w, r, v, d)
  BY <1>1
<1> QED BY <1>10, <1>11, MarksMem

LEMMA Stores ==
  ASSUME NEW w, NEW o, NEW h, Mem(w, o, h), NEW k \in Procs, w.proc[k].state # "UNUSED",
         NEW r, r = w.proc[k].pagetable, NEW v \in VA, NEW e, e = PteAt(w, r, v), "U" \in e.perm,
         "W" \in e.perm, NEW x, x = FillData(SetPteAt(w, r, v, WithA(e)), e.pa, Stored),
         NEW g, g = HistAt(h, k, UseHist(h[k], v))
  PROVE  Mem(x, o, g) /\ x.ret = w.ret /\ x.left = w.left
<1>1. PICK y : y = SetPteAt(w, r, v, WithA(e))
  OBVIOUS
<1>2. Mem(y, o, g) /\ y.ret = w.ret /\ y.left = w.left
  BY <1>1, Loads
<1>3. PICK q, f : q = w.proc[k] /\ f = e.pa
  OBVIOUS
<1>4. v # USYSCALL
  <2>1. Process(w, o, k, q, h[k])
    BY <1>3, InUseIs
  <2>2. PteIs(e, v, q, Pages(q.sz), h[k])
    BY <1>3, <2>1 DEF Process, Image_
  <2>3. ASSUME v = USYSCALL PROVE FALSE
    <3>1. v >= USYSCALL /\ v # TRAPFRAME /\ v # TRAMPOLINE
      BY <2>3, Layout
    <3>2. e.perm \ {"A"} = TopPte(q, v).perm
      BY <2>2, <3>1 DEF PteIs
    <3>3. TopPte(q, v).perm = {"R", "U"}
      BY <3>1 DEF TopPte
    <3>4. "W" \in e.perm \ {"A"}
      OBVIOUS
    <3> QED BY <3>2, <3>3, <3>4
  <2> QED BY <2>3
<1>5. f \in Frames /\ o[f][1] = "page"
  BY <1>3, <1>4, UserPage
<1>6. x = FillData(y, f, Stored) /\ Stored \in DataType
  BY <1>1, <1>3 DEF DataType, Data
<1>7. Keep(y, o, x, o) /\ SamePtes(o, y, x) /\ x.ret = y.ret /\ x.left = y.left
  BY <1>2, <1>5, <1>6, Filled DEF Mem
<1>8. Touch(y, o, x, o, {}) /\ x.proc = y.proc
  BY <1>7, TouchSame DEF Keep
<1>9. Mem(x, o, g)
  BY <1>2, <1>8, MemSame
<1> QED BY <1>2, <1>7, <1>9

(* A pgaccess() that has seen the pages of M; at its end it reports them.  *)
LostHist(h, M) == [h EXCEPT !.lost = @ \cup M]
ToldHist(h, M, addr) ==
  [h EXCEPT !.accessed = @ \ M, !.inherited = @ \ M, !.lost = @ \ M,
            !.scribbled = @ \/ addr = USYSCALL]

LEMMA LostHistFields ==
  ASSUME NEW h \in HistType, NEW M \in SUBSET VA, NEW g, g = LostHist(h, M)
  PROVE  /\ g \in HistType /\ g.guard = h.guard /\ Marked(g) = Marked(h) \ M
         /\ (g.scribbled <=> h.scribbled)
<1>1. /\ g \in HistType /\ g.guard = h.guard /\ (g.scribbled <=> h.scribbled)
      /\ g.accessed = h.accessed /\ g.inherited = h.inherited /\ g.lost = h.lost \cup M
  BY DEF LostHist, HistType
<1> QED BY <1>1 DEF Marked

Told(h, M, addr, g) ==
  /\ g \in HistType /\ g.guard = h.guard /\ Marked(g) = Marked(h) \ M
  /\ (g.scribbled <=> h.scribbled \/ addr = USYSCALL)

LEMMA ToldHistFields ==
  ASSUME NEW h \in HistType, NEW M \in SUBSET VA, NEW addr
  PROVE  Told(h, M, addr, ToldHist(h, M, addr))
<1>1. PICK g : g = ToldHist(h, M, addr)
  OBVIOUS
<1>2. /\ g \in HistType /\ g.guard = h.guard /\ (g.scribbled <=> h.scribbled \/ addr = USYSCALL)
      /\ g.accessed = h.accessed \ M /\ g.inherited = h.inherited \ M /\ g.lost = h.lost \ M
  BY <1>1 DEF ToldHist, HistType
<1>3. Marked(g) = Marked(h) \ M
  BY <1>2 DEF Marked
<1> QED BY <1>1, <1>2, <1>3 DEF Told

ScanType == [w : Machine, mask : SUBSET VA, ok : BOOLEAN]

Scanned(w, o, h, k, s) ==
  /\ s \in ScanType /\ Mem(s.w, o, HistAt(h, k, LostHist(h[k], s.mask)))
  /\ s.w.proc = w.proc /\ s.w.ret = w.ret

LEMMA ScanNone ==
  ASSUME NEW w, NEW o, NEW h, Mem(w, o, h), NEW k \in Procs,
         NEW ok \in BOOLEAN, NEW s, s = [w |-> w, mask |-> {}, ok |-> ok]
  PROVE  Scanned(w, o, h, k, s)
<1>1. s.w = w /\ s.mask = {} /\ s \in ScanType
  BY Left DEF Mem, ScanType
<1>2. h \in [Procs -> HistType] /\ h[k] \in HistType
  BY DEF Mem
<1>3. LostHist(h[k], {}) = h[k]
  BY <1>2 DEF LostHist, HistType
<1>4. HistAt(h, k, LostHist(h[k], {})) = h
  BY <1>2, <1>3, HistSet
<1> QED BY <1>1, <1>4 DEF Scanned

LEMMA ScanStep ==
  ASSUME NEW w, NEW o, NEW h, NEW k \in Procs, NEW s, Scanned(w, o, h, k, s), h \in [Procs -> HistType],
         w.proc[k].state # "UNUSED", NEW r, r = w.proc[k].pagetable, NEW v \in Nat,
         NEW t, t = Look(s, r, v)
  PROVE  Scanned(w, o, h, k, t)
<1>1. PICK y, M, e : y = s.w /\ M = s.mask /\ e = IF v >= MAXVA THEN NoPte ELSE PteAt(y, r, v)
  OBVIOUS
<1>2. PICK g : g = HistAt(h, k, LostHist(h[k], M))
  OBVIOUS
<1>3. /\ s \in ScanType /\ Mem(y, o, g) /\ y.proc = w.proc /\ y.ret = w.ret /\ M \in SUBSET VA
  BY <1>1, <1>2 DEF Scanned, ScanType
<1>4. CASE ~s.ok \/ "U" \notin e.perm
  <2>1. t = [s EXCEPT !.ok = FALSE]
    BY <1>1, <1>4 DEF Look
  <2>2. t \in ScanType /\ t.w = y /\ t.mask = M
    BY <1>1, <1>3, <2>1 DEF ScanType
  <2> QED BY <1>2, <1>3, <2>2 DEF Scanned
<1>5. CASE ~(~s.ok \/ "U" \notin e.perm) /\ "A" \notin e.perm
  <2>1. t = s
    BY <1>1, <1>5 DEF Look
  <2> QED BY <2>1
<1>6. CASE ~(~s.ok \/ "U" \notin e.perm) /\ "A" \in e.perm
  <2>1. PICK d, x : d = WithoutA(e) /\ x = SetPteAt(y, r, v, d)
    OBVIOUS
  <2>2. t = [s EXCEPT !.mask = @ \cup {v}, !.w = SetPteAt(@, r, v, d)]
    BY <1>1, <1>6, <2>1 DEF Look, WithoutA
  <2>3. v \in VA /\ e = PteAt(y, r, v) /\ "U" \in e.perm
    <3>1. NoPte.perm = {}
      BY DEF NoPte
    <3>2. ~(v >= MAXVA)
      BY <1>1, <1>6, <3>1
    <3> QED BY <1>1, <1>6, <3>2, Layout DEF VA
  <2>4. PICK q : q = y.proc[k]
    OBVIOUS
  <2>5. Own(y, o) /\ Root_(o, r) /\ r = q.pagetable /\ q.state # "UNUSED"
    <3>1. q.state # "UNUSED" /\ r = q.pagetable
      BY <1>3, <2>4
    <3>2. Process(y, o, k, q, g[k]) /\ q \in ProcType /\ Own(y, o)
      BY <1>3, <2>4, <3>1, InUseIs DEF Mem
    <3> QED BY <3>1, <3>2, ImageFacts
  <2>6. e \in PteType
    BY <2>3, <2>5, PteFacts
  <2>7. d \in PteType /\ d.pa = e.pa /\ d.perm = e.perm \ {"A"}
    BY <2>1, <2>6, WithAFields
  <2>8. PICK M2 : M2 = M \cup {v}
    OBVIOUS
  <2>9. M2 \in SUBSET VA
    BY <1>3, <2>3, <2>8
  <2>10. PICK a, b, g2 : a = LostHist(h[k], M) /\ b = LostHist(h[k], M2) /\ g2 = HistAt(h, k, b)
    OBVIOUS
  <2>11. h[k] \in HistType
    OBVIOUS
  <2>12. /\ a \in HistType /\ a.guard = h[k].guard /\ Marked(a) = Marked(h[k]) \ M
         /\ (a.scribbled <=> h[k].scribbled)
    BY <1>3, <2>10, <2>11, LostHistFields
  <2>13. /\ b \in HistType /\ b.guard = h[k].guard /\ Marked(b) = Marked(h[k]) \ M2
         /\ (b.scribbled <=> h[k].scribbled)
    BY <2>9, <2>10, <2>11, LostHistFields
  <2>14. g[k] = a /\ \A i \in Procs : i # k => g[i] = h[i]
    BY <1>2, <2>10, HistSet
  <2>15. g2[k] = b /\ g2 \in [Procs -> HistType] /\ \A i \in Procs : i # k => g2[i] = h[i]
    BY <2>10, <2>13, HistSet
  <2>16. d.perm \ {"A"} = e.perm \ {"A"} /\ "A" \notin d.perm
    BY <2>7
  <2>17. v \notin Marked(b)
    BY <2>8, <2>13
  <2>18. \A u \in VA : u # v => (u \in Marked(b) <=> u \in Marked(a))
    BY <2>8, <2>12, <2>13
  <2>19. g2[k].guard = g[k].guard /\ (~g2[k].scribbled => ~g[k].scribbled)
    BY <2>12, <2>13, <2>14, <2>15
  <2>20. Marks(y, o, g, k, r, v, d, g2)
    BY <1>3, <2>3, <2>4, <2>5, <2>7, <2>14, <2>15, <2>16, <2>17, <2>18, <2>19 DEF Marks
  <2>21. Mem(x, o, g2) /\ x.proc = y.proc /\ x.ret = y.ret
    BY <2>1, <2>20, MarksMem
  <2>22. t \in ScanType /\ t.w = x /\ t.mask = M2
    <3>1. x \in Machine
      BY <2>21, Left DEF Mem
    <3> QED BY <1>1, <1>3, <2>1, <2>2, <2>8, <2>9, <3>1 DEF ScanType
  <2> QED BY <1>3, <2>10, <2>21, <2>22 DEF Scanned
<1> QED BY <1>4, <1>5, <1>6

LEMMA ScansPages ==
  ASSUME NEW w, NEW o, NEW h, Mem(w, o, h), NEW k \in Procs, w.proc[k].state # "UNUSED",
         NEW r, r = w.proc[k].pagetable, NEW base \in Nat, NEW len \in Nat,
         NEW s, s = ScanPages(w, r, base, len)
  PROVE  Scanned(w, o, h, k, s)
<1>1. PICK f : ScanTurns(f, w, r, base, len) /\ s = f[len]
  BY ScanRun
<1>2. h \in [Procs -> HistType]
  BY DEF Mem
<1> DEFINE S == {n \in Nat : n <= len => Scanned(w, o, h, k, f[n])}
<1>3. 0 \in S
  <2>1. f[0] = [w |-> w, mask |-> {}, ok |-> TRUE]
    BY <1>1 DEF ScanTurns
  <2>2. Scanned(w, o, h, k, f[0])
    BY <2>1, ScanNone
  <2> QED BY <2>2
<1>4. ASSUME NEW n \in Nat, n \in S PROVE n + 1 \in S
  <2>1. ASSUME n + 1 <= len PROVE Scanned(w, o, h, k, f[n + 1])
    <3>1. Scanned(w, o, h, k, f[n]) /\ n \in 0..(len - 1) /\ base + n \in Nat
      BY <1>4, <2>1
    <3>2. f[n + 1] = Look(f[n], r, base + n)
      BY <1>1, <3>1 DEF ScanTurns
    <3> QED BY <1>2, <3>1, <3>2, ScanStep
  <2> QED BY <2>1
<1> HIDE DEF S
<1>5. len \in S
  BY <1>3, <1>4, SetInduction
<1> QED BY <1>1, <1>5 DEF S

(* A length that is negative or more than the mask has bits is refused.    *)
LEMMA Scans ==
  ASSUME NEW w, NEW o, NEW h, Mem(w, o, h), NEW k \in Procs, w.proc[k].state # "UNUSED",
         NEW r, r = w.proc[k].pagetable, NEW base \in Nat, NEW len \in Int,
         NEW s, s = Scan(w, r, base, len)
  PROVE  Scanned(w, o, h, k, s)
<1>1. CASE len < 0 \/ len > MaskBits
  <2>1. s = [w |-> w, mask |-> {}, ok |-> FALSE]
    BY <1>1 DEF Scan
  <2> QED BY <2>1, ScanNone
<1>2. CASE ~(len < 0 \/ len > MaskBits)
  <2>1. s = ScanPages(w, r, base, len) /\ len \in Nat
    BY <1>2 DEF Scan
  <2> QED BY <2>1, ScansPages
<1> QED BY <1>1, <1>2

(* What Pgaccess does with the history.                                    *)
PgHist(h, ret, M, addr) == IF ret = 0 THEN ToldHist(h, M, addr) ELSE LostHist(h, M)

LEMMA Pgaccesses ==
  ASSUME NEW w, NEW o, NEW h, Mem(w, o, h), NEW k \in Procs, w.proc[k].state # "UNUSED",
         NEW r, r = w.proc[k].pagetable, NEW base \in Nat, NEW len \in Int, NEW addr \in Nat,
         NEW s, s = Scan(w, r, base, len),
         NEW c, c = IF s.ok THEN Copyout(s.w, r, addr, Out) ELSE Ret(s.w, -1)
  PROVE  \E p : Mem(c, p, HistAt(h, k, PgHist(h[k], c.ret, s.mask, addr)))
<1>1. PICK y, M, a, b, g, g2 : /\ y = s.w /\ M = s.mask /\ a = LostHist(h[k], M) /\ b = ToldHist(h[k], M, addr)
                              /\ g = HistAt(h, k, a) /\ g2 = HistAt(h, k, b)
  OBVIOUS
<1>2. Scanned(w, o, h, k, s)
  BY Scans
<1>3. Mem(y, o, g) /\ y.proc = w.proc /\ M \in SUBSET VA
  BY <1>1, <1>2 DEF Scanned, ScanType
<1>4. h \in [Procs -> HistType] /\ h[k] \in HistType
  BY DEF Mem
<1>5. /\ a \in HistType /\ a.guard = h[k].guard /\ Marked(a) = Marked(h[k]) \ M
      /\ (a.scribbled <=> h[k].scribbled)
  <2>1. h[k] \in HistType /\ M \in SUBSET VA /\ a = LostHist(h[k], M)
    BY <1>1, <1>3, <1>4
  <2> QED BY <2>1, LostHistFields
<1>6. /\ b \in HistType /\ b.guard = h[k].guard /\ Marked(b) = Marked(h[k]) \ M
      /\ (b.scribbled <=> h[k].scribbled \/ addr = USYSCALL)
  <2>1. h[k] \in HistType /\ M \in SUBSET VA /\ b = ToldHist(h[k], M, addr)
    BY <1>1, <1>3, <1>4
  <2>2. Told(h[k], M, addr, b)
    BY <2>1, ToldHistFields
  <2> QED BY <2>2 DEF Told
<1>7. g[k] = a /\ g \in [Procs -> HistType] /\ \A i \in Procs : i # k => g[i] = h[i]
  <2>1. h \in [Procs -> HistType] /\ a \in HistType /\ g = HistAt(h, k, a)
    BY <1>1, <1>4, <1>5
  <2> QED BY <2>1, HistSet
<1>8. g2[k] = b /\ g2 \in [Procs -> HistType] /\ \A i \in Procs : i # k => g2[i] = h[i]
  <2>1. h \in [Procs -> HistType] /\ b \in HistType /\ g2 = HistAt(h, k, b)
    BY <1>1, <1>4, <1>6
  <2> QED BY <2>1, HistSet
<1>9. CASE ~s.ok
  <2>1. c = Ret(y, -1)
    BY <1>1, <1>9
  <2>2. Touch(y, o, y, o, {})
    BY <1>3, TouchRefl DEF Mem
  <2>3. Touch(y, o, c, o, {}) /\ c.ret = -1 /\ c.proc = y.proc
    BY <2>1, <2>2, TouchError
  <2>4. Mem(c, o, g)
    BY <1>3, <2>3, MemSame
  <2>5. PgHist(h[k], c.ret, M, addr) = a
    BY SMTT(30), <1>1, <2>3 DEF PgHist
  <2> QED BY <1>1, <2>4, <2>5
<1>10. CASE s.ok
  <2>1. c = Copyout(y, y.proc[k].pagetable, addr, Out) /\ y.proc[k].state # "UNUSED"
    BY <1>1, <1>3, <1>10
  <2>2. CopiedOut(y, o, g, k, addr, c)
    BY <1>3, <2>1, CopiesOut
  <2>3. CASE c.ret < 0 /\ \E p : Mem(c, p, g) /\ c.proc = y.proc
    <3>1. c.ret # 0
      BY <2>3
    <3>2. PgHist(h[k], c.ret, M, addr) = a
      BY <1>1, <3>1 DEF PgHist
    <3> QED BY <1>1, <2>3, <3>2
  <2>4. CASE c.ret = 0 /\ Mem(c, o, HistAt(g, k, Scribbles(g[k], addr)))
    <3>1. PICK t, g3 : t = Scribbles(a, addr) /\ g3 = HistAt(g, k, t)
      OBVIOUS
    <3>2. Mem(c, o, g3)
      BY <1>7, <2>4, <3>1
    <3>3. SameHist(t, a) /\ t \in HistType /\ (t.scribbled <=> a.scribbled \/ addr = USYSCALL)
      BY <1>5, <3>1, ScribblesFields
    <3>4. g3[k] = t /\ \A i \in Procs : i # k => g3[i] = g[i]
      BY <1>7, <3>1, HistSet
    <3>5. SameHist(b, t) /\ (~b.scribbled => ~t.scribbled)
      BY <1>5, <1>6, <3>3 DEF SameHist
    <3>6. \A i \in Procs : SameHist(g2[i], g3[i]) /\ (~g2[i].scribbled => ~g3[i].scribbled)
      BY <1>7, <1>8, <3>4, <3>5 DEF SameHist
    <3>7. Mem(c, o, g2)
      BY <1>8, <3>2, <3>6, MemHist
    <3>8. PgHist(h[k], c.ret, M, addr) = b
      BY <1>1, <2>4 DEF PgHist
    <3> QED BY <1>1, <3>7, <3>8
  <2> QED BY <2>2, <2>3, <2>4 DEF CopiedOut
<1> QED BY <1>9, <1>10

-----------------------------------------------------------------------------
(* sbrk().                                                                 *)

(* The history of a process that has n pages now.                          *)
SbrkHist(h, n) ==
  [h EXCEPT !.guard = IF @ < n \/ @ = USYSCALL THEN @ ELSE MAXVA,
            !.accessed = {v \in @ : v < n \/ v = USYSCALL},
            !.inherited = {v \in @ : v < n \/ v = USYSCALL},
            !.lost = {v \in @ : v < n \/ v = USYSCALL}]

Shrunk(h, n, g) ==
  /\ g \in HistType /\ (g.scribbled <=> h.scribbled)
  /\ g.guard = IF h.guard < n \/ h.guard = USYSCALL THEN h.guard ELSE MAXVA
  /\ \A v \in VA : v \in Marked(g) <=>
                     v \in Marked(h) /\ (v < n \/ v = USYSCALL)

LEMMA SbrkHistFields ==
  ASSUME NEW h \in HistType, NEW n \in Nat
  PROVE  Shrunk(h, n, SbrkHist(h, n))
<1>1. MAXVA \in Nat
  BY Layout
<1>2. PICK c : c = IF h.guard < n \/ h.guard = USYSCALL THEN h.guard ELSE MAXVA
  OBVIOUS
<1>3. PICK a, i, l : /\ a = {v \in h.accessed : v < n \/ v = USYSCALL}
                     /\ i = {v \in h.inherited : v < n \/ v = USYSCALL}
                     /\ l = {v \in h.lost : v < n \/ v = USYSCALL}
  OBVIOUS
<1>4. PICK g : g = [h EXCEPT !.guard = c, !.accessed = a, !.inherited = i, !.lost = l]
  OBVIOUS
<1>5. g = SbrkHist(h, n)
  BY <1>2, <1>3, <1>4 DEF SbrkHist
<1>6. c \in Nat /\ a \in SUBSET VA /\ i \in SUBSET VA /\ l \in SUBSET VA
  BY <1>1, <1>2, <1>3 DEF HistType
<1>7. /\ g.guard = c /\ g.accessed = a /\ g.inherited = i /\ g.lost = l
      /\ g.scribbled = h.scribbled /\ g \in HistType
  BY <1>4, <1>6 DEF HistType
<1>8. \A v \in VA : v \in (a \cup i) \ l <=> v \in Marked(h) /\ (v < n \/ v = USYSCALL)
  BY <1>3 DEF Marked
<1>9. Marked(g) = (a \cup i) \ l
  BY <1>7 DEF Marked
<1> QED BY <1>2, <1>5, <1>7, <1>8, <1>9 DEF Shrunk

Sized(q, s) == [q EXCEPT !.sz = s]

LEMMA SizedFields ==
  ASSUME NEW q \in ProcType, NEW s \in 0..(NFrames * PGSIZE)
  PROVE  /\ Sized(q, s) \in ProcType /\ Sized(q, s).sz = s /\ Sized(q, s).state = q.state
         /\ SameFields(q, Sized(q, s)) /\ Fields(Sized(q, s)) = Fields(q)
         /\ Sized(q, q.sz) = q
BY DEF Sized, ProcType, SameFields, Fields

(* The process had n pages and has n2 of them.                             *)
Resized(w, x, r, n, n2) ==
  \A v \in VA : IF n <= v /\ v < n2
                THEN PteAt(x, r, v).pa # 0 /\ PteAt(x, r, v).perm = UserPerm
                ELSE IF n2 <= v /\ v < n THEN PteAt(x, r, v) = NoPte
                ELSE PteAt(x, r, v) = PteAt(w, r, v)

Resizing(w, o, h, k, q, r, n, y, p, s, n2) ==
  /\ Mem(w, o, h) /\ k \in Procs /\ q = w.proc[k] /\ q.state # "UNUSED" /\ n = Pages(q.sz)
  /\ r = q.pagetable /\ Keep(w, o, y, p) /\ Others(o, w, y, r) /\ Resized(w, y, r, n, n2)
  /\ s \in 0..(NFrames * PGSIZE) /\ n2 = Pages(s) /\ n2 \in Nat /\ n2 <= NFrames

LEMMA ResizedImage ==
  ASSUME NEW w, NEW o, NEW h, NEW k, NEW q, NEW r, NEW n, NEW y, NEW p, NEW s, NEW n2,
         Resizing(w, o, h, k, q, r, n, y, p, s, n2), NEW q2, q2 = Sized(q, s), NEW g, Shrunk(h[k], n2, g)
  PROVE  Image_(y, r, q2, n2, g) /\ GuardOK(g, n2)
<1> USE DEF Resizing
<1>1. Process(w, o, k, q, h[k]) /\ q \in ProcType /\ Own(w, o) /\ h[k] \in HistType
  BY InUseIs DEF Mem
<1>2. n \in Nat /\ n <= NFrames /\ n < USYSCALL /\ Image_(w, r, q, n, h[k]) /\ GuardOK(h[k], n)
  BY <1>1, ImageFacts DEF Process
<1>3. q2.trapframe = q.trapframe /\ q2.usyscall = q.usyscall
  BY <1>1, SizedFields DEF SameFields
<1>4. n2 < USYSCALL /\ USYSCALL \in Nat /\ MAXVA = USYSCALL + 3 /\ TRAPFRAME = USYSCALL + 1
  BY Layout
<1>5. g.guard = IF h[k].guard < n2 \/ h[k].guard = USYSCALL THEN h[k].guard ELSE MAXVA
  BY DEF Shrunk
<1>6. h[k].guard \in Nat /\ (h[k].guard = MAXVA \/ h[k].guard < n)
  BY <1>1, <1>2 DEF GuardOK, HistType
<1>7. (g.guard = MAXVA \/ g.guard < n2) /\ (h[k].guard < n2 => g.guard = h[k].guard)
      /\ (g.guard # MAXVA => g.guard = h[k].guard)
  BY <1>4, <1>5, <1>6, <1>2
<1>8. ASSUME NEW v \in VA PROVE PteIs(PteAt(y, r, v), v, q2, n2, g)
  <2>1. PICK e, d : e = PteAt(y, r, v) /\ d = PteAt(w, r, v)
    OBVIOUS
  <2>2. PteIs(d, v, q, n, h[k])
    BY <1>2, <2>1 DEF Image_
  <2>3. v \in Nat /\ v < MAXVA
    BY <1>4, Layout DEF VA
  <2>4. v \in Marked(g) <=> v \in Marked(h[k]) /\ (v < n2 \/ v = USYSCALL)
    BY DEF Shrunk
  <2>5. IF n <= v /\ v < n2 THEN e.pa # 0 /\ e.perm = UserPerm
        ELSE IF n2 <= v /\ v < n THEN e = NoPte ELSE e = d
    BY <2>1 DEF Resized
  <2>6. ASSUME v >= USYSCALL PROVE PteIs(e, v, q2, n2, g)
    <3>1. e = d /\ TopPte(q2, v) = TopPte(q, v)
      BY <1>2, <1>3, <1>4, <2>3, <2>5, <2>6 DEF TopPte
    <3>2. v \in Marked(g) <=> v \in Marked(h[k])
      <4>1. CASE v = USYSCALL
        BY <2>4, <4>1
      <4>2. CASE v # USYSCALL
        <5>1. v >= TRAPFRAME
          BY <1>4, <2>3, <2>6, <4>2
        <5>2. "A" \notin d.perm
          BY <2>2, <5>1 DEF PteIs
        <5>3. v \notin Marked(h[k])
          BY <2>2, <5>2 DEF PteIs
        <5> QED BY <2>4, <5>3
      <4> QED BY <4>1, <4>2
    <3> QED BY <2>2, <2>6, <3>1, <3>2 DEF PteIs
  <2>7. ASSUME ~(v >= USYSCALL) PROVE PteIs(e, v, q2, n2, g)
    <3>1. ~(v >= TRAPFRAME) /\ v # USYSCALL
      BY <1>4, <2>3, <2>7
    <3>2. CASE v < n2 /\ v < n
      <4>1. e = d
        BY <1>2, <2>3, <2>5, <3>2
      <4>2. v = g.guard <=> v = h[k].guard
        BY <1>4, <1>5, <1>6, <1>7, <2>3, <3>2
      <4>3. d.pa # 0 /\ d.perm \ {"A"} = UserPerm \ (IF v = g.guard THEN {"U"} ELSE {})
        BY <2>2, <2>7, <3>2, <4>2 DEF PteIs
      <4>4. "A" \in d.perm <=> v \in Marked(h[k])
        BY <2>2 DEF PteIs
      <4> QED BY <2>4, <2>7, <3>1, <3>2, <4>1, <4>3, <4>4 DEF PteIs
    <3>3. CASE v < n2 /\ ~(v < n)
      <4>1. e.pa # 0 /\ e.perm = UserPerm
        BY <1>2, <2>3, <2>5, <3>3
      <4>2. d.pa = 0
        BY <2>2, <2>7, <3>3 DEF PteIs
      <4>3. d = NoPte /\ NoPte.perm = {}
        <5>1. Root_(o, r)
          BY <1>1, ImageFacts
        <5>2. d = NoPte
          BY <1>1, <2>1, <4>2, <5>1, PteFacts
        <5> QED BY <5>2 DEF NoPte
      <4>4. v \notin Marked(h[k])
        BY <2>2, <4>3 DEF PteIs
      <4>5. v # g.guard
        BY <1>2, <1>4, <1>6, <1>7, <2>3, <3>3
      <4>6. "A" \notin UserPerm /\ UserPerm \ {"A"} = UserPerm \ {}
        BY DEF UserPerm
      <4>7. v \notin Marked(g)
        BY <2>4, <4>4
      <4> QED BY <2>7, <3>1, <3>3, <4>1, <4>5, <4>6, <4>7 DEF PteIs
    <3>4. CASE ~(v < n2)
      <4>1. e.pa = 0 /\ e.perm = {}
        <5>1. CASE v < n
          <6>1. e = NoPte
            BY <1>2, <2>3, <2>5, <3>4, <5>1
          <6> QED BY <6>1 DEF NoPte
        <5>2. CASE ~(v < n)
          <6>1. d.pa = 0 /\ e = d
            BY <2>2, <2>5, <2>7, <3>4, <5>2 DEF PteIs
          <6>2. Root_(o, r)
            BY <1>1, ImageFacts
          <6>3. d = NoPte
            BY <1>1, <2>1, <6>1, <6>2, PteFacts
          <6> QED BY <6>1, <6>3 DEF NoPte
        <5> QED BY <5>1, <5>2
      <4>2. v \notin Marked(g)
        BY <2>4, <3>1, <3>4
      <4> QED BY <2>7, <3>1, <3>4, <4>1, <4>2 DEF PteIs
    <3> QED BY <3>2, <3>3, <3>4
  <2> QED BY <2>1, <2>6, <2>7
<1> QED BY <1>7, <1>8 DEF Image_, GuardOK

LEMMA ResizedMem ==
  ASSUME NEW w, NEW o, NEW h, NEW k, NEW q, NEW r, NEW n, NEW y, NEW p, NEW s, NEW n2,
         Resizing(w, o, h, k, q, r, n, y, p, s, n2), NEW q2, q2 = Sized(q, s),
         NEW x \in Machine, x.pt = y.pt, x.data = y.data, x.free = y.free,
         x.proc = WithSlot(w.proc, k, q2), NEW g, g = HistAt(h, k, SbrkHist(h[k], n2))
  PROVE  Mem(x, p, g)
<1> USE DEF Resizing
<1>1. Process(w, o, k, q, h[k]) /\ q \in ProcType /\ Own(w, o) /\ h[k] \in HistType
      /\ h \in [Procs -> HistType] /\ w.proc \in [Procs -> ProcType]
  BY InUseIs, Left, MachineFields DEF Mem
<1>2. Root_(o, r) /\ Owns(o, k, q)
  BY <1>1, ImageFacts DEF Process
<1>3. /\ q2 \in ProcType /\ q2.sz = s /\ q2.state = q.state
      /\ SameFields(q, q2) /\ Fields(q2) = Fields(q)
  BY <1>1, SizedFields
<1>4. PICK t : t = SbrkHist(h[k], n2)
  OBVIOUS
<1>5. Shrunk(h[k], n2, t)
  BY <1>1, <1>4, SbrkHistFields
<1>6. t \in HistType /\ (t.scribbled <=> h[k].scribbled)
  BY <1>5 DEF Shrunk
<1>7. g[k] = t /\ g \in [Procs -> HistType] /\ \A i \in Procs : i # k => g[i] = h[i]
  <2>1. g = HistAt(h, k, t) /\ h \in [Procs -> HistType] /\ k \in Procs /\ t \in HistType
    BY <1>1, <1>4, <1>6
  <2> QED BY <2>1, HistSet
<1>8. x.proc[k] = q2 /\ \A i \in Procs : i # k => x.proc[i] = w.proc[i]
  <2>1. x.proc = WithSlot(w.proc, k, q2) /\ w.proc \in [Procs -> ProcType] /\ k \in Procs
    BY <1>1
  <2> QED BY <2>1, SlotSet
<1>9. Image_(y, r, q2, n2, t) /\ GuardOK(t, n2)
  BY <1>5, ResizedImage
<1>10. PICK R, J : R = {r} /\ J = {k}
  OBVIOUS
<1>11. Touch(w, o, y, p, R) /\ Own(y, p) /\ y \in Machine /\ Owns(p, k, q) /\ Root_(p, r)
       /\ \A f \in Frames : Held(p[f]) => p[f] = o[f]
  <2>1. Touch(w, o, y, p, R)
    BY <1>10, TouchKeep
  <2>2. \A f \in Frames : Held(o[f]) \/ Held(p[f]) => p[f] = o[f]
    BY DEF Keep, Held
  <2>3. Owns(p, k, q)
    <3>1. Held(o[q.trapframe]) /\ Held(o[q.usyscall]) /\ Held(o[q.pagetable])
      BY <1>2 DEF Owns, Held
    <3> QED BY <1>2, <2>2, <3>1 DEF Owns
  <2> QED BY <1>2, <2>1, <2>2, <2>3, KeepRoots, Left DEF Keep
<1>12. Touch(y, p, x, p, {}) /\ Own(x, p) /\ SamePtes(p, y, x)
  BY <1>11, TouchRefit
<1>13. Touch(w, o, x, p, R)
  <2>1. Touch(w, o, x, p, R \cup {})
    BY <1>11, <1>12, TouchTrans
  <2>2. R \cup {} = R
    OBVIOUS
  <2> QED BY <2>1, <2>2
<1>14. Image_(x, r, q2, n2, t)
  BY <1>9, <1>11, <1>12 DEF Image_, SamePtes
<1>15. ~t.scribbled => x.data[q2.usyscall] = q2.pid
  <2>1. ~t.scribbled => w.data[q.usyscall] = q.pid
    BY <1>1, <1>6 DEF Process
  <2>2. q.usyscall \in Frames /\ o[q.usyscall][1] = "loose"
    BY <1>2 DEF Owns
  <2>3. y.data[q.usyscall] = w.data[q.usyscall]
    BY <2>2 DEF Keep
  <2> QED BY <1>3, <2>1, <2>3 DEF SameFields
<1>16. SlotOK(x, p, k, q2, g[k])
  <2>1. Owns(p, k, q2) /\ q2.pagetable = r /\ q2.pid \in 1..(NPROC + 1)
        /\ q2.state \in {"RUNNABLE", "ZOMBIE"}
    BY <1>1, <1>3, <1>11 DEF Owns, SameFields, Process
  <2>2. Process(x, p, k, q2, t)
    BY <1>3, <1>9, <1>14, <1>15, <2>1 DEF Process
  <2> QED BY <1>7, <2>2 DEF SlotOK
<1>17. ASSUME NEW f \in Frames, f \in R PROVE o[f][3] = k /\ f \in Fields(q2) /\ p[f] = o[f]
  <2>1. f = q.pagetable /\ 0 \notin Frames
    BY <1>10, <1>17 DEF Frames
  <2>2. f \in Fields(q) /\ o[f] = <<"root", 0, k>> /\ p[f] = <<"root", 0, k>>
    BY <1>2, <1>11, <2>1 DEF Owns, Fields
  <2> QED BY <1>3, <2>2
<1>18. Stepped(w, o, h, x, p, g, R, J)
  BY <1>3, <1>7, <1>8, <1>10, <1>13, <1>16, <1>17 DEF Stepped
<1> QED BY <1>18, MemStep

(* Nothing has changed but what the function returns.                      *)
SbrkDone(w, h, k, x, s, p) ==
  x.proc[k].sz = s /\ Mem(x, p, HistAt(h, k, SbrkHist(h[k], Pages(s))))

LEMMA SbrkFails ==
  ASSUME NEW w, NEW o, NEW h, NEW k, NEW q, NEW r, NEW n, NEW y, NEW p, NEW s, s = q.sz,
         Resizing(w, o, h, k, q, r, n, y, p, s, n), NEW x, x = Ret(y, -1)
  PROVE  SbrkDone(w, h, k, x, s, p)
<1>1. q \in ProcType /\ Own(w, o) /\ w.proc \in [Procs -> ProcType] /\ q = w.proc[k] /\ k \in Procs
      /\ n = Pages(s) /\ Own(y, p) /\ y.proc = w.proc
  BY Left, MachineFields DEF Mem, Resizing, Keep
<1>2. Returned(y, p, x) /\ x.ret = -1
  BY <1>1, RetError
<1>3. PICK q2 : q2 = Sized(q, s)
  OBVIOUS
<1>4. q2 = q
  BY <1>1, <1>3 DEF Sized, ProcType
<1>5. WithSlot(w.proc, k, q2) = w.proc
  BY <1>1, <1>4 DEF WithSlot
<1>6. x \in Machine /\ x.pt = y.pt /\ x.data = y.data /\ x.free = y.free
      /\ x.proc = WithSlot(w.proc, k, q2) /\ x.proc = w.proc
  BY <1>1, <1>2, <1>5 DEF Returned
<1>7. PICK g : g = HistAt(h, k, SbrkHist(h[k], n))
  OBVIOUS
<1>8. Mem(x, p, g)
  BY <1>3, <1>6, <1>7, ResizedMem
<1> QED BY <1>1, <1>6, <1>7, <1>8 DEF SbrkDone

GrownEnd(y, k, s, old) == [y EXCEPT !.proc[k].sz = s, !.ret = old]

LEMMA SbrkSucceeds ==
  ASSUME NEW w, NEW o, NEW h, NEW k, NEW q, NEW r, NEW n, NEW y, NEW p, NEW s, NEW n2,
         Resizing(w, o, h, k, q, r, n, y, p, s, n2), NEW old \in Int,
         NEW x, x = GrownEnd(y, k, s, old)
  PROVE  SbrkDone(w, h, k, x, s, p)
<1>1. /\ q \in ProcType /\ Own(w, o) /\ w.proc \in [Procs -> ProcType] /\ q = w.proc[k] /\ k \in Procs
      /\ n2 = Pages(s) /\ Own(y, p) /\ y.proc = w.proc /\ y \in Machine
      /\ s \in 0..(NFrames * PGSIZE)
  BY Left, MachineFields DEF Mem, Resizing, Keep
<1>2. PICK q2 : q2 = Sized(q, s)
  OBVIOUS
<1>3. q2 \in ProcType /\ q2.sz = s
  BY <1>1, <1>2, SizedFields
<1>4. PICK z : z = [y EXCEPT !.proc = WithSlot(w.proc, k, q2)]
  OBVIOUS
<1>5. /\ z \in Machine /\ z.pt = y.pt /\ z.data = y.data /\ z.free = y.free
      /\ z.proc = WithSlot(w.proc, k, q2)
  BY <1>1, <1>3, <1>4, SlotFilled
<1>6. z = [y EXCEPT !.proc[k].sz = s]
  BY <1>1, <1>2, <1>4 DEF Sized, WithSlot, Machine
<1>7. x = Ret(z, old)
  BY <1>6 DEF Ret, GrownEnd
<1>8. /\ x \in Machine /\ x.pt = y.pt /\ x.data = y.data /\ x.free = y.free
      /\ x.proc = WithSlot(w.proc, k, q2)
  BY <1>5, <1>7, RetFields
<1>9. PICK g : g = HistAt(h, k, SbrkHist(h[k], n2))
  OBVIOUS
<1>10. Mem(x, p, g)
  BY <1>2, <1>8, <1>9, ResizedMem
<1>11. x.proc[k] = q2
  <2>1. x.proc = WithSlot(w.proc, k, q2) /\ w.proc \in [Procs -> ProcType] /\ k \in Procs
    BY <1>1, <1>8
  <2> QED BY <2>1, SlotSet
<1> QED BY <1>1, <1>3, <1>9, <1>10, <1>11 DEF SbrkDone

LEMMA UintSums ==
  ASSUME NEW s \in Int, NEW n \in Int
  PROVE  UintSum(s, n) \in Nat
<1>1. UintMod \in Nat /\ UintMod > 0
  <2>1. NFrames * PGSIZE \in Nat /\ UintMod \in Nat /\ NFrames * PGSIZE < UintMod
    BY UserAssumption, SizeAssumption
  <2> QED BY <2>1
<1>2. PICK a : a = s + n
  OBVIOUS
<1>3. a \in Int
  BY <1>2
<1>4. a % UintMod \in 0..(UintMod - 1)
  BY <1>1, <1>3
<1> QED BY <1>2, <1>4 DEF UintSum

(* uvmalloc() and uvmdealloc() in growproc().                              *)
Sbrking(w, o, h, k, q, r, n) ==
  /\ Mem(w, o, h) /\ k \in Procs /\ q = w.proc[k] /\ q.state # "UNUSED" /\ r = q.pagetable
  /\ n = Pages(q.sz)

LEMMA SbrkFacts ==
  ASSUME NEW w, NEW o, NEW h, NEW k, NEW q, NEW r, NEW n, Sbrking(w, o, h, k, q, r, n)
  PROVE  /\ Own(w, o) /\ Root_(o, r) /\ q.sz \in Nat /\ n \in Nat /\ n <= NFrames /\ n < USYSCALL
         /\ AllocOK(w, o, r, q.sz) /\ Ours(w, r, 0, n) /\ q.sz \in 0..(NFrames * PGSIZE)
         /\ Returned(w, o, w)
<1>1. Process(w, o, k, q, h[k]) /\ q \in ProcType /\ Own(w, o)
  BY InUseIs DEF Mem, Sbrking
<1>2. q.sz \in 0..(NFrames * PGSIZE)
  BY <1>1 DEF ProcType
<1>3. Returned(w, o, w)
  BY <1>1, KeepRefl, Left DEF Returned, SamePtes
<1> QED BY <1>1, <1>2, <1>3, ImageFacts DEF Sbrking

LEMMA SizeBound ==
  ASSUME NEW s \in Nat, Pages(s) <= NFrames
  PROVE  s \in 0..(NFrames * PGSIZE)
<1>1. s <= PGSIZE * NFrames
  BY PagesLeast, SizeAssumption
<1>2. PGSIZE * NFrames = NFrames * PGSIZE /\ NFrames * PGSIZE \in Nat
  BY SizeAssumption
<1> QED BY <1>1, <1>2

LEMMA SameSized ==
  ASSUME NEW w, NEW o, NEW h, NEW k, NEW q, NEW r, NEW n, Sbrking(w, o, h, k, q, r, n),
         NEW y, NEW p, Keep(w, o, y, p), SamePtes(o, w, y), NEW s, s = q.sz
  PROVE  Resizing(w, o, h, k, q, r, n, y, p, s, n)
<1>1. /\ Root_(o, r) /\ n \in Nat /\ n <= NFrames /\ s \in 0..(NFrames * PGSIZE)
  BY SbrkFacts
<1>2. Others(o, w, y, r)
  BY DEF Others, SamePtes
<1>3. Resized(w, y, r, n, n)
  <2>1. ASSUME NEW v \in VA PROVE ~(n <= v /\ v < n)
    BY <1>1, Layout
  <2> QED BY <1>1, <2>1 DEF Resized, SamePtes
<1> QED BY <1>1, <1>2, <1>3 DEF Sbrking, Resizing

LEMMA SbrkGrows ==
  ASSUME NEW w, NEW o, NEW h, NEW k, NEW q, NEW r, NEW n, Sbrking(w, o, h, k, q, r, n),
         NEW old, old = q.sz, NEW new \in Nat, NEW y, y = Uvmalloc(w, r, old, new),
         NEW x, x = IF y.ret = 0 THEN Ret(y, -1) ELSE GrownEnd(y, k, y.ret, old)
  PROVE  \E p, s : SbrkDone(w, h, k, x, s, p)
<1>1. /\ Own(w, o) /\ Root_(o, r) /\ old \in Nat /\ n \in Nat /\ n <= NFrames /\ n < USYSCALL
      /\ AllocOK(w, o, r, old) /\ old \in 0..(NFrames * PGSIZE)
  BY SbrkFacts
<1>2. n = Pages(old) /\ 0 \in Int /\ old \in Int
  BY <1>1 DEF Sbrking
<1>3. /\ new < old => Returned(w, o, y) /\ y.ret = old
      /\ ~(new < old) => Grows(w, o, y, r, n, Pages(new) - n, new)
  BY <1>1, <1>2, Uvmallocs
<1>4. CASE new < old
  <2>1. Keep(w, o, y, o) /\ SamePtes(o, w, y) /\ y.ret = old
    BY <1>3, <1>4 DEF Returned
  <2>2. Resizing(w, o, h, k, q, r, n, y, o, old, n)
    BY <2>1, SameSized
  <2>3. x = GrownEnd(y, k, old, old)
    BY <1>1, <1>4, <2>1
  <2>4. SbrkDone(w, h, k, x, old, o)
    BY <1>2, <2>2, <2>3, SbrkSucceeds
  <2> QED BY <2>4
<1>5. CASE ~(new < old)
  <2>1. PICK n2 : n2 = Pages(new)
    OBVIOUS
  <2>2. n2 \in Nat /\ n <= n2 /\ n + (n2 - n) = n2
    <3>1. old <= new
      BY <1>1, <1>5
    <3>2. Pages(old) <= Pages(new) /\ Pages(new) \in Nat
      BY <1>1, <3>1, PagesMonotone
    <3> QED BY <1>1, <1>2, <2>1, <3>2
  <2>3. CASE y.ret = 0 /\ \E p : Keep(w, o, y, p) /\ SamePtes(o, w, y)
    <3>1. PICK p : Keep(w, o, y, p) /\ SamePtes(o, w, y)
      BY <2>3
    <3>2. Resizing(w, o, h, k, q, r, n, y, p, old, n)
      BY <3>1, SameSized
    <3>3. x = Ret(y, -1)
      BY <2>3
    <3>4. SbrkDone(w, h, k, x, old, p)
      BY <3>2, <3>3, SbrkFails
    <3> QED BY <3>4
  <2>4. CASE /\ y.ret = new /\ n2 <= NFrames
             /\ \E p : Keep(w, o, y, p) /\ Others(o, w, y, r) /\ Grew(w, y, r, n, n2)
    <3>1. PICK p : Keep(w, o, y, p) /\ Others(o, w, y, r) /\ Grew(w, y, r, n, n2)
      BY <2>4
    <3>2. Resized(w, y, r, n, n2)
      <4>1. ASSUME NEW v \in VA
            PROVE  v \in Nat /\ (v \in n..(n2 - 1) <=> n <= v /\ v < n2) /\ ~(n2 <= v /\ v < n)
        BY <1>1, <2>2, Layout
      <4> QED BY <3>1, <4>1 DEF Grew, Resized
    <3>3. new \in 0..(NFrames * PGSIZE)
      BY <2>1, <2>4, SizeBound
    <3>4. Resizing(w, o, h, k, q, r, n, y, p, new, n2)
      BY <2>1, <2>2, <2>4, <3>1, <3>2, <3>3 DEF Sbrking, Resizing
    <3>5. CASE new = 0
      <4>1. old = new
        BY <1>1, <1>5, <3>5
      <4>2. n2 = n
        BY <1>2, <2>1, <4>1
      <4>3. x = Ret(y, -1)
        BY <2>4, <3>5
      <4>4. SbrkDone(w, h, k, x, old, p)
        BY <3>4, <4>1, <4>2, <4>3, SbrkFails
      <4> QED BY <4>4
    <3>6. CASE new # 0
      <4>1. x = GrownEnd(y, k, new, old)
        BY <2>4, <3>6
      <4>2. SbrkDone(w, h, k, x, new, p)
        BY <1>2, <3>4, <4>1, SbrkSucceeds
      <4> QED BY <4>2
    <3> QED BY <3>5, <3>6
  <2>5. Grows(w, o, y, r, n, n2 - n, new)
    BY <1>3, <1>5, <2>1
  <2> QED BY <2>2, <2>3, <2>4, <2>5 DEF Grows
<1> QED BY <1>4, <1>5

LEMMA SbrkShrinks ==
  ASSUME NEW w, NEW o, NEW h, NEW k, NEW q, NEW r, NEW n, Sbrking(w, o, h, k, q, r, n),
         NEW old, old = q.sz, NEW new \in Nat, NEW y, y = Uvmdealloc(w, r, old, new),
         NEW x, x = GrownEnd(y, k, y.ret, old)
  PROVE  \E p, s : SbrkDone(w, h, k, x, s, p)
<1>1. /\ Own(w, o) /\ Root_(o, r) /\ old \in Nat /\ n \in Nat /\ n <= NFrames /\ n < USYSCALL
      /\ Ours(w, r, 0, n) /\ old \in 0..(NFrames * PGSIZE)
  BY SbrkFacts
<1>2. n = Pages(old) /\ old \in Int
  BY <1>1 DEF Sbrking
<1>3. CASE new >= old
  <2>1. y = Ret(w, old)
    BY <1>3 DEF Uvmdealloc
  <2>2. Keep(w, o, y, o) /\ SamePtes(o, w, y) /\ y.ret = old
    BY <1>1, <1>2, <2>1, RetStep DEF Returned
  <2>3. Resizing(w, o, h, k, q, r, n, y, o, old, n)
    BY <2>2, SameSized
  <2>4. x = GrownEnd(y, k, old, old)
    BY <2>2
  <2>5. SbrkDone(w, h, k, x, old, o)
    BY <1>2, <2>3, <2>4, SbrkSucceeds
  <2> QED BY <2>5
<1>4. CASE ~(new >= old)
  <2>1. PICK n2 : n2 = Pages(new)
    OBVIOUS
  <2>2. new < old /\ new <= old
    BY <1>1, <1>4
  <2>3. n2 \in Nat /\ n2 <= n /\ n2 <= NFrames
    <3>1. Pages(new) <= Pages(old) /\ Pages(new) \in Nat
      BY <1>1, <2>2, PagesMonotone
    <3> QED BY <1>1, <1>2, <2>1, <3>1
  <2>4. DeallocOK(w, o, r, old, new)
    <3>1. Ours(w, r, n2, n - n2)
      BY <1>1, <2>3 DEF Ours
    <3>2. n <= MAXVA
      BY <1>1, Layout
    <3> QED BY <1>1, <1>2, <2>1, <3>1, <3>2 DEF DeallocOK
  <2>5. y.ret = new /\ \E p : Unmapped_(w, o, y, p, r, n2, n - n2)
    BY <1>2, <2>1, <2>2, <2>4, Deallocates
  <2>6. PICK p : Unmapped_(w, o, y, p, r, n2, n - n2)
    BY <2>5
  <2>7. Keep(w, o, y, p) /\ Others(o, w, y, r) /\ Cleared(w, y, r, n2, n - n2)
    BY <2>6 DEF Unmapped_
  <2>8. Resized(w, y, r, n, n2)
    <3>1. ASSUME NEW v \in VA
          PROVE  v \in Nat /\ (v \in n2..(n2 + (n - n2) - 1) <=> n2 <= v /\ v < n) /\ ~(n <= v /\ v < n2)
      BY <1>1, <2>3, Layout
    <3> QED BY <2>7, <3>1 DEF Cleared, Resized
  <2>9. new \in 0..(NFrames * PGSIZE)
    BY <2>1, <2>3, SizeBound
  <2>10. Resizing(w, o, h, k, q, r, n, y, p, new, n2)
    BY <2>1, <2>3, <2>7, <2>8, <2>9 DEF Sbrking, Resizing
  <2>11. x = GrownEnd(y, k, new, old)
    BY <2>5
  <2>12. SbrkDone(w, h, k, x, new, p)
    BY <1>2, <2>10, <2>11, SbrkSucceeds
  <2> QED BY <2>12
<1> QED BY <1>3, <1>4

LEMMA SysSbrks ==
  ASSUME NEW w, NEW o, NEW h, Mem(w, o, h), NEW k \in Procs, w.proc[k].state # "UNUSED",
         NEW a \in Int, NEW x, x = SysSbrk(w, k, a)
  PROVE  \E p : Mem(x, p, HistAt(h, k, SbrkHist(h[k], Pages(x.proc[k].sz))))
<1>1. PICK q, r, n, old : /\ q = w.proc[k] /\ r = q.pagetable /\ n = Pages(q.sz) /\ old = q.sz
  OBVIOUS
<1>2. Sbrking(w, o, h, k, q, r, n)
  BY <1>1 DEF Sbrking
<1>3. Own(w, o) /\ old \in Nat /\ old \in Int
  BY <1>1, <1>2, SbrkFacts
<1>4. PICK new : new = UintSum(old, a)
  OBVIOUS
<1>5. new \in Nat
  BY <1>3, <1>4, UintSums
<1>6. PICK y : y = IF a > 0 THEN Uvmalloc(w, r, old, new)
                   ELSE IF a < 0 THEN Uvmdealloc(w, r, old, new) ELSE Ret(w, old)
  OBVIOUS
<1>7. x = Grown(y, k, a, old)
  BY Zenon, <1>1, <1>4, <1>6 DEF SysSbrk
<1>8. x = IF a > 0 /\ y.ret = 0 THEN Ret(y, -1) ELSE GrownEnd(y, k, y.ret, old)
  BY Zenon, <1>7 DEF Grown, GrownEnd
<1>9. CASE a > 0
  <2>1. y = Uvmalloc(w, r, old, new)
    BY <1>6, <1>9
  <2>2. x = IF y.ret = 0 THEN Ret(y, -1) ELSE GrownEnd(y, k, y.ret, old)
    BY <1>8, <1>9
  <2>3. \E p, s : SbrkDone(w, h, k, x, s, p)
    BY <1>1, <1>2, <1>5, <2>1, <2>2, SbrkGrows
  <2> QED BY <2>3 DEF SbrkDone
<1>10. CASE ~(a > 0)
  <2>1. x = GrownEnd(y, k, y.ret, old)
    BY <1>8, <1>10
  <2>2. CASE a < 0
    <3>1. y = Uvmdealloc(w, r, old, new)
      BY <1>6, <1>10, <2>2
    <3>2. \E p, s : SbrkDone(w, h, k, x, s, p)
      BY <1>1, <1>2, <1>5, <2>1, <3>1, SbrkShrinks
    <3> QED BY <3>2 DEF SbrkDone
  <2>3. CASE ~(a < 0)
    <3>1. y = Ret(w, old)
      BY <1>6, <1>10, <2>3
    <3>2. Keep(w, o, y, o) /\ SamePtes(o, w, y) /\ y.ret = old
      BY <1>3, <3>1, RetStep DEF Returned
    <3>3. Resizing(w, o, h, k, q, r, n, y, o, old, n)
      BY <1>1, <1>2, <3>2, SameSized
    <3>4. x = GrownEnd(y, k, old, old)
      BY <2>1, <3>2
    <3>5. SbrkDone(w, h, k, x, old, o)
      BY <1>3, <3>3, <3>4, SbrkSucceeds
    <3> QED BY <3>5 DEF SbrkDone
  <2> QED BY <2>2, <2>3
<1> QED BY <1>9, <1>10

-----------------------------------------------------------------------------
(* exec().  Until it commits, the new page table is c, and nothing but c   *)
(* and the page for user space has changed, which holds the pid.           *)

Execing(w, o, h, k, q, y, p, c) ==
  /\ Mem(w, o, h) /\ k \in Procs /\ q = w.proc[k] /\ q.state # "UNUSED"
  /\ Touch(w, o, y, p, {c, q.usyscall}) /\ y.proc = w.proc
  /\ c \in Frames /\ ~Held(o[c]) /\ p[c] = <<"root", 0, 0>>
  /\ p[q.usyscall] = o[q.usyscall] /\ y.data[q.usyscall] = q.pid

(* The new image has n pages, and page gd is out of reach.                 *)
ImageTo(w, r, q, n, gd) ==
  \A v \in VA : IF v >= USYSCALL THEN PteAt(w, r, v) = TopPte(q, v)
                ELSE IF v < n
                THEN PteAt(w, r, v).pa # 0 /\ PteAt(w, r, v).perm = UserPerm \ (IF v = gd THEN {"U"} ELSE {})
                ELSE PteAt(w, r, v).pa = 0

LEMMA ExecFields ==
  ASSUME NEW w, NEW o, NEW h, NEW k, NEW q, NEW y, NEW p, NEW c, Execing(w, o, h, k, q, y, p, c)
  PROVE  /\ Own(w, o) /\ Process(w, o, k, q, h[k]) /\ q \in ProcType /\ Own(y, p) /\ Root_(p, c)
         /\ Owns(o, k, q) /\ Owns(p, k, q) /\ c # 0 /\ c \notin Fields(q)
         /\ q.pid \in 1..(NPROC + 1) /\ h \in [Procs -> HistType] /\ h[k] \in HistType
         /\ q.trapframe \in Frames /\ q.usyscall \in Frames
         /\ y \in Machine /\ w.proc \in [Procs -> ProcType]
<1> USE DEF Execing
<1>1. Own(w, o) /\ Process(w, o, k, q, h[k]) /\ q \in ProcType /\ h \in [Procs -> HistType] /\ h[k] \in HistType
  BY InUseIs DEF Mem
<1>2. Owns(o, k, q) /\ q.pid \in 1..(NPROC + 1)
  BY <1>1 DEF Process
<1>3. Own(y, p) /\ Root_(p, c)
  BY DEF Touch, Root_
<1>4. c # 0 /\ q.trapframe # c /\ q.usyscall # c /\ q.pagetable # c
      /\ q.trapframe # q.usyscall /\ q.pagetable # q.usyscall
  <2>1. 0 \notin Frames
    BY DEF Frames
  <2> QED BY <1>2, <2>1 DEF Owns, Held
<1>5. Owns(p, k, q)
  <2>1. PICK R : R = {c, q.usyscall}
    OBVIOUS
  <2>2. q.trapframe \notin R /\ q.pagetable \notin R /\ Touch(w, o, y, p, R)
    BY <1>4, <2>1
  <2>3. p[q.trapframe] = o[q.trapframe] /\ p[q.pagetable] = o[q.pagetable]
    <3>1. Held(o[q.trapframe]) /\ Held(o[q.pagetable])
      BY <1>2 DEF Owns, Held
    <3> QED BY <1>2, <2>2, <3>1, TouchRoots DEF Owns
  <2> QED BY <1>2, <2>3 DEF Owns
<1>6. y \in Machine /\ w.proc \in [Procs -> ProcType]
  BY <1>1, <1>3, Left, MachineFields
<1> QED BY <1>1, <1>2, <1>3, <1>4, <1>5, <1>6 DEF Owns, Fields

LEMMA ExecGoesOn ==
  ASSUME NEW w, NEW o, NEW h, NEW k, NEW q, NEW y, NEW p, NEW c, Execing(w, o, h, k, q, y, p, c),
         NEW z, NEW p2, Touch(y, p, z, p2, {c}), p2[c] = p[c], z.proc = y.proc
  PROVE  Execing(w, o, h, k, q, z, p2, c)
<1>1. Owns(p, k, q) /\ c \notin Fields(q) /\ q.usyscall \in Frames
  BY ExecFields
<1>2. PICK R, u : R = {c, q.usyscall} /\ u = q.usyscall
  OBVIOUS
<1>3. Touch(w, o, z, p2, R)
  <2>1. Touch(w, o, y, p, R)
    BY <1>2 DEF Execing
  <2>2. Touch(w, o, z, p2, R \cup {c})
    BY <2>1, TouchTrans
  <2>3. R \cup {c} = R
    BY <1>2
  <2> QED BY <2>2, <2>3
<1>4. u # c /\ p[u] = <<"loose", 2, k>> /\ u \in Frames
  <2>1. 0 \notin Frames
    BY DEF Frames
  <2> QED BY <1>1, <1>2, <2>1 DEF Owns, Fields
<1>5. p2[u] = p[u] /\ z.data[u] = y.data[u]
  BY <1>4 DEF Touch, Held
<1> QED BY <1>2, <1>3, <1>5 DEF Execing

LEMMA ExecKeeps ==
  ASSUME NEW w, NEW o, NEW h, NEW k, NEW q, NEW y, NEW p, NEW c, Execing(w, o, h, k, q, y, p, c),
         NEW z, NEW p2, Keep(y, p, z, p2), Others(p, y, z, c)
  PROVE  Execing(w, o, h, k, q, z, p2, c)
<1>1. Touch(y, p, z, p2, {c}) /\ z.proc = y.proc
  BY TouchKeep DEF Keep
<1>2. p2[c] = p[c]
  BY ExecFields DEF Keep, Root_
<1> QED BY <1>1, <1>2, ExecGoesOn

LEMMA ExecSame ==
  ASSUME NEW w, NEW o, NEW h, NEW k, NEW q, NEW y, NEW p, NEW c, Execing(w, o, h, k, q, y, p, c),
         NEW z, NEW p2, Keep(y, p, z, p2), SamePtes(p, y, z)
  PROVE  /\ Execing(w, o, h, k, q, z, p2, c)
         /\ \A n, gd : ImageTo(y, c, q, n, gd) => ImageTo(z, c, q, n, gd)
<1>1. Others(p, y, z, c)
  BY DEF Others, SamePtes
<1>2. Root_(p, c)
  BY ExecFields
<1>3. \A v \in VA : PteAt(z, c, v) = PteAt(y, c, v)
  BY <1>2 DEF SamePtes
<1> QED BY <1>1, <1>3, ExecKeeps DEF ImageTo

(* What the loops of exec() need to know of the image.                     *)
LEMMA ImageToFacts ==
  ASSUME NEW w, NEW o, NEW h, NEW k, NEW q, NEW y, NEW p, NEW c, Execing(w, o, h, k, q, y, p, c),
         NEW n \in Nat, n <= NFrames, NEW gd, ImageTo(y, c, q, n, gd)
  PROVE  /\ SpaceIs(y, c, n, 3) /\ Ours(y, c, 0, n) /\ Reachable(y, c) /\ n < USYSCALL
         /\ \A v \in VA : v >= n /\ v < USYSCALL => PteAt(y, c, v).pa = 0
<1>1. Own(y, p) /\ Root_(p, c) /\ q.trapframe \in Frames /\ q.usyscall \in Frames
  BY ExecFields
<1>2. USYSCALL \in Nat /\ USYSCALL = MAXVA - 3 /\ n < USYSCALL /\ USYSCALL < MAXVA
  BY Layout
<1>3. ASSUME NEW v \in VA
      PROVE  LET e == PteAt(y, c, v)
             IN /\ v >= USYSCALL => e.pa # 0 /\ ~Mine(e)
                /\ ~(v >= USYSCALL) /\ v < n => e.pa # 0 /\ Mine(e)
                /\ ~(v >= USYSCALL) /\ ~(v < n) => e.pa = 0
                /\ "U" \in e.perm => e.pa \in Frames
  <2>1. PICK e : e = PteAt(y, c, v)
    OBVIOUS
  <2>2. IF v >= USYSCALL THEN e = TopPte(q, v)
        ELSE IF v < n THEN e.pa # 0 /\ e.perm = UserPerm \ (IF v = gd THEN {"U"} ELSE {})
        ELSE e.pa = 0
    BY <2>1 DEF ImageTo
  <2>3. e.pa # 0 /\ Mine(e) => e.pa \in Frames
    BY <1>1, <2>1, PteFacts
  <2>4. CASE v >= USYSCALL
    <3>1. q.trapframe # 0 /\ q.usyscall # 0 /\ TrampolinePa # 0
      BY <1>1, SizeAssumption DEF Frames, TrampolinePa
    <3>2. e.pa # 0 /\ ~Mine(e) /\ ("U" \in e.perm => e.pa \in Frames)
      BY <1>1, <2>2, <2>4, <3>1 DEF TopPte, Mine
    <3> QED BY <2>1, <2>4, <3>2
  <2>5. CASE ~(v >= USYSCALL) /\ v < n
    <3>1. e.pa # 0 /\ e.perm = UserPerm \ (IF v = gd THEN {"U"} ELSE {})
      BY <2>2, <2>5
    <3>2. Mine(e)
      BY <3>1 DEF Mine, UserPerm
    <3> QED BY <2>1, <2>3, <2>5, <3>1, <3>2
  <2>6. CASE ~(v >= USYSCALL) /\ ~(v < n)
    <3>1. e.pa = 0
      BY <2>2, <2>6
    <3>2. e = NoPte
      BY <1>1, <2>1, <3>1, PteFacts
    <3>3. "U" \notin e.perm
      BY <3>2 DEF NoPte
    <3> QED BY <2>1, <2>6, <3>1, <3>3
  <2> QED BY <2>4, <2>5, <2>6
<1>4. SpaceIs(y, c, n, 3) /\ Reachable(y, c)
  BY <1>2, <1>3 DEF SpaceIs, Reachable
<1>5. Ours(y, c, 0, n)
  <2>1. ASSUME NEW u \in 0..(0 + n - 1) PROVE u \in VA /\ u < n /\ ~(u >= USYSCALL)
    BY <1>2, Layout DEF VA
  <2> QED BY <1>3, <2>1 DEF Ours
<1>6. \A v \in VA : v >= n /\ v < USYSCALL => PteAt(y, c, v).pa = 0
  <2>1. ASSUME NEW v \in VA, v >= n /\ v < USYSCALL PROVE ~(v >= USYSCALL) /\ ~(v < n)
    BY <1>2, <2>1, Layout
  <2> QED BY <1>3, <2>1
<1> QED BY <1>2, <1>4, <1>5, <1>6

(* goto bad: the new page table goes, with all that it maps.               *)
ExecFailed(h, x) == x.ret < 0 /\ \E p : Mem(x, p, h)

LEMMA FreePagetable ==
  ASSUME NEW w, NEW r, NEW sz, NEW n, n = Pages(sz)
  PROVE  ProcFreepagetable(w, r, sz) = FreeSpace(w, r, n, 3)
<1>1. USYSCALL = MAXVA - 3
  BY Layout
<1> QED BY <1>1, Zenon DEF ProcFreepagetable, Uvmfree, FreeSpace, UnmapOnly, UnmapFree

LEMMA ExecBads ==
  ASSUME NEW w, NEW o, NEW h, NEW k, NEW q, NEW y, NEW p, NEW c, Execing(w, o, h, k, q, y, p, c),
         NEW n \in Nat, n <= NFrames, NEW gd, ImageTo(y, c, q, n, gd), NEW sz, n = Pages(sz),
         NEW x, x = ExecBad(y, c, sz)
  PROVE  ExecFailed(h, x)
<1>1. /\ Own(w, o) /\ Process(w, o, k, q, h[k]) /\ q \in ProcType /\ Own(y, p) /\ Root_(p, c)
      /\ Owns(o, k, q) /\ Owns(p, k, q) /\ c # 0 /\ c \notin Fields(q) /\ h \in [Procs -> HistType]
  BY ExecFields
<1>2. SpaceIs(y, c, n, 3) /\ n < USYSCALL
  BY ImageToFacts
<1>3. Space(y, p, c, n, 3)
  <2>1. n + 3 <= MAXVA /\ 3 \in Nat
    BY <1>2, Layout
  <2> QED BY <1>1, <1>2, <2>1 DEF Space
<1>4. PICK z : z = FreeSpace(y, c, n, 3)
  OBVIOUS
<1>5. PICK p2 : Gone(y, p, z, p2, c)
  BY <1>3, <1>4, SpaceFreed
<1>6. Touch(y, p, z, p2, {c}) /\ p2[c] = Free /\ z.proc = y.proc
  BY <1>5, TouchGone DEF Gone
<1>7. PICK u, R, J : u = q.usyscall /\ R = {u} /\ J = {k}
  OBVIOUS
<1>8. Touch(w, o, y, p, {c, u}) /\ y.proc = w.proc /\ c \in Frames /\ ~Held(o[c])
      /\ p[u] = o[u] /\ y.data[u] = q.pid /\ Mem(w, o, h) /\ k \in Procs /\ q = w.proc[k]
  BY <1>7 DEF Execing
<1>9. Touch(w, o, z, p2, R)
  <2>1. Touch(w, o, z, p2, {c, u} \cup {c})
    BY <1>6, <1>8, TouchTrans
  <2>2. \A f \in Frames : f \in {c, u} \cup {c} /\ f \notin R => ~Held(o[f]) /\ ~Held(p2[f])
    BY <1>6, <1>7, <1>8 DEF Held, Free
  <2> QED BY <2>1, <2>2, TouchLess
<1>10. u # c /\ o[u] = <<"loose", 2, k>> /\ u \in Frames /\ u \in Fields(q)
  <2>1. 0 \notin Frames
    BY DEF Frames
  <2> QED BY <1>1, <1>7, <2>1 DEF Owns, Fields
<1>11. p2[u] = o[u] /\ z.data[u] = q.pid
  BY <1>6, <1>8, <1>10 DEF Touch, Held
<1>12. SlotOK(z, p2, k, q, h[k])
  <2>1. PICK r : r = q.pagetable
    OBVIOUS
  <2>2. r # u /\ q.trapframe # u /\ r \in Frames /\ q.trapframe \in Frames
        /\ o[r] = <<"root", 0, k>> /\ o[q.trapframe] = <<"loose", 1, k>>
    BY <1>1, <1>10, <2>1 DEF Owns
  <2>3. p2[r] = o[r] /\ p2[q.trapframe] = o[q.trapframe]
    BY <1>7, <1>9, <2>2 DEF Touch, Held
  <2>4. Owns(p2, k, q)
    BY <1>1, <1>7, <1>10, <1>11, <2>1, <2>2, <2>3 DEF Owns
  <2>5. \A v \in VA : PteAt(z, r, v) = PteAt(w, r, v)
    <3>1. Root_(o, r) /\ r \notin R
      BY <1>7, <2>2 DEF Root_
    <3> QED BY <1>9, <3>1 DEF Touch
  <2>6. Image_(z, r, q, Pages(q.sz), h[k])
    BY <1>1, <2>1, <2>5 DEF Process, Image_
  <2> QED BY <1>1, <1>7, <1>11, <2>1, <2>4, <2>6 DEF Process, SlotOK
<1>13. z.proc = w.proc
  BY <1>6, <1>8
<1>14. ASSUME NEW f \in Frames, f \in R
       PROVE  o[f][3] = k /\ p2[f][3] = k /\ f \in Fields(q)
  BY <1>7, <1>10, <1>11, <1>14
<1>15. Stepped(w, o, h, z, p2, h, R, J)
  BY <1>1, <1>7, <1>8, <1>9, <1>12, <1>13, <1>14 DEF Stepped
<1>16. Mem(z, p2, h)
  BY <1>15, MemStep
<1>17. x = Ret(z, -1)
  <2>1. ProcFreepagetable(y, c, sz) = z
    BY <1>4, FreePagetable
  <2> QED BY <2>1 DEF ExecBad
<1>18. Touch(z, p2, x, p2, {}) /\ x.ret = -1 /\ x.proc = z.proc
  <2>1. Touch(z, p2, z, p2, {})
    BY <1>16, TouchRefl DEF Mem
  <2> QED BY <1>17, <2>1, TouchError
<1>19. Mem(x, p2, h)
  BY <1>16, <1>18, MemSame
<1> QED BY <1>18, <1>19 DEF ExecFailed

(* Commit to the user image.                                               *)
ExecHist(gd) == [NewHist EXCEPT !.guard = gd]
ExecSlot(q, c, s) == [q EXCEPT !.pagetable = c, !.sz = s]

LEMMA ExecHistFields ==
  ASSUME NEW gd \in Nat
  PROVE  /\ ExecHist(gd) \in HistType /\ ExecHist(gd).guard = gd
         /\ Marked(ExecHist(gd)) = {} /\ ExecHist(gd).scribbled = FALSE
BY NewHistType DEF ExecHist, NewHist, HistType, Marked

LEMMA ExecSlotFields ==
  ASSUME NEW q \in ProcType, NEW c \in Frames, NEW s \in 0..(NFrames * PGSIZE),
         NEW q2, q2 = ExecSlot(q, c, s)
  PROVE  /\ q2 \in ProcType /\ q2.sz = s /\ q2.pagetable = c /\ q2.state = q.state /\ q2.pid = q.pid
         /\ q2.trapframe = q.trapframe /\ q2.usyscall = q.usyscall
<1>1. c \in 0..NFrames
  BY SizeAssumption DEF Frames
<1> QED BY <1>1 DEF ExecSlot, ProcType

LEMMA ImageToIs ==
  ASSUME NEW w, NEW o, Own(w, o), NEW r, Root_(o, r), NEW q, NEW n \in Nat, n <= NFrames, NEW gd,
         ImageTo(w, r, q, n, gd), NEW h, h.guard = gd, Marked(h) = {},
         NEW q2, q2.trapframe = q.trapframe, q2.usyscall = q.usyscall
  PROVE  Image_(w, r, q2, n, h)
<1>1. ASSUME NEW v \in VA PROVE PteIs(PteAt(w, r, v), v, q2, n, h)
  <2>1. PICK e : e = PteAt(w, r, v)
    OBVIOUS
  <2>2. IF v >= USYSCALL THEN e = TopPte(q, v)
        ELSE IF v < n THEN e.pa # 0 /\ e.perm = UserPerm \ (IF v = gd THEN {"U"} ELSE {})
        ELSE e.pa = 0
    BY <2>1 DEF ImageTo
  <2>3. v \notin Marked(h)
    OBVIOUS
  <2>4. CASE v >= USYSCALL
    <3>1. e = TopPte(q2, v) /\ "A" \notin e.perm
      BY <2>2, <2>4 DEF TopPte
    <3>2. e.perm \ {"A"} = e.perm
      BY <3>1
    <3> QED BY <2>1, <2>3, <2>4, <3>1, <3>2 DEF PteIs
  <2>5. CASE ~(v >= USYSCALL) /\ v < n
    <3>1. e.pa # 0 /\ e.perm = UserPerm \ (IF v = h.guard THEN {"U"} ELSE {})
      BY <2>2, <2>5
    <3>2. "A" \notin e.perm
      BY <3>1 DEF UserPerm
    <3>3. e.perm \ {"A"} = e.perm
      BY <3>2
    <3>4. PteIs(e, v, q2, n, h)
      BY <2>3, <2>5, <3>1, <3>2, <3>3 DEF PteIs
    <3> QED BY <2>1, <3>4
  <2>6. CASE ~(v >= USYSCALL) /\ ~(v < n)
    <3>1. e.pa = 0
      BY <2>2, <2>6
    <3>2. e = NoPte
      BY <2>1, <3>1, PteFacts
    <3>3. "A" \notin e.perm
      BY <3>2 DEF NoPte
    <3>4. PteIs(e, v, q2, n, h)
      BY <2>3, <2>6, <3>1, <3>3 DEF PteIs
    <3> QED BY <2>1, <3>4
  <2> QED BY <2>4, <2>5, <2>6
<1> QED BY <1>1 DEF Image_

ExecDone(h, k, x) ==
  x.ret = 0 /\ \E p : Mem(x, p, HistAt(h, k, ExecHist(Pages(x.proc[k].sz) - 2)))

Committing(w, o, h, k, q, y, p, c, n, gd, s) ==
  /\ Execing(w, o, h, k, q, y, p, c) /\ n \in Nat /\ n <= NFrames /\ gd \in Nat /\ gd = n - 2
  /\ ImageTo(y, c, q, n, gd) /\ n = Pages(s) /\ s \in 0..(NFrames * PGSIZE)

(* The slot of the process refers to the new image, and the old one goes.  *)
Committed(w, k, q2, y, p, z, p2, c, r) ==
  /\ z.proc = WithSlot(w.proc, k, q2) /\ p2[c] = <<"root", 0, k>> /\ p2[r] = Free
  /\ Touch(y, p, z, p2, {c, r}) /\ \A v \in VA : PteAt(z, c, v) = PteAt(y, c, v)

Renewed(y, k, c, s) == [y EXCEPT !.proc[k].pagetable = c, !.proc[k].sz = s]

LEMMA ExecCommitted ==
  ASSUME NEW w, NEW o, NEW h, NEW k, NEW q, NEW y, NEW p, NEW c, NEW n, NEW gd, NEW s,
         Committing(w, o, h, k, q, y, p, c, n, gd, s), NEW q2, q2 = ExecSlot(q, c, s),
         NEW r, r = q.pagetable, NEW a, a = Renewed(y, k, c, s),
         NEW z, z = ProcFreepagetable(a, r, q.sz)
  PROVE  \E p2 : Committed(w, k, q2, y, p, z, p2, c, r)
<1> USE DEF Committing
<1>1. /\ Own(w, o) /\ Process(w, o, k, q, h[k]) /\ q \in ProcType /\ Own(y, p) /\ Root_(p, c)
      /\ Owns(o, k, q) /\ Owns(p, k, q) /\ c # 0 /\ c \notin Fields(q)
      /\ y \in Machine /\ w.proc \in [Procs -> ProcType]
  BY ExecFields
<1>2. PICK u : u = q.usyscall
  OBVIOUS
<1>3. /\ Touch(w, o, y, p, {c, u}) /\ y.proc = w.proc /\ c \in Frames /\ p[c] = <<"root", 0, 0>>
      /\ k \in Procs /\ q = w.proc[k]
  BY <1>2 DEF Execing
<1>4. q2 \in ProcType
  BY <1>1, <1>3, ExecSlotFields
<1>5. a = [y EXCEPT !.proc = WithSlot(w.proc, k, q2)]
  BY <1>1, <1>3 DEF ExecSlot, WithSlot, Machine, Renewed
<1>6. /\ a \in Machine /\ a.pt = y.pt /\ a.data = y.data /\ a.free = y.free
      /\ a.proc = WithSlot(w.proc, k, q2)
  <2>1. y \in Machine /\ k \in Procs /\ q2 \in ProcType /\ y.proc = w.proc
    BY <1>1, <1>3, <1>4
  <2>2. a = [y EXCEPT !.proc = WithSlot(y.proc, k, q2)]
    BY <1>5, <2>1
  <2>3. WithSlot(y.proc, k, q2) = WithSlot(w.proc, k, q2)
    BY <2>1
  <2>4. w.proc \in [Procs -> ProcType] /\ a = [y EXCEPT !.proc = WithSlot(w.proc, k, q2)]
    BY <1>1, <2>2, <2>3
  <2> HIDE DEF Committing
  <2> QED BY <2>1, <2>4, SlotFilled
<1>7. Touch(y, p, a, p, {}) /\ Own(a, p) /\ SamePtes(p, y, a)
  BY <1>1, <1>6, TouchRefit
<1>8. PICK p1 : p1 = Put(p, c, <<"root", 0, k>>)
  OBVIOUS
<1>9. Own(a, p1)
  <2>1. k \in Nat /\ p[c][1] = "root"
    BY <1>3 DEF Procs
  <2> QED BY <1>3, <1>7, <1>8, <2>1, OwnRoot
<1>10. Touch(a, p, a, p1, {c})
  BY <1>3, <1>7, <1>8, <1>9, TouchPut
<1>11. /\ r \in Frames /\ r # c /\ r # u /\ p[r] = <<"root", 0, k>> /\ o[r] = <<"root", 0, k>>
       /\ p1[c] = <<"root", 0, k>> /\ p1[r] = <<"root", 0, k>>
  <2>1. 0 \notin Frames
    BY DEF Frames
  <2>2. r \in Frames /\ p[r] = <<"root", 0, k>> /\ o[r] = <<"root", 0, k>> /\ o[u] = <<"loose", 2, k>> /\ r \in Fields(q)
    BY <1>1, <1>2, <2>1 DEF Owns, Fields
  <2>3. p \in [Frames -> Places]
    BY <1>1 DEF Own
  <2>4. p1[c] = <<"root", 0, k>> /\ \A f \in Frames : f # c => p1[f] = p[f]
    BY <1>3, <1>8, <2>3, PutFields
  <2> QED BY <1>1, <2>2, <2>4
<1>12. PICK m0 : m0 = Pages(q.sz)
  OBVIOUS
<1>13. SpaceIs(w, r, m0, 3) /\ m0 \in Nat /\ m0 < USYSCALL /\ Root_(o, r)
  BY <1>1, <1>12, ImageFacts
<1>14. \A v \in VA : PteAt(a, r, v) = PteAt(w, r, v)
  <2>1. Root_(p, r)
    BY <1>11 DEF Root_
  <2>2. \A v \in VA : PteAt(y, r, v) = PteAt(w, r, v)
    <3>1. r \notin {c, u}
      BY <1>11
    <3> QED BY <1>3, <1>13, <3>1 DEF Touch
  <2> QED BY <1>7, <2>1, <2>2 DEF SamePtes
<1>15. Space(a, p1, r, m0, 3)
  <2>1. SpaceIs(a, r, m0, 3)
    BY <1>13, <1>14 DEF SpaceIs
  <2>2. m0 + 3 <= MAXVA /\ 3 \in Nat /\ Root_(p1, r)
    BY <1>11, <1>13, Layout DEF Root_
  <2> QED BY <1>9, <1>13, <2>1, <2>2 DEF Space
<1>16. z = FreeSpace(a, r, m0, 3)
  BY <1>12, FreePagetable
<1>17. PICK p2 : Gone(a, p1, z, p2, r)
  BY <1>15, <1>16, SpaceFreed
<1>18. Touch(a, p1, z, p2, {r}) /\ p2[r] = Free /\ z.proc = a.proc /\ Others(p1, a, z, r)
  <2>1. Touch(a, p1, z, p2, {r})
    BY <1>17, TouchGone
  <2> QED BY <1>17, <2>1 DEF Gone
<1>19. Touch(y, p, z, p2, {c, r})
  <2>1. Touch(y, p, a, p1, {} \cup {c})
    BY <1>7, <1>10, TouchTrans
  <2>2. Touch(y, p, z, p2, ({} \cup {c}) \cup {r})
    BY <1>18, <2>1, TouchTrans
  <2>3. ({} \cup {c}) \cup {r} = {c, r}
    OBVIOUS
  <2> QED BY <2>2, <2>3
<1>20. p2[c] = <<"root", 0, k>>
  <2>1. c \notin {r} /\ Held(p1[c])
    BY <1>11 DEF Held
  <2> QED BY <1>3, <1>11, <1>18, <2>1 DEF Touch
<1>21. \A v \in VA : PteAt(z, c, v) = PteAt(y, c, v)
  <2>1. Root_(p1, c) /\ c # r
    BY <1>3, <1>11 DEF Root_
  <2>2. \A v \in VA : PteAt(z, c, v) = PteAt(a, c, v)
    BY <1>18, <2>1 DEF Others
  <2>3. \A v \in VA : PteAt(a, c, v) = PteAt(y, c, v)
    BY <1>1, <1>7 DEF SamePtes
  <2> QED BY <2>2, <2>3
<1>22. Committed(w, k, q2, y, p, z, p2, c, r)
  BY <1>6, <1>18, <1>19, <1>20, <1>21 DEF Committed
<1> QED BY <1>22

LEMMA ExecCommits ==
  ASSUME NEW w, NEW o, NEW h, NEW k, NEW q, NEW y, NEW p, NEW c, NEW n, NEW gd, NEW s,
         Committing(w, o, h, k, q, y, p, c, n, gd, s), NEW x, x = ExecCommit(y, k, c, s)
  PROVE  ExecDone(h, k, x)
<1> USE DEF Committing
<1>1. /\ Own(w, o) /\ Process(w, o, k, q, h[k]) /\ q \in ProcType /\ Own(y, p) /\ Root_(p, c)
      /\ Owns(o, k, q) /\ Owns(p, k, q) /\ c # 0 /\ c \notin Fields(q) /\ h \in [Procs -> HistType]
      /\ y \in Machine /\ w.proc \in [Procs -> ProcType]
  BY ExecFields
<1>2. PICK u, r, q2 : u = q.usyscall /\ r = q.pagetable /\ q2 = ExecSlot(q, c, s)
  OBVIOUS
<1>3. /\ Touch(w, o, y, p, {c, u}) /\ y.proc = w.proc /\ c \in Frames /\ ~Held(o[c]) /\ p[c] = <<"root", 0, 0>>
      /\ k \in Procs /\ q = w.proc[k] /\ y.data[u] = q.pid /\ Mem(w, o, h) /\ p[u] = o[u]
  BY <1>2 DEF Execing
<1>4. PICK a : a = Renewed(y, k, c, s)
  OBVIOUS
<1>5. PICK z : z = ProcFreepagetable(a, r, q.sz)
  OBVIOUS
<1>6. y.proc[k] = q
  BY <1>3
<1>7. x = Ret(z, 0)
  BY Zenon, <1>2, <1>4, <1>5, <1>6 DEF ExecCommit, Renewed
<1>8. PICK p2 : Committed(w, k, q2, y, p, z, p2, c, r)
  <2> HIDE DEF Committing
  <2>1. Committing(w, o, h, k, q, y, p, c, n, gd, s)
    OBVIOUS
  <2>2. q2 = ExecSlot(q, c, s) /\ r = q.pagetable
    BY <1>2
  <2> QED BY <1>4, <1>5, <2>1, <2>2, ExecCommitted
<1>9. /\ z.proc = WithSlot(w.proc, k, q2) /\ p2[c] = <<"root", 0, k>> /\ p2[r] = Free
      /\ Touch(y, p, z, p2, {c, r}) /\ \A v \in VA : PteAt(z, c, v) = PteAt(y, c, v)
  BY <1>8 DEF Committed
<1>10. /\ q2 \in ProcType /\ q2.sz = s /\ q2.pagetable = c /\ q2.state = q.state /\ q2.pid = q.pid
       /\ q2.trapframe = q.trapframe /\ q2.usyscall = u
  BY <1>1, <1>2, <1>3, ExecSlotFields
<1>11. PICK R, J, e, g : R = {c, u, r} /\ J = {k} /\ e = ExecHist(gd) /\ g = HistAt(h, k, e)
  OBVIOUS
<1>12. Touch(w, o, z, p2, R)
  <2>1. Touch(w, o, z, p2, {c, u} \cup {c, r})
    BY <1>3, <1>9, TouchTrans
  <2>2. {c, u} \cup {c, r} = R
    BY <1>11
  <2> QED BY <2>1, <2>2
<1>13. e \in HistType /\ e.guard = gd /\ Marked(e) = {} /\ e.scribbled = FALSE
  BY <1>11, ExecHistFields
<1>14. g[k] = e /\ g \in [Procs -> HistType] /\ \A i \in Procs : i # k => g[i] = h[i]
  <2>1. g = HistAt(h, k, e) /\ h \in [Procs -> HistType] /\ k \in Procs /\ e \in HistType
    BY <1>1, <1>3, <1>11, <1>13
  <2> QED BY <2>1, HistSet
<1>15. z.proc[k] = q2 /\ \A i \in Procs : i # k => z.proc[i] = w.proc[i]
  <2>1. z.proc = WithSlot(w.proc, k, q2) /\ w.proc \in [Procs -> ProcType] /\ k \in Procs
    BY <1>1, <1>3, <1>9
  <2> QED BY <2>1, SlotSet
<1>16. PICK t : t = q.trapframe
  OBVIOUS
<1>17. /\ t \in Frames /\ u \in Frames /\ r \in Frames /\ t # c /\ u # c /\ r # c /\ u # r /\ t # r /\ t # u
       /\ o[t] = <<"loose", 1, k>> /\ o[u] = <<"loose", 2, k>> /\ o[r] = <<"root", 0, k>>
       /\ p[t] = <<"loose", 1, k>> /\ p[u] = <<"loose", 2, k>>
  <2>1. 0 \notin Frames
    BY DEF Frames
  <2> QED BY <1>1, <1>2, <1>16, <2>1 DEF Owns, Fields
<1>18. p2[t] = p[t] /\ p2[u] = p[u] /\ z.data[u] = y.data[u]
  <2>1. t \notin {c, r} /\ u \notin {c, r} /\ Held(p[t]) /\ Held(p[u]) /\ p[u][1] = "loose"
    BY <1>17 DEF Held
  <2> QED BY <1>9, <1>17, <2>1 DEF Touch
<1>19. SlotOK(z, p2, k, q2, g[k])
  <2>1. Owns(p2, k, q2)
    BY <1>3, <1>9, <1>10, <1>16, <1>17, <1>18 DEF Owns
  <2>2. ImageTo(z, c, q, n, gd)
    BY <1>9 DEF ImageTo
  <2>3. Root_(p2, c) /\ Own(z, p2)
    BY <1>3, <1>9 DEF Root_, Touch
  <2>4. Image_(z, c, q2, n, e)
    BY <1>2, <1>10, <1>13, <2>2, <2>3, ImageToIs
  <2>5. GuardOK(e, n)
    BY <1>13 DEF GuardOK
  <2>6. z.data[u] = q2.pid
    BY <1>3, <1>10, <1>18
  <2>7. q2.state \in {"RUNNABLE", "ZOMBIE"} /\ q2.pid \in 1..(NPROC + 1)
    BY <1>1, <1>10 DEF Process
  <2>8. Process(z, p2, k, q2, e)
    BY <1>10, <2>1, <2>4, <2>5, <2>6, <2>7 DEF Process
  <2> QED BY <1>14, <2>8 DEF SlotOK
<1>20. Fields(q2) = {c, t, u} /\ Fields(q) = {r, t, u}
  <2>1. 0 \notin Frames
    BY DEF Frames
  <2> QED BY ZenonT(30), <1>2, <1>3, <1>10, <1>16, <1>17, <2>1 DEF Fields
<1>21. ASSUME NEW f \in Frames, f \in R
       PROVE  /\ Held(o[f]) => o[f][3] = k
              /\ Held(p2[f]) => p2[f][3] = k /\ f \in Fields(q2)
  <2>1. CASE f = c
    BY <1>3, <1>9, <1>20, <2>1
  <2>2. CASE f = u
    BY <1>17, <1>18, <1>20, <2>2
  <2>3. CASE f = r
    BY <1>9, <1>17, <2>3 DEF Held, Free
  <2> QED BY <1>11, <1>21, <2>1, <2>2, <2>3
<1>22. \A f \in Fields(q) : f \notin R => f \in Fields(q2)
  BY <1>11, <1>20
<1>23. Stepped(w, o, h, z, p2, g, R, J)
  BY <1>3, <1>11, <1>12, <1>14, <1>15, <1>19, <1>21, <1>22 DEF Stepped
<1>24. Mem(z, p2, g)
  BY <1>23, MemStep
<1>25. Mem(x, p2, g) /\ x.ret = 0 /\ x.proc = z.proc
  <2>1. PICK b : b = 0
    OBVIOUS
  <2>2. Mem(z, p2, g) /\ b \in Int /\ x = Ret(z, b)
    BY <1>7, <1>24, <2>1
  <2> HIDE DEF Committing
  <2>3. Mem(x, p2, g) /\ x.ret = b /\ x.proc = z.proc
    BY <2>2, MemRet
  <2> QED BY <2>1, <2>3
<1>26. Pages(x.proc[k].sz) - 2 = gd
  BY <1>10, <1>15, <1>25
<1>27. Mem(x, p2, HistAt(h, k, ExecHist(Pages(x.proc[k].sz) - 2)))
  BY <1>11, <1>25, <1>26
<1> QED BY <1>25, <1>27 DEF ExecDone

(* What exec() loads.  So far the new image has n pages.                   *)
Loading(w, o, h, k, q, y, p, c, n) ==
  /\ Execing(w, o, h, k, q, y, p, c) /\ n \in Nat /\ n <= NFrames
  /\ ImageTo(y, c, q, n, MAXVA)

LEMMA LoadingPage ==
  ASSUME NEW w, NEW o, NEW h, NEW k, NEW q, NEW y, NEW p, NEW c, NEW n,
         Loading(w, o, h, k, q, y, p, c, n), NEW v \in Nat, v < n, NEW e, e = PteAt(y, c, v)
  PROVE  v \in VA /\ e.pa \in Frames /\ "U" \in e.perm /\ p[e.pa][1] = "page"
<1>1. Own(y, p) /\ Root_(p, c) /\ n < USYSCALL
  BY ExecFields, ImageToFacts DEF Loading
<1>2. v \in VA /\ ~(v >= USYSCALL) /\ v # MAXVA
  BY <1>1, Layout DEF Loading, VA
<1>3. e.pa # 0 /\ e.perm = UserPerm
  <2>1. e.perm = UserPerm \ {} /\ e.pa # 0
    BY <1>2 DEF Loading, ImageTo
  <2> QED BY <2>1
<1>4. Mine(e) /\ "U" \in e.perm
  BY <1>3 DEF Mine, UserPerm
<1>5. e.pa \in Frames /\ p[e.pa] = <<"page", BotOf(y, c, v), PX(0, v)>>
  BY <1>1, <1>2, <1>3, <1>4, MinePte
<1> QED BY <1>2, <1>4, <1>5

LEMMA LoadsPage ==
  ASSUME NEW w, NEW o, NEW h, NEW k, NEW q, NEW y, NEW p, NEW c, NEW n,
         Loading(w, o, h, k, q, y, p, c, n), NEW v \in Nat, v < n,
         NEW seg, seg.text \in DataType, NEW x, x = LoadPage(y, seg, Walkaddr(y, c, v))
  PROVE  Loading(w, o, h, k, q, x, p, c, n)
<1>1. PICK e, a : e = PteAt(y, c, v) /\ a = e.pa
  OBVIOUS
<1>2. v \in VA /\ a \in Frames /\ "U" \in e.perm /\ p[a][1] = "page"
  BY <1>1, LoadingPage
<1>3. Own(y, p)
  BY ExecFields DEF Loading
<1>4. ~(v >= MAXVA) /\ a # 0
  BY <1>2, Layout DEF VA, Frames
<1>5. Walkaddr(y, c, v) = a
  BY <1>1, <1>2, <1>4 DEF Walkaddr
<1>6. ASSUME Keep(y, p, x, p), SamePtes(p, y, x)
      PROVE  Loading(w, o, h, k, q, x, p, c, n)
  BY <1>6, ExecSame DEF Loading
<1>7. CASE y.ret < 0
  <2>1. x = y
    BY <1>7 DEF LoadPage
  <2> QED BY <2>1
<1>8. CASE ~(y.ret < 0) /\ ~seg.readable
  <2>1. x = Ret(y, -1)
    BY <1>4, <1>5, <1>8 DEF LoadPage
  <2>2. Returned(y, p, x)
    BY <1>3, <2>1, RetError
  <2> QED BY <1>6, <2>2 DEF Returned
<1>9. CASE ~(y.ret < 0) /\ ~(~seg.readable)
  <2>1. PICK d : d = seg.text
    OBVIOUS
  <2>2. x = FillData(y, a, d) /\ d \in DataType
    BY <1>4, <1>5, <1>9, <2>1 DEF LoadPage, FillData
  <2>3. p[a][1] # "loose"
    BY <1>2
  <2>4. Keep(y, p, x, p) /\ SamePtes(p, y, x)
    BY <1>2, <1>3, <2>2, <2>3, Filled
  <2> QED BY <1>6, <2>4
<1> QED BY <1>7, <1>8, <1>9

SegIn(seg, first, n) ==
  /\ seg.vaddr \in Nat /\ seg.filesz \in Nat /\ seg.text \in DataType
  /\ first \in Nat /\ seg.vaddr = PGSIZE * first
  /\ n \in Nat /\ Pages(seg.vaddr + seg.filesz) <= n

LEMMA LoadsegLoads ==
  ASSUME NEW w, NEW o, NEW h, NEW k, NEW q, NEW y, NEW p, NEW c, NEW n,
         Loading(w, o, h, k, q, y, p, c, n), NEW seg, NEW first, SegIn(seg, first, n),
         NEW x, x = Loadseg(y, c, seg)
  PROVE  Loading(w, o, h, k, q, x, p, c, n)
<1>1. /\ seg.vaddr \in Nat /\ seg.filesz \in Nat /\ seg.text \in DataType
      /\ first \in Nat /\ seg.vaddr = PGSIZE * first /\ n \in Nat /\ Pages(seg.vaddr + seg.filesz) <= n
  BY DEF SegIn
<1>2. PICK a, b : a = seg.vaddr /\ b = seg.vaddr + seg.filesz
  OBVIOUS
<1>3. Pages(a) = first /\ Pages(b) \in Nat /\ Pages(a) <= Pages(b)
  <2>1. a \in Nat /\ b \in Nat /\ a <= b
    BY <1>1, <1>2
  <2>2. Pages(a) = first
    BY <1>1, <1>2, PagesExact
  <2> QED BY <2>1, <2>2, PagesMonotone
<1>4. PICK cnt : cnt = Pages(b) - first
  OBVIOUS
<1>5. cnt \in Nat /\ first + cnt <= n
  BY <1>1, <1>2, <1>3, <1>4
<1>6. first = seg.vaddr \div PGSIZE
  <2>1. 0 \in 0..(PGSIZE - 1) /\ PGSIZE \in Nat \ {0}
    BY SizeAssumption
  <2>2. (PGSIZE * first + 0) \div PGSIZE = first
    BY <1>1, <2>1, Quotient
  <2>3. PGSIZE * first + 0 = seg.vaddr
    BY <1>1
  <2> QED BY <2>2, <2>3
<1>7. Loading(w, o, h, k, q, Ret(y, 0), p, c, n)
  <2>1. PICK z, b0 : b0 = 0 /\ z = Ret(y, b0)
    OBVIOUS
  <2>2. Own(y, p) /\ b0 \in Int
    BY <2>1, ExecFields DEF Loading
  <2>3. Returned(y, p, z)
    BY <2>1, <2>2, RetStep
  <2>4. Keep(y, p, z, p) /\ SamePtes(p, y, z)
    BY <2>3 DEF Returned
  <2>5. Loading(w, o, h, k, q, z, p, c, n)
    BY <2>4, ExecSame DEF Loading
  <2> QED BY <2>1, <2>5
<1>8. PICK f : LoadTurns(f, y, c, seg, first, cnt) /\ x = f[cnt]
  BY <1>2, <1>4, <1>5, <1>6, LoadsegRun
<1> DEFINE S == {i \in Nat : i <= cnt => Loading(w, o, h, k, q, f[i], p, c, n)}
<1>9. 0 \in S
  <2>1. f[0] = Ret(y, 0)
    BY <1>8 DEF LoadTurns
  <2> QED BY <1>7, <2>1
<1>10. ASSUME NEW i \in Nat, i \in S PROVE i + 1 \in S
  <2>1. ASSUME i + 1 <= cnt PROVE Loading(w, o, h, k, q, f[i + 1], p, c, n)
    <3>1. PICK z, v : z = f[i] /\ v = first + i
      OBVIOUS
    <3>2. Loading(w, o, h, k, q, z, p, c, n) /\ i \in 0..(cnt - 1) /\ v \in Nat /\ v < n
      BY <1>1, <1>5, <1>10, <2>1, <3>1
    <3>3. f[i + 1] = LoadPage(z, seg, Walkaddr(z, c, v))
      BY <1>8, <3>1, <3>2 DEF LoadTurns
    <3> QED BY <1>1, <3>2, <3>3, LoadsPage
  <2> QED BY <2>1
<1> HIDE DEF S
<1>11. cnt \in S
  BY <1>5, <1>9, <1>10, SetInduction
<1> QED BY <1>5, <1>8, <1>11 DEF S

LoadingTo(w, o, h, k, q, y, c, n) == \E p : Loading(w, o, h, k, q, y, p, c, n)

(* uvmalloc() for the new image.                                           *)
Enlarged(w, o, h, k, q, z, c, old, new) ==
  \/ z.ret = 0 /\ LoadingTo(w, o, h, k, q, z, c, Pages(old))
  \/ /\ z.ret # 0 /\ z.ret \in Nat /\ LoadingTo(w, o, h, k, q, z, c, Pages(z.ret))
     /\ Pages(new) <= Pages(z.ret) /\ (~(new < old) => z.ret = new)

LEMMA Enlarges ==
  ASSUME NEW w, NEW o, NEW h, NEW k, NEW q, NEW y, NEW p, NEW c, NEW n,
         Loading(w, o, h, k, q, y, p, c, n), NEW old \in Nat, n = Pages(old), NEW new \in Nat,
         NEW z, z = Uvmalloc(y, c, old, new)
  PROVE  Enlarged(w, o, h, k, q, z, c, old, new)
<1>1. Own(y, p) /\ Root_(p, c) /\ Ours(y, c, 0, n) /\ n < USYSCALL /\ n \in Nat /\ n <= NFrames
      /\ \A v \in VA : v >= n /\ v < USYSCALL => PteAt(y, c, v).pa = 0
  BY ExecFields, ImageToFacts DEF Loading
<1>2. AllocOK(y, p, c, old)
  BY <1>1, Layout DEF AllocOK
<1>3. PICK n2 : n2 = Pages(new)
  OBVIOUS
<1>4. CASE new < old
  <2>1. Returned(y, p, z) /\ z.ret = old
    BY <1>2, <1>4, Uvmallocs
  <2>2. Loading(w, o, h, k, q, z, p, c, n)
    <3>1. Keep(y, p, z, p) /\ SamePtes(p, y, z)
      BY <2>1 DEF Returned
    <3> QED BY <3>1, ExecSame DEF Loading
  <2>3. Pages(new) <= Pages(old)
    BY <1>4, PagesMonotone
  <2> QED BY <1>4, <2>1, <2>2, <2>3 DEF Enlarged, LoadingTo
<1>5. CASE ~(new < old)
  <2>1. n2 \in Nat /\ n <= n2
    BY <1>3, <1>5, PagesMonotone
  <2>2. Grows(y, p, z, c, n, n2 - n, new)
    BY <1>2, <1>3, <1>5, Uvmallocs
  <2>3. ASSUME NEW s, Keep(y, p, z, s), SamePtes(p, y, z)
        PROVE  LoadingTo(w, o, h, k, q, z, c, n)
    BY <2>3, ExecSame DEF Loading, LoadingTo
  <2>4. ASSUME n + (n2 - n) <= NFrames, NEW s, Keep(y, p, z, s), Others(p, y, z, c), Grew(y, z, c, n, n + (n2 - n))
        PROVE  LoadingTo(w, o, h, k, q, z, c, n2)
    <3>1. n + (n2 - n) = n2 /\ n2 <= NFrames /\ n2 < USYSCALL
      BY <1>1, <2>1, <2>4, Layout
    <3>2. Grew(y, z, c, n, n2)
      BY <2>4, <3>1
    <3>3. Execing(w, o, h, k, q, z, s, c)
      BY <2>4, ExecKeeps DEF Loading
    <3>4. ImageTo(y, c, q, n, MAXVA)
      BY DEF Loading
    <3>5. ASSUME NEW v \in VA
          PROVE  IF v >= USYSCALL THEN PteAt(z, c, v) = TopPte(q, v)
                 ELSE IF v < n2
                 THEN PteAt(z, c, v).pa # 0 /\ PteAt(z, c, v).perm = UserPerm \ (IF v = MAXVA THEN {"U"} ELSE {})
                 ELSE PteAt(z, c, v).pa = 0
      <4>1. v \in Nat /\ v # MAXVA /\ USYSCALL \in Nat
        BY Layout DEF VA
      <4>2. PICK e, d : e = PteAt(z, c, v) /\ d = PteAt(y, c, v)
        OBVIOUS
      <4>3. IF v >= USYSCALL THEN d = TopPte(q, v)
            ELSE IF v < n THEN d.pa # 0 /\ d.perm = UserPerm \ (IF v = MAXVA THEN {"U"} ELSE {})
            ELSE d.pa = 0
        BY <3>4, <4>2 DEF ImageTo
      <4>4. IF v \in n..(n2 - 1) THEN e.pa # 0 /\ e.perm = UserPerm ELSE e = d
        BY <3>2, <4>2 DEF Grew
      <4>5. CASE v \in n..(n2 - 1)
        <5>1. ~(v >= USYSCALL) /\ v < n2
          BY <1>1, <2>1, <3>1, <4>1, <4>5
        <5>2. e.perm = UserPerm \ {}
          BY <4>4, <4>5
        <5> QED BY <4>1, <4>2, <4>4, <4>5, <5>1, <5>2
      <4>6. CASE v \notin n..(n2 - 1)
        <5>1. e = d /\ (v < n2 <=> v < n)
          BY <1>1, <2>1, <4>1, <4>4, <4>6
        <5> QED BY <4>2, <4>3, <5>1
      <4> QED BY <4>5, <4>6
    <3>6. ImageTo(z, c, q, n2, MAXVA)
      BY <3>5 DEF ImageTo
    <3> QED BY <2>1, <3>1, <3>3, <3>6 DEF Loading, LoadingTo
  <2>5. CASE z.ret = new /\ new # 0
    <3>1. LoadingTo(w, o, h, k, q, z, c, n2)
      BY <2>2, <2>4, <2>5 DEF Grows
    <3> QED BY <1>3, <2>5, <3>1, <2>1 DEF Enlarged
  <2>6. CASE z.ret = new /\ new = 0
    <3>1. old = 0 /\ n2 = n
      BY <1>3, <1>5, <2>6
    <3>2. LoadingTo(w, o, h, k, q, z, c, n)
      BY <2>2, <2>3, <2>4, <3>1 DEF Grows
    <3> QED BY <2>6, <3>2 DEF Enlarged
  <2>7. CASE z.ret # new
    <3>1. z.ret = 0 /\ LoadingTo(w, o, h, k, q, z, c, n)
      BY <2>2, <2>3, <2>7 DEF Grows
    <3> QED BY <3>1 DEF Enlarged
  <2> QED BY <2>5, <2>6, <2>7
<1> QED BY <1>4, <1>5

(* An iteration of the loop over the program headers.                      *)
Segs == [vaddr : Nat, memsz : Nat, filesz : Nat, text : Texts, readable : BOOLEAN]

LoadedSo(w, o, h, k, q, l, c) ==
  /\ l \in [w : Machine, sz : Nat, ok : BOOLEAN]
  /\ LoadingTo(w, o, h, k, q, l.w, c, Pages(l.sz))

LEMMA LoadingMachine ==
  ASSUME NEW w, NEW o, NEW h, NEW k, NEW q, NEW y, NEW c, NEW n, LoadingTo(w, o, h, k, q, y, c, n)
  PROVE  y \in Machine
BY ExecFields DEF LoadingTo, Loading

LEMMA LoadsSegment ==
  ASSUME NEW w, NEW o, NEW h, NEW k, NEW q, NEW l, NEW c, LoadedSo(w, o, h, k, q, l, c),
         NEW seg \in Segs, NEW x, x = LoadSegment(l, c, seg)
  PROVE  LoadedSo(w, o, h, k, q, x, c)
<1>1. PICK y, old, n : y = l.w /\ old = l.sz /\ n = Pages(old)
  OBVIOUS
<1>2. l \in [w : Machine, sz : Nat, ok : BOOLEAN] /\ old \in Nat
  BY <1>1 DEF LoadedSo
<1>3. PICK p : Loading(w, o, h, k, q, y, p, c, n)
  BY <1>1 DEF LoadedSo, LoadingTo
<1>4. PICK new : new = seg.vaddr + seg.memsz
  OBVIOUS
<1>5. seg.vaddr \in Nat /\ seg.memsz \in Nat /\ seg.filesz \in Nat /\ new \in Nat /\ seg.text \in DataType
  BY <1>4 DEF Segs, DataType, Data
<1>6. ASSUME NEW a, NEW s \in Nat, NEW b \in BOOLEAN, x = [w |-> a, sz |-> s, ok |-> b],
             LoadingTo(w, o, h, k, q, a, c, Pages(s))
      PROVE  LoadedSo(w, o, h, k, q, x, c)
  <2>1. a \in Machine
    BY <1>6, LoadingMachine
  <2> QED BY <1>6, <2>1 DEF LoadedSo
<1>7. CASE ~l.ok
  BY <1>7 DEF LoadSegment
<1>8. CASE l.ok /\ seg.memsz < seg.filesz
  <2>1. x = [l EXCEPT !.ok = FALSE]
    BY <1>8 DEF LoadSegment
  <2>2. x \in [w : Machine, sz : Nat, ok : BOOLEAN] /\ x.w = l.w /\ x.sz = l.sz
    BY <1>2, <2>1
  <2> QED BY <2>2 DEF LoadedSo
<1>9. CASE l.ok /\ ~(seg.memsz < seg.filesz)
  <2>1. PICK z : z = Uvmalloc(y, c, old, new)
    OBVIOUS
  <2>2. Enlarged(w, o, h, k, q, z, c, old, new)
    BY <1>1, <1>2, <1>3, <1>5, <2>1, Enlarges
  <2>3. x = SegmentGrown(z, c, old, seg)
    BY <1>1, <1>4, <1>9, <2>1 DEF LoadSegment
  <2>4. CASE z.ret = 0
    <3>1. PICK b \in BOOLEAN : b = FALSE
      OBVIOUS
    <3>2. x = [w |-> z, sz |-> old, ok |-> b]
      BY <2>3, <2>4, <3>1 DEF SegmentGrown
    <3>3. LoadingTo(w, o, h, k, q, z, c, Pages(old))
      BY <2>2, <2>4 DEF Enlarged
    <3> QED BY <1>2, <1>6, <3>2, <3>3
  <2>5. CASE z.ret # 0
    <3>1. PICK s : s = z.ret
      OBVIOUS
    <3>2. s \in Nat /\ LoadingTo(w, o, h, k, q, z, c, Pages(s)) /\ Pages(new) <= Pages(s)
      BY <2>2, <2>5, <3>1 DEF Enlarged
    <3>3. CASE seg.vaddr % PGSIZE # 0
      <4>1. PICK b \in BOOLEAN : b = FALSE
        OBVIOUS
      <4>2. x = [w |-> z, sz |-> s, ok |-> b]
        BY <2>3, <2>5, <3>1, <3>3, <4>1 DEF SegmentGrown
      <4> QED BY <1>6, <3>2, <4>2
    <3>4. CASE seg.vaddr % PGSIZE = 0
      <4>1. PICK t, b : t = Loadseg(z, c, seg) /\ b = (t.ret = 0)
        OBVIOUS
      <4>2. x = [w |-> t, sz |-> s, ok |-> b] /\ b \in BOOLEAN
        BY <2>3, <2>5, <3>1, <3>4, <4>1 DEF SegmentGrown, SegmentLoaded
      <4>3. PICK p2 : Loading(w, o, h, k, q, z, p2, c, Pages(s))
        BY <3>2 DEF LoadingTo
      <4>4. PICK first : first = seg.vaddr \div PGSIZE
        OBVIOUS
      <4>5. first \in Nat /\ seg.vaddr = PGSIZE * first
        <5>1. seg.vaddr = PGSIZE * (seg.vaddr \div PGSIZE) + (seg.vaddr % PGSIZE) /\ seg.vaddr \div PGSIZE \in Nat
          BY <1>5, Division, SizeAssumption
        <5> QED BY <3>4, <4>4, <5>1, SizeAssumption
      <4>6. Pages(seg.vaddr + seg.filesz) <= Pages(s) /\ Pages(s) \in Nat
        <5>1. seg.vaddr + seg.filesz <= new /\ seg.vaddr + seg.filesz \in Nat
          BY <1>4, <1>5, <1>9
        <5>2. Pages(seg.vaddr + seg.filesz) <= Pages(new) /\ Pages(new) \in Nat /\ Pages(seg.vaddr + seg.filesz) \in Nat
          BY <1>5, <5>1, PagesMonotone
        <5>3. Pages(s) \in Nat
          BY <3>2, PagesMonotone
        <5> QED BY <3>2, <5>2, <5>3
      <4>7. SegIn(seg, first, Pages(s))
        BY <1>5, <4>5, <4>6 DEF SegIn
      <4>8. Loading(w, o, h, k, q, t, p2, c, Pages(s))
        BY <4>1, <4>3, <4>7, LoadsegLoads
      <4>9. LoadingTo(w, o, h, k, q, t, c, Pages(s))
        BY <4>8 DEF LoadingTo
      <4> QED BY <1>6, <3>2, <4>2, <4>9
    <3> QED BY <3>3, <3>4
  <2> QED BY <2>4, <2>5
<1> QED BY <1>7, <1>8, <1>9

LEMMA LoadsSegments ==
  ASSUME NEW w, NEW o, NEW h, NEW k, NEW q, NEW y, NEW c, LoadingTo(w, o, h, k, q, y, c, 0),
         NEW segs \in Seq(Segs), NEW x, x = LoadSegments(y, c, segs)
  PROVE  LoadedSo(w, o, h, k, q, x, c)
<1>1. PICK n : n = Len(segs)
  OBVIOUS
<1>2. n \in Nat
  BY <1>1
<1>3. PICK f : SegmentTurns(f, y, c, segs, n) /\ x = f[n]
  BY <1>1, <1>2, LoadSegmentsRun
<1> DEFINE S == {i \in Nat : i <= n => LoadedSo(w, o, h, k, q, f[i], c)}
<1>4. 0 \in S
  <2>1. f[0] = [w |-> y, sz |-> 0, ok |-> TRUE]
    BY <1>3 DEF SegmentTurns
  <2>2. y \in Machine
    BY LoadingMachine
  <2>3. f[0] \in [w : Machine, sz : Nat, ok : BOOLEAN] /\ f[0].w = y /\ f[0].sz = 0
    BY <2>1, <2>2
  <2>4. Pages(0) = 0
    <3>1. 0 \in Nat /\ PGSIZE * 0 = 0
      BY SizeAssumption
    <3>2. Pages(PGSIZE * 0) = 0
      BY <3>1, PagesExact
    <3> QED BY <3>1, <3>2
  <2>5. LoadedSo(w, o, h, k, q, f[0], c)
    BY <2>3, <2>4 DEF LoadedSo
  <2> QED BY <2>5
<1>5. ASSUME NEW i \in Nat, i \in S PROVE i + 1 \in S
  <2>1. ASSUME i + 1 <= n PROVE LoadedSo(w, o, h, k, q, f[i + 1], c)
    <3>1. PICK l, seg : l = f[i] /\ seg = segs[i + 1]
      OBVIOUS
    <3>2. LoadedSo(w, o, h, k, q, l, c) /\ i \in 0..(n - 1) /\ i + 1 \in 1..Len(segs)
      BY <1>1, <1>2, <1>5, <2>1, <3>1
    <3>3. f[i + 1] = LoadSegment(l, c, seg)
      BY <1>3, <3>1, <3>2 DEF SegmentTurns
    <3>4. seg \in Segs
      BY <3>1, <3>2
    <3> QED BY <3>2, <3>3, <3>4, LoadsSegment
  <2> QED BY <2>1
<1> HIDE DEF S
<1>6. n \in S
  BY <1>2, <1>4, <1>5, SetInduction
<1> QED BY <1>2, <1>3, <1>6 DEF S

(* The page below the stack is put out of the program's reach.             *)
Guarded(w, o, h, k, q, y, p, c, n) ==
  /\ Execing(w, o, h, k, q, y, p, c) /\ n \in Nat /\ n + 2 <= NFrames
  /\ ImageTo(y, c, q, n + 2, n)

LEMMA GuardsStack ==
  ASSUME NEW w, NEW o, NEW h, NEW k, NEW q, NEW y, NEW p, NEW c, NEW n \in Nat,
         Loading(w, o, h, k, q, y, p, c, n + 2), NEW x, x = Uvmclear(y, c, n)
  PROVE  Guarded(w, o, h, k, q, x, p, c, n)
<1>1. Own(y, p) /\ Root_(p, c) /\ n + 2 < USYSCALL /\ n + 2 <= NFrames
      /\ ImageTo(y, c, q, n + 2, MAXVA)
  <2>1. PICK n2 : n2 = n + 2
    OBVIOUS
  <2>2. Loading(w, o, h, k, q, y, p, c, n2)
    BY <2>1
  <2>3. Own(y, p) /\ Root_(p, c) /\ n2 < USYSCALL /\ n2 <= NFrames /\ ImageTo(y, c, q, n2, MAXVA)
    BY <2>2, ExecFields, ImageToFacts DEF Loading
  <2> QED BY <2>1, <2>3
<1>2. n \in VA /\ ~(n >= USYSCALL) /\ n # MAXVA
  BY <1>1, Layout DEF VA
<1>3. PICK e, d : e = PteAt(y, c, n) /\ d = WithoutU(e)
  OBVIOUS
<1>4. e.pa # 0 /\ e.perm = UserPerm
  <2>1. n < n + 2
    OBVIOUS
  <2>2. e.pa # 0 /\ e.perm = UserPerm \ {}
    BY <1>1, <1>2, <1>3, <2>1 DEF ImageTo
  <2> QED BY <2>2
<1>5. Mine(e)
  BY <1>4 DEF Mine, UserPerm
<1>6. e \in PteType
  BY <1>1, <1>2, <1>3, PteFacts
<1>7. d.pa = e.pa /\ d.perm = UserPerm \ {"U"}
  BY <1>3, <1>4, <1>6 DEF WithoutU, PteType
<1>8. LeafChanged(y, p, x, c, n, d)
  BY <1>1, <1>2, <1>3, <1>4, <1>5, Uvmclears
<1>9. Execing(w, o, h, k, q, x, p, c)
  <2>1. Keep(y, p, x, p) /\ Others(p, y, x, c)
    BY <1>8 DEF LeafChanged
  <2>2. Execing(w, o, h, k, q, y, p, c)
    BY DEF Loading
  <2> QED BY <2>1, <2>2, ExecKeeps
<1>10. ASSUME NEW v \in VA
       PROVE  IF v >= USYSCALL THEN PteAt(x, c, v) = TopPte(q, v)
              ELSE IF v < n + 2
              THEN PteAt(x, c, v).pa # 0 /\ PteAt(x, c, v).perm = UserPerm \ (IF v = n THEN {"U"} ELSE {})
              ELSE PteAt(x, c, v).pa = 0
  <2>1. v # MAXVA /\ v \in Nat
    BY Layout DEF VA
  <2>2. PteAt(x, c, v) = IF v = n THEN d ELSE PteAt(y, c, v)
    BY <1>8 DEF LeafChanged, Remap
  <2>3. CASE v = n
    <3>1. PteAt(x, c, v) = d /\ v < n + 2 /\ ~(v >= USYSCALL)
      BY <1>2, <2>2, <2>3
    <3> QED BY <1>4, <1>7, <2>3, <3>1
  <2>4. CASE v # n
    <3>1. PteAt(x, c, v) = PteAt(y, c, v)
      BY <2>2, <2>4
    <3> QED BY <1>1, <2>1, <2>4, <3>1 DEF ImageTo
  <2> QED BY <2>3, <2>4
<1>11. ImageTo(x, c, q, n + 2, n)
  BY <1>10 DEF ImageTo
<1> QED BY <1>1, <1>9, <1>11 DEF Guarded

(* The arguments are written to the stack.                                 *)
LEMMA PushesArgs ==
  ASSUME NEW w, NEW o, NEW h, NEW k, NEW q, NEW y, NEW p, NEW c, NEW n,
         Guarded(w, o, h, k, q, y, p, c, n), NEW x, x = Copyout(y, c, n + 1, Args)
  PROVE  Guarded(w, o, h, k, q, x, p, c, n)
<1>1. Execing(w, o, h, k, q, y, p, c) /\ n \in Nat /\ n + 2 <= NFrames /\ ImageTo(y, c, q, n + 2, n)
  BY DEF Guarded
<1>2. PICK n2, v : n2 = n + 2 /\ v = n + 1
  OBVIOUS
<1>3. Own(y, p) /\ Root_(p, c)
  BY <1>1, ExecFields
<1>4. n2 \in Nat /\ n2 <= NFrames /\ ImageTo(y, c, q, n2, n) /\ v \in Nat
  BY <1>1, <1>2
<1>5. Reachable(y, c) /\ n2 < USYSCALL
  BY <1>1, <1>4, ImageToFacts
<1>6. Args \in DataType
  BY DEF DataType, Data
<1>7. \/ x.ret = -1 /\ Returned(y, p, x) /\ (v \in VA => "U" \notin PteAt(y, c, v).perm)
      \/ Written(y, p, x, c, v, Args)
  BY <1>2, <1>3, <1>4, <1>5, <1>6, Copyouts
<1>8. CASE Returned(y, p, x)
  <2>1. Keep(y, p, x, p) /\ SamePtes(p, y, x)
    BY <1>8 DEF Returned
  <2>2. Execing(w, o, h, k, q, x, p, c) /\ ImageTo(x, c, q, n2, n)
    BY <1>1, <1>4, <2>1, ExecSame
  <2> QED BY <1>1, <1>2, <2>2 DEF Guarded
<1>9. CASE Written(y, p, x, c, v, Args)
  <2>1. PICK e, a : e = PteAt(y, c, v) /\ a = e.pa
    OBVIOUS
  <2>2. v \in VA /\ ~(v >= USYSCALL) /\ v < n2 /\ v # n
    BY <1>1, <1>2, <1>5, Layout DEF VA
  <2>3. a # 0 /\ e.perm = UserPerm
    <3>1. e.pa # 0 /\ e.perm = UserPerm \ {}
      BY <1>4, <2>1, <2>2 DEF ImageTo
    <3> QED BY <2>1, <3>1
  <2>4. Mine(e)
    BY <2>3 DEF Mine, UserPerm
  <2>5. a \in Frames /\ p[a] = <<"page", BotOf(y, c, v), PX(0, v)>>
    BY Z3T(30), <1>3, <2>1, <2>2, <2>3, <2>4, MinePte
  <2>6. a \in Frames /\ p[a][1] # "loose"
    BY <2>5
  <2>7. Touch(y, p, x, p, {})
    BY <1>9, <2>1, <2>6, TouchWritten
  <2>8. Touch(y, p, x, p, {c})
    BY <2>7, TouchMore
  <2>9. x.proc = y.proc /\ SamePtes(p, y, x)
    BY <1>9 DEF Written
  <2>10. Execing(w, o, h, k, q, x, p, c)
    BY <1>1, <2>8, <2>9, ExecGoesOn
  <2>11. ImageTo(x, c, q, n2, n)
    BY <1>3, <1>4, <2>9 DEF SamePtes, ImageTo
  <2> QED BY <1>1, <1>2, <2>10, <2>11 DEF Guarded
<1> QED BY <1>7, <1>8, <1>9

ExecEnds(h, k, x) == ExecFailed(h, x) \/ ExecDone(h, k, x)

(* exec() after the segments: sz is rounded up to a page.                  *)
LEMMA ExecStacks ==
  ASSUME NEW w, NEW o, NEW h, NEW k, NEW q, NEW y, NEW p, NEW c, NEW n,
         Loading(w, o, h, k, q, y, p, c, n), NEW s, s = PGSIZE * n,
         NEW z, z = Uvmalloc(y, c, s, s + 2 * PGSIZE), NEW prog, NEW x, x = ExecStack(z, k, prog, c, s)
  PROVE  ExecEnds(h, k, x)
<1>1. n \in Nat /\ n <= NFrames
  BY DEF Loading
<1>2. PICK top, n2 : top = s + 2 * PGSIZE /\ n2 = n + 2
  OBVIOUS
<1>3. s \in Nat /\ Pages(s) = n
  BY <1>1, PagesExact
<1>4. top \in Nat /\ Pages(top) = n2 /\ n2 \in Nat
  <2>1. top = PGSIZE * n2
    <3>1. PGSIZE * (n + 2) = PGSIZE * n + PGSIZE * 2
      BY <1>1, Products, SizeAssumption
    <3> QED BY <1>2, <3>1, SizeAssumption
  <2>2. n2 \in Nat
    BY <1>1, <1>2
  <2> QED BY <2>1, <2>2, PagesExact
<1>5. Enlarged(w, o, h, k, q, z, c, s, top)
  BY <1>2, <1>3, <1>4, Enlarges
<1>6. CASE z.ret = 0
  <2>1. x = ExecBad(z, c, s)
    BY <1>6 DEF ExecStack
  <2>2. PICK p2 : Loading(w, o, h, k, q, z, p2, c, n)
    BY <1>3, <1>5, <1>6 DEF Enlarged, LoadingTo
  <2>3. ExecFailed(h, x)
    BY <1>1, <1>3, <2>1, <2>2, ExecBads DEF Loading
  <2> QED BY <2>3 DEF ExecEnds
<1>7. CASE z.ret # 0
  <2>1. z.ret = top
    <3>1. ~(top < s)
      BY <1>2, <1>3, SizeAssumption
    <3> QED BY <1>5, <1>7, <3>1 DEF Enlarged
  <2>2. PICK p2 : Loading(w, o, h, k, q, z, p2, c, n2)
    BY <1>4, <1>5, <1>7, <2>1 DEF Enlarged, LoadingTo
  <2>3. PICK a : a = Uvmclear(z, c, n)
    OBVIOUS
  <2>4. Guarded(w, o, h, k, q, a, p2, c, n)
    BY <1>1, <1>2, <2>2, <2>3, GuardsStack
  <2>5. CASE prog.args > PGSIZE
    <3>1. x = ExecBad(a, c, top)
      BY <1>2, <1>3, <1>7, <2>3, <2>5 DEF ExecStack
    <3>2. Execing(w, o, h, k, q, a, p2, c) /\ ImageTo(a, c, q, n2, n) /\ n2 <= NFrames
      BY <1>2, <2>4 DEF Guarded
    <3>3. ExecFailed(h, x)
      BY <1>4, <3>1, <3>2, ExecBads
    <3> QED BY <3>3 DEF ExecEnds
  <2>6. CASE ~(prog.args > PGSIZE)
    <3>1. PICK b : b = Copyout(a, c, n + 1, Args)
      OBVIOUS
    <3>2. Guarded(w, o, h, k, q, b, p2, c, n)
      BY <2>4, <3>1, PushesArgs
    <3>3. x = ExecCommit(b, k, c, top)
      BY <1>2, <1>3, <1>7, <2>3, <2>6, <3>1 DEF ExecStack
    <3>4. n2 <= NFrames /\ n = n2 - 2
      BY <1>1, <1>2, <3>2 DEF Guarded
    <3>5. top \in 0..(NFrames * PGSIZE)
      BY <1>4, <3>4, SizeBound
    <3>6. Committing(w, o, h, k, q, b, p2, c, n2, n, top)
      BY <1>1, <1>2, <1>4, <3>2, <3>4, <3>5 DEF Committing, Guarded
    <3>7. ExecDone(h, k, x)
      BY <3>3, <3>6, ExecCommits
    <3> QED BY <3>7 DEF ExecEnds
  <2> QED BY <2>5, <2>6
<1> QED BY <1>6, <1>7

(* exec() after proc_pagetable().                                          *)
LEMMA ExecLoadeds ==
  ASSUME NEW w, NEW o, NEW h, NEW k, NEW q, NEW l, NEW c, LoadedSo(w, o, h, k, q, l, c),
         NEW prog, NEW x, x = ExecLoaded(l, k, prog, c)
  PROVE  ExecEnds(h, k, x)
<1>1. PICK y, n, s : y = l.w /\ n = Pages(l.sz) /\ s = PGSIZE * n
  OBVIOUS
<1>2. PICK p : Loading(w, o, h, k, q, y, p, c, n)
  BY <1>1 DEF LoadedSo, LoadingTo
<1>3. CASE ~l.ok
  <2>1. x = ExecBad(y, c, l.sz)
    BY <1>1, <1>3 DEF ExecLoaded
  <2>2. ExecFailed(h, x)
    BY <1>1, <1>2, <2>1, ExecBads DEF Loading
  <2> QED BY <2>2 DEF ExecEnds
<1>4. CASE l.ok
  <2>1. PICK z : z = Uvmalloc(y, c, s, s + 2 * PGSIZE)
    OBVIOUS
  <2>2. x = ExecStack(z, k, prog, c, s)
    BY <1>1, <1>4, <2>1, Zenon DEF ExecLoaded
  <2> QED BY <1>1, <1>2, <2>1, <2>2, ExecStacks
<1> QED BY <1>3, <1>4

LEMMA Execs ==
  ASSUME NEW w, NEW o, NEW h, Mem(w, o, h), NEW k \in Procs, w.proc[k].state # "UNUSED",
         NEW prog, prog.segs \in Seq(Segs), NEW x, x = Exec(w, k, prog)
  PROVE  ExecEnds(h, k, x)
<1>1. Touch(w, o, w, o, {})
  BY TouchRefl DEF Mem
<1>2. CASE ~prog.header
  <2>1. x = Ret(w, -1)
    BY <1>2 DEF Exec
  <2>2. Touch(w, o, x, o, {}) /\ x.ret = -1 /\ x.proc = w.proc
    BY <1>1, <2>1, TouchError
  <2>3. Mem(x, o, h)
    BY <2>2, MemSame
  <2> QED BY <2>2, <2>3 DEF ExecEnds, ExecFailed
<1>3. CASE ~(~prog.header)
  <2>1. PICK q, z : q = w.proc[k] /\ z = ProcPagetable(w, k)
    OBVIOUS
  <2>2. x = ExecInto(z, k, prog)
    BY <1>3, <2>1 DEF Exec
  <2>3. Own(w, o) /\ Process(w, o, k, q, h[k])
    BY <2>1, InUseIs DEF Mem
  <2>4. CanMake(w, o, q)
    BY <2>3 DEF CanMake, Process, Owns
  <2>5. PICK p : Made(w, o, z, p, q)
    BY <2>1, <2>4, ProcPagetableMade
  <2>6. CASE z.ret = 0
    <3>1. Touch(w, o, z, p, {}) /\ z.proc = w.proc
      BY <2>5, <2>6 DEF Made
    <3>2. x = Ret(z, -1)
      BY <2>2, <2>6 DEF ExecInto
    <3>3. Touch(w, o, x, p, {}) /\ x.ret = -1 /\ x.proc = z.proc
      BY <3>1, <3>2, TouchError
    <3>4. Mem(x, p, h)
      BY <3>1, <3>3, MemSame
    <3> QED BY <3>3, <3>4 DEF ExecEnds, ExecFailed
  <2>7. CASE z.ret # 0
    <3>1. PICK c, l : c = z.ret /\ l = LoadSegments(z, c, prog.segs)
      OBVIOUS
    <3>2. /\ z.proc = w.proc /\ c \in Frames /\ ~Held(o[c]) /\ p[c] = <<"root", 0, 0>>
          /\ Touch(w, o, z, p, {c, q.usyscall}) /\ p[q.usyscall] = o[q.usyscall]
          /\ z.data[q.usyscall] = q.pid /\ NewImage(z, c, q, 0)
      BY <2>5, <2>7, <3>1 DEF Made
    <3>3. Execing(w, o, h, k, q, z, p, c)
      BY <2>1, <3>2 DEF Execing
    <3>4. ImageTo(z, c, q, 0, MAXVA)
      <4>1. ASSUME NEW v \in VA PROVE v \in Nat /\ ~(v < 0)
        BY Layout
      <4> QED BY <3>2, <4>1 DEF NewImage, ImageTo
    <3>5. LoadingTo(w, o, h, k, q, z, c, 0)
      <4>1. 0 \in Nat /\ 0 <= NFrames
        BY SizeAssumption
      <4> QED BY <3>3, <3>4, <4>1 DEF LoadingTo, Loading
    <3>6. LoadedSo(w, o, h, k, q, l, c)
      BY <3>1, <3>5, LoadsSegments
    <3>7. x = ExecLoaded(l, k, prog, c)
      BY <2>2, <2>7, <3>1 DEF ExecInto
    <3> QED BY <3>6, <3>7, ExecLoadeds
  <2> QED BY <2>6, <2>7
<1> QED BY <1>2, <1>3

-----------------------------------------------------------------------------
(* The specification: the inductive invariant, and that every action keeps *)
(* it.                                                                     *)
Kept(w, h) == \E o : Mem(w, o, h)

IInv == Kept(m, hist) /\ m.left = 0 /\ m.ret = 0 /\ budget \in 0..MaxUser

(* A call starts with some of the pages left to it.                        *)
LEMMA Called ==
  ASSUME NEW o, Mem(m, o, hist), NEW left \in Nat, NEW w, w = Call(left)
  PROVE  Mem(w, o, hist) /\ w.proc = m.proc
<1>1. m \in Machine /\ Own(m, o)
  BY DEF Mem, Own
<1>2. w \in Machine /\ w.pt = m.pt /\ w.data = m.data /\ w.free = m.free /\ w.proc = m.proc
  BY <1>1 DEF Call, Machine
<1>3. Touch(m, o, w, o, {})
  BY <1>1, <1>2, TouchRefit
<1> QED BY <1>2, <1>3, MemSame

LEMMA DoneKept ==
  ASSUME NEW w, NEW h, Kept(w, h), NEW x, x = Done(w)
  PROVE  Kept(x, h) /\ x.left = 0 /\ x.ret = 0
BY DoneMem DEF Kept

LEMMA ForkKeeps ==
  ASSUME IInv, NEW k \in Procs, m.proc[k].state # "UNUSED", NEW left \in Nat, Fork(k, left)
  PROVE  IInv'
<1>1. PICK o : Mem(m, o, hist)
  BY DEF IInv, Kept
<1>2. PICK w : w = Call(left)
  OBVIOUS
<1>3. Mem(w, o, hist) /\ w.proc = m.proc
  BY <1>1, <1>2, Called
<1>4. PICK r : r = SysFork(w, k)
  OBVIOUS
<1>5. /\ m' = Done(r) /\ budget' = budget
      /\ hist' = IF r.ret < 0 THEN hist ELSE HistAt(hist, r.ret, ForkHist(hist[k]))
  BY <1>2, <1>4 DEF Fork, HistAt, ForkHist
<1>6. Forked(w, o, hist, k, r)
  BY <1>3, <1>4, SysForks
<1>7. Kept(r, hist')
  BY <1>5, <1>6 DEF Forked, Kept
<1>8. Kept(m', hist') /\ m'.left = 0 /\ m'.ret = 0
  BY <1>5, <1>7, DoneKept
<1> QED BY <1>5, <1>8 DEF IInv, Kept

LEMMA ExitKeeps ==
  ASSUME IInv, NEW k \in Procs, m.proc[k].state # "UNUSED", Exit(k)
  PROVE  IInv'
<1>1. PICK o : Mem(m, o, hist)
  BY DEF IInv, Kept
<1>2. PICK x : x = SysExit(m, k)
  OBVIOUS
<1>3. Mem(x, o, hist) /\ x.ret = m.ret /\ x.left = m.left
  BY <1>1, <1>2, SysExits
<1>4. m' = x /\ hist' = hist /\ budget' = budget
  BY <1>2 DEF Exit
<1> QED BY <1>3, <1>4 DEF IInv, Kept

LEMMA WaitKeeps ==
  ASSUME IInv, NEW k \in Procs, m.proc[k].state = "RUNNABLE", NEW addr \in Nat, Wait(k, addr)
  PROVE  IInv'
<1>1. PICK o : Mem(m, o, hist)
  BY DEF IInv, Kept
<1>2. PICK r : r = SysWait(m, k, addr)
  OBVIOUS
<1>3. /\ Zombies(m, k) # {} /\ m' = Done(r) /\ budget' = budget
      /\ hist' = IF r.ret < 0 THEN hist ELSE WaitHist(hist, r.ret, k, addr)
  BY <1>2 DEF Wait, WaitHist
<1>4. Waited(m, o, hist, k, addr, r)
  BY <1>1, <1>2, <1>3, SysWaits
<1>5. Kept(r, hist')
  BY <1>3, <1>4 DEF Waited, Kept
<1>6. Kept(m', hist') /\ m'.left = 0 /\ m'.ret = 0
  BY <1>3, <1>5, DoneKept
<1> QED BY <1>3, <1>6 DEF IInv, Kept

LEMMA ExecKept ==
  ASSUME IInv, NEW k \in Procs, m.proc[k].state # "UNUSED", NEW prog, prog.segs \in Seq(Segs),
         NEW left \in Nat, ExecOf(k, prog, left)
  PROVE  IInv'
<1>1. PICK o : Mem(m, o, hist)
  BY DEF IInv, Kept
<1>2. PICK w : w = Call(left)
  OBVIOUS
<1>3. Mem(w, o, hist) /\ w.proc = m.proc
  BY <1>1, <1>2, Called
<1>4. PICK r : r = Exec(w, k, prog)
  OBVIOUS
<1>5. /\ m' = Done(r) /\ budget' = budget
      /\ hist' = IF r.ret < 0 THEN hist ELSE HistAt(hist, k, ExecHist(Pages(r.proc[k].sz) - 2))
  BY <1>2, <1>4 DEF ExecOf, HistAt, ExecHist
<1>6. ExecEnds(hist, k, r)
  BY <1>3, <1>4, Execs
<1>7. Kept(r, hist')
  BY <1>5, <1>6 DEF ExecEnds, ExecFailed, ExecDone, Kept
<1>8. Kept(m', hist') /\ m'.left = 0 /\ m'.ret = 0
  BY <1>5, <1>7, DoneKept
<1> QED BY <1>5, <1>8 DEF IInv, Kept

LEMMA Spends_ ==
  ASSUME budget \in 0..MaxUser, Spend
  PROVE  budget' \in 0..MaxUser
BY UserAssumption DEF Spend

LEMMA SbrkKeeps ==
  ASSUME IInv, NEW k \in Procs, m.proc[k].state # "UNUSED", NEW a \in Int, NEW left \in Nat,
         Sbrk(k, a, left)
  PROVE  IInv'
<1>1. PICK o : Mem(m, o, hist)
  BY DEF IInv, Kept
<1>2. PICK w : w = Call(left)
  OBVIOUS
<1>3. Mem(w, o, hist) /\ w.proc = m.proc
  BY <1>1, <1>2, Called
<1>4. PICK r : r = SysSbrk(w, k, a)
  OBVIOUS
<1>5. PICK p : Mem(r, p, HistAt(hist, k, SbrkHist(hist[k], Pages(r.proc[k].sz))))
  BY <1>3, <1>4, SysSbrks
<1>6. m' = Done(r) /\ Spend
  BY <1>2, <1>4 DEF Sbrk
<1>7. m'.proc = r.proc
  <2>1. r \in Machine
    BY <1>5 DEF Mem, Own
  <2> QED BY <1>6, <2>1, DoneFields
<1>8. hist' = HistAt(hist, k, SbrkHist(hist[k], Pages(m'.proc[k].sz)))
  BY DEF Sbrk, HistAt, SbrkHist
<1>9. Kept(r, hist')
  BY <1>5, <1>7, <1>8 DEF Kept
<1>10. Kept(m', hist') /\ m'.left = 0 /\ m'.ret = 0
  BY <1>6, <1>9, DoneKept
<1>11. budget' \in 0..MaxUser
  BY <1>6, Spends_ DEF IInv
<1> QED BY <1>10, <1>11 DEF IInv, Kept

LEMMA PgaccessKeeps ==
  ASSUME IInv, NEW k \in Procs, m.proc[k].state # "UNUSED", NEW base \in Nat, NEW len \in Int,
         NEW addr \in Nat, Pgaccess(k, base, len, addr)
  PROVE  IInv'
<1>1. PICK o : Mem(m, o, hist)
  BY DEF IInv, Kept
<1>2. PICK r, s : r = m.proc[k].pagetable /\ s = Scan(m, r, base, len)
  OBVIOUS
<1>3. PICK c : c = IF s.ok THEN Copyout(s.w, r, addr, Out) ELSE Ret(s.w, -1)
  OBVIOUS
<1>4. /\ m' = Done(c) /\ Spend
      /\ hist' = HistAt(hist, k, PgHist(hist[k], c.ret, s.mask, addr))
  BY <1>2, <1>3 DEF Pgaccess, Root, HistAt, PgHist, ToldHist, LostHist
<1>5. Kept(c, hist')
  BY <1>1, <1>2, <1>3, <1>4, Pgaccesses DEF Kept
<1>6. Kept(m', hist') /\ m'.left = 0 /\ m'.ret = 0
  BY <1>4, <1>5, DoneKept
<1>7. budget' \in 0..MaxUser
  BY <1>4, Spends_ DEF IInv
<1> QED BY <1>6, <1>7 DEF IInv, Kept

LEMMA LoadKeeps ==
  ASSUME IInv, NEW k \in Procs, m.proc[k].state # "UNUSED", NEW v \in VA, Load(k, v)
  PROVE  IInv'
<1>1. PICK o : Mem(m, o, hist)
  BY DEF IInv, Kept
<1>2. PICK r, e : r = m.proc[k].pagetable /\ e = PteAt(m, r, v)
  OBVIOUS
<1>3. PICK x : x = SetPteAt(m, r, v, WithA(e))
  OBVIOUS
<1>4. /\ m' = x /\ Spend /\ "U" \in e.perm
      /\ hist' = HistAt(hist, k, UseHist(hist[k], v))
  BY <1>2, <1>3 DEF Load, Uses, Used, Root, WithA, HistAt, UseHist
<1>5. Mem(x, o, hist') /\ x.ret = m.ret /\ x.left = m.left
  BY <1>1, <1>2, <1>3, <1>4, Loads
<1>6. budget' \in 0..MaxUser
  BY <1>4, Spends_ DEF IInv
<1> QED BY <1>4, <1>5, <1>6 DEF IInv, Kept

LEMMA StoreKeeps ==
  ASSUME IInv, NEW k \in Procs, m.proc[k].state # "UNUSED", NEW v \in VA, Store(k, v)
  PROVE  IInv'
<1>1. PICK o : Mem(m, o, hist)
  BY DEF IInv, Kept
<1>2. PICK r, e : r = m.proc[k].pagetable /\ e = PteAt(m, r, v)
  OBVIOUS
<1>3. PICK y, x : y = SetPteAt(m, r, v, WithA(e)) /\ x = FillData(SetPteAt(m, r, v, WithA(e)), e.pa, Stored)
  OBVIOUS
<1>4. /\ m' = x /\ Spend /\ "U" \in e.perm /\ "W" \in e.perm
      /\ hist' = HistAt(hist, k, UseHist(hist[k], v))
  BY <1>2, <1>3 DEF Store, Uses, Used, Root, WithA, HistAt, UseHist, FillData
<1>5. Mem(x, o, hist') /\ x.ret = m.ret /\ x.left = m.left
  BY <1>1, <1>2, <1>3, <1>4, Stores
<1>6. budget' \in 0..MaxUser
  BY <1>4, Spends_ DEF IInv
<1> QED BY <1>4, <1>5, <1>6 DEF IInv, Kept

LEMMA Indexed ==
  ASSUME NEW a, NEW b \in 0..a
  PROVE  b \in Nat
OBVIOUS

(* What the constants are.                                                 *)
LEMMA Inputs ==
  /\ OutPages \subseteq Nat /\ BasePages \subseteq Nat /\ PageCounts \subseteq Int
  /\ SbrkArgs \subseteq Int /\ LoadPages \subseteq VA /\ StorePages \subseteq VA /\ MAXVA \in Nat
  /\ \A prog \in Programs : prog.segs \in Seq(Segs)
BY UserAssumption, Layout DEF VA, Segs

LEMMA InitInv == Init => IInv
<1> SUFFICES ASSUME Init PROVE IInv
  OBVIOUS
<1>1. PICK x : x = Userinit(EmptyMachine)
  OBVIOUS
<1>2. m = Done(x) /\ hist = [k \in Procs |-> NewHist] /\ budget = MaxUser
  BY <1>1 DEF Init
<1>3. Kept(x, hist)
  BY <1>1, <1>2, FirstProcess DEF Kept
<1>4. Kept(m, hist) /\ m.left = 0 /\ m.ret = 0
  BY <1>2, <1>3, DoneKept
<1>5. budget \in 0..MaxUser
  BY <1>2, UserAssumption
<1> QED BY <1>4, <1>5 DEF IInv

LEMMA NextInv == IInv /\ [Next]_vars => IInv'
<1> SUFFICES ASSUME IInv, [Next]_vars PROVE IInv'
  OBVIOUS
<1>1. CASE UNCHANGED vars
  <2>1. m' = m /\ hist' = hist /\ budget' = budget
    BY <1>1 DEF vars
  <2> QED BY <2>1 DEF IInv, Kept
<1>2. CASE Next
  <2>1. PICK p \in Procs :
          /\ Live(m.proc[p])
          /\ \/ \E left \in Shortages(SysFork(Call(NFrames), p)) : Fork(p, left)
             \/ Exit(p)
             \/ \E addr \in OutPages \cup {MAXVA} : Wait(p, addr)
             \/ /\ CallsExec(p)
                /\ \E prog \in Programs :
                  \E left \in Shortages(Exec(Call(NFrames), p, prog)) : ExecOf(p, prog, left)
             \/ \E n \in SbrkArgs :
                  \E left \in Shortages(SysSbrk(Call(NFrames), p, n)) : Sbrk(p, n, left)
             \/ \E base \in BasePages, len \in PageCounts, addr \in OutPages :
                  Pgaccess(p, base, len, addr)
             \/ \E v \in LoadPages : Load(p, v)
             \/ \E v \in StorePages : Store(p, v)
    BY <1>2 DEF Next
  <2>2. m.proc[p].state = "RUNNABLE" /\ m.proc[p].state # "UNUSED"
    BY <2>1 DEF Live
  <2>3. ASSUME NEW r, NEW left \in Shortages(r) PROVE left \in Nat
    BY Indexed DEF Shortages
  <2>4. CASE \E left \in Shortages(SysFork(Call(NFrames), p)) : Fork(p, left)
    <3>1. PICK left \in Nat : Fork(p, left)
      BY <2>3, <2>4
    <3> QED BY <2>2, <3>1, ForkKeeps
  <2>5. CASE Exit(p)
    BY <2>2, <2>5, ExitKeeps
  <2>6. CASE \E addr \in OutPages \cup {MAXVA} : Wait(p, addr)
    <3>1. PICK addr \in Nat : Wait(p, addr)
      BY <2>6, Inputs
    <3> QED BY <2>2, <3>1, WaitKeeps
  <2>7. CASE /\ CallsExec(p)
             /\ \E prog \in Programs :
               \E left \in Shortages(Exec(Call(NFrames), p, prog)) : ExecOf(p, prog, left)
    <3>1. PICK prog \in Programs : \E left \in Shortages(Exec(Call(NFrames), p, prog)) : ExecOf(p, prog, left)
      BY <2>7
    <3>2. PICK left \in Nat : ExecOf(p, prog, left)
      BY <2>3, <3>1
    <3>3. prog.segs \in Seq(Segs)
      BY Inputs
    <3> QED BY <2>2, <3>2, <3>3, ExecKept
  <2>8. CASE \E n \in SbrkArgs :
               \E left \in Shortages(SysSbrk(Call(NFrames), p, n)) : Sbrk(p, n, left)
    <3>1. PICK n \in SbrkArgs : \E left \in Shortages(SysSbrk(Call(NFrames), p, n)) : Sbrk(p, n, left)
      BY <2>8
    <3>2. PICK left \in Nat : Sbrk(p, n, left)
      BY <2>3, <3>1
    <3>3. n \in Int
      BY Inputs
    <3> QED BY <2>2, <3>2, <3>3, SbrkKeeps
  <2>9. CASE \E base \in BasePages, len \in PageCounts, addr \in OutPages : Pgaccess(p, base, len, addr)
    <3>1. PICK base \in Nat, len \in Int, addr \in Nat : Pgaccess(p, base, len, addr)
      BY <2>9, Inputs
    <3> QED BY <2>2, <3>1, PgaccessKeeps
  <2>10. CASE \E v \in LoadPages : Load(p, v)
    <3>1. PICK v \in VA : Load(p, v)
      BY <2>10, Inputs
    <3> QED BY <2>2, <3>1, LoadKeeps
  <2>11. CASE \E v \in StorePages : Store(p, v)
    <3>1. PICK v \in VA : Store(p, v)
      BY <2>11, Inputs
    <3> QED BY <2>2, <3>1, StoreKeeps
  <2> QED BY <2>1, <2>4, <2>5, <2>6, <2>7, <2>8, <2>9, <2>10, <2>11
<1> QED BY <1>1, <1>2

(* Between any two system calls, every page of the machine has one place,  *)
(* and every slot of the process table is unused or has the pages, and the *)
(* image, that a process has.                                              *)
THEOREM MemoryKept == Spec => []IInv
BY InitInv, NextInv, PTL DEF Spec

(* The functions of vm.c, proc.c and exec.c never reach one of their        *)
(* panics, and no page is freed twice.                                      *)
THEOREM PanicFree == Spec => []NoPanic
<1>1. IInv => NoPanic
  <2> SUFFICES ASSUME IInv PROVE m.panic = "no"
    BY DEF NoPanic
  <2>1. PICK o : Mem(m, o, hist)
    BY DEF IInv, Kept
  <2>2. m \in Machine
    BY <2>1 DEF Mem, Own
  <2> QED BY <2>2, MachineFields
<1> QED BY <1>1, MemoryKept, PTL

LEMMA Pte_ ==
  ASSUME IInv, NEW p \in Procs, InUse(p), NEW v \in VA, NEW q, q = m.proc[p]
  PROVE  PteIs(PteAt(m, Root(p), v), v, q, Pages(q.sz), hist[p])
<1>1. PICK o : Mem(m, o, hist)
  BY DEF IInv, Kept
<1>2. Process(m, o, p, q, hist[p])
  BY <1>1, InUseIs DEF InUse
<1> QED BY <1>2 DEF Process, Image_, Root

(* Every process in use has the page table that its size and its exec say:  *)
(* the pages below p->sz and no others, the guard page out of its reach, and*)
(* the three pages at the top.                                              *)
THEOREM Tables == Spec => []TableShape
<1>1. IInv => TableShape
  <2> SUFFICES ASSUME IInv, NEW p \in Procs, InUse(p), NEW v \in 0..(MAXVA - 1)
               PROVE  LET q == m.proc[p]
                          pte == PteAt(m, Root(p), v)
                          Maps(pa, perm) == pte.pa = pa /\ pte.perm \ {"A"} = perm
                      IN CASE v = TRAMPOLINE -> Maps(TrampolinePa, {"R", "X"})
                           [] v = TRAPFRAME -> Maps(q.trapframe, {"R", "W"})
                           [] v = USYSCALL -> Maps(q.usyscall, {"R", "U"})
                           [] v < Pages(q.sz) ->
                                pte.perm \ {"A"} = UserPerm \ (IF v = hist[p].guard THEN {"U"} ELSE {})
                           [] OTHER -> ~Valid(pte)
    BY DEF TableShape
  <2>1. PICK q, e, n, h : q = m.proc[p] /\ e = PteAt(m, Root(p), v) /\ n = Pages(q.sz) /\ h = hist[p]
    OBVIOUS
  <2>2. PteIs(e, v, q, n, h)
    BY <2>1, Pte_ DEF VA
  <2>3. n \in Nat /\ n < USYSCALL
    <3>1. PICK o : Mem(m, o, hist)
      BY DEF IInv, Kept
    <3>2. Process(m, o, p, q, h) /\ q \in ProcType /\ Own(m, o)
      BY <2>1, <3>1, InUseIs DEF InUse, Mem
    <3> QED BY <2>1, <3>2, ImageFacts
  <2>4. v \in Nat /\ USYSCALL \in Nat /\ TRAPFRAME = USYSCALL + 1 /\ TRAMPOLINE = USYSCALL + 2
        /\ v < USYSCALL + 3
    BY Layout
  <2>5. CASE v = TRAMPOLINE
    <3>1. e.pa = TrampolinePa /\ e.perm \ {"A"} = {"R", "X"}
          /\ v # TRAPFRAME /\ v # USYSCALL /\ ~(v < n)
      BY <2>3, <2>2, <2>4, <2>5 DEF PteIs, TopPte
    <3> QED BY <2>1, <2>4, <2>5, <3>1
  <2>6. CASE v = TRAPFRAME
    <3>1. e.pa = q.trapframe /\ e.perm \ {"A"} = {"R", "W"}
          /\ v # TRAMPOLINE /\ v # USYSCALL /\ ~(v < n)
      BY <2>3, <2>2, <2>4, <2>6 DEF PteIs, TopPte
    <3> QED BY <2>1, <2>4, <2>6, <3>1
  <2>7. CASE v = USYSCALL
    <3>1. e.pa = q.usyscall /\ e.perm \ {"A"} = {"R", "U"}
          /\ v # TRAMPOLINE /\ v # TRAPFRAME /\ ~(v < n)
      BY <2>3, <2>2, <2>4, <2>7 DEF PteIs, TopPte
    <3> QED BY <2>1, <2>4, <2>7, <3>1
  <2>8. CASE v < USYSCALL /\ v < n
    <3>1. e.perm \ {"A"} = UserPerm \ (IF v = h.guard THEN {"U"} ELSE {})
          /\ v # TRAMPOLINE /\ v # TRAPFRAME /\ v # USYSCALL
      BY <2>2, <2>4, <2>8 DEF PteIs
    <3> QED BY <2>1, <2>4, <2>8, <3>1
  <2>9. CASE v < USYSCALL /\ ~(v < n)
    <3>1. e.pa = 0 /\ v # TRAMPOLINE /\ v # TRAPFRAME /\ v # USYSCALL
      BY <2>2, <2>4, <2>9 DEF PteIs
    <3> QED BY <2>1, <2>4, <2>9, <3>1 DEF Valid
  <2> QED BY <2>4, <2>5, <2>6, <2>7, <2>8, <2>9
<1> QED BY <1>1, MemoryKept, PTL

(* ugetpid() is right, for every process that has not had the kernel write *)
(* to the page itself.                                                      *)
THEOREM UsyscallPids == Spec => []UsyscallHoldsPid
<1>1. IInv => UsyscallHoldsPid
  <2> SUFFICES ASSUME IInv, NEW p \in Procs, InUse(p), ~hist[p].scribbled
               PROVE  m.data[m.proc[p].usyscall] = m.proc[p].pid
    BY DEF UsyscallHoldsPid
  <2>1. PICK o : Mem(m, o, hist)
    BY DEF IInv, Kept
  <2>2. Process(m, o, p, m.proc[p], hist[p])
    BY <2>1, InUseIs DEF InUse
  <2> QED BY <2>2 DEF Process
<1> QED BY <1>1, MemoryKept, PTL

(* PTE_A says which pages the program has used since pgaccess() reported    *)
(* them, or its parent had when it forked, but for those that a failing     *)
(* pgaccess() has looked at.                                                *)
THEOREM Accesses == Spec => []AccessExact
<1>1. IInv => AccessExact
  <2> SUFFICES ASSUME IInv, NEW p \in Procs, InUse(p), NEW v \in 0..(MAXVA - 1)
               PROVE  "A" \in PteAt(m, Root(p), v).perm <=> v \in Marked(hist[p])
    BY DEF AccessExact
  <2>1. PICK q : q = m.proc[p]
    OBVIOUS
  <2>2. PteIs(PteAt(m, Root(p), v), v, q, Pages(q.sz), hist[p])
    BY <2>1, Pte_ DEF VA
  <2> QED BY <2>2 DEF PteIs
<1> QED BY <1>1, MemoryKept, PTL

-----------------------------------------------------------------------------
(* Every page has one owner: what refers to a page is what its place says. *)
Refers(p, r) == r \in RefsOf(p)

LEMMA AllReferences ==
  ASSUME NEW r PROVE r \in References <=> \E p \in Procs : InUse(p) /\ Refers(p, r)
BY DEF References, Refers

LEMMA RefersIs ==
  ASSUME NEW p, NEW r
  PROVE  Refers(p, r) <=>
           \/ r = <<"pagetable", p, 0, Root(p)>>
           \/ r = <<"trapframe", p, 0, m.proc[p].trapframe>>
           \/ r = <<"usyscall", p, 0, m.proc[p].usyscall>>
           \/ \E t \in {Root(p)} \cup Middle(p), i \in Entries : r = <<"table", t, i, m.pt[t][i].pa>>
           \/ \E v \in 0..(USYSCALL - 1) : r = <<"page", p, v, PteAt(m, Root(p), v).pa>>
BY DEF Refers, RefsOf

LEMMA Middles ==
  ASSUME NEW p, NEW t
  PROVE  t \in Middle(p) <=> t # 0 /\ \E i \in Entries : t = m.pt[Root(p)][i].pa
BY DEF Middle, Below

(* The reference to page f that its place stands for.                      *)
Labelled(o, f, r) ==
  \/ o[f][1] = "root" /\ r = <<"pagetable", o[f][3], 0, f>>
  \/ o[f][1] = "loose" /\ o[f][2] = 1 /\ r = <<"trapframe", o[f][3], 0, f>>
  \/ o[f][1] = "loose" /\ o[f][2] = 2 /\ r = <<"usyscall", o[f][3], 0, f>>
  \/ o[f][1] \in {"mid", "bot"} /\ r = <<"table", o[f][2], o[f][3], f>>
  \/ /\ o[f][1] = "page"
     /\ \E k \in Procs, v \in VA :
          /\ InUse(k) /\ r = <<"page", k, v, f>> /\ BotOf(m, Root(k), v) # 0
          /\ o[f] = <<"page", BotOf(m, Root(k), v), PX(0, v)>>

LEMMA RootIs ==
  ASSUME NEW o, Mem(m, o, hist), NEW p \in Procs, InUse(p)
  PROVE  /\ Own(m, o) /\ Root_(o, Root(p)) /\ Root(p) \in Frames /\ Root(p) # 0
         /\ Owns(o, p, m.proc[p]) /\ o[Root(p)] = <<"root", 0, p>>
<1>1. Process(m, o, p, m.proc[p], hist[p]) /\ Own(m, o)
  BY InUseIs DEF InUse, Mem
<1>2. Owns(o, p, m.proc[p])
  BY <1>1 DEF Process
<1>3. 0 \notin Frames
  BY DEF Frames
<1> QED BY <1>1, <1>2, <1>3 DEF Owns, Root, Root_

LEMMA TableEntry ==
  ASSUME NEW o, Mem(m, o, hist), NEW p \in Procs, InUse(p), NEW t \in {Root(p)} \cup Middle(p),
         NEW i \in Entries, NEW f \in Frames, f = m.pt[t][i].pa
  PROVE  o[f] = <<"mid", t, i>> \/ o[f] = <<"bot", t, i>>
<1>1. /\ Own(m, o) /\ Root_(o, Root(p)) /\ Root(p) \in Frames /\ o[Root(p)][1] = "root"
      /\ f # 0 /\ 0 \notin Frames
  BY RootIs DEF Frames
<1>2. CASE t = Root(p)
  <2>1. EntryOK(m.pt[t][i], o, t, i) /\ o[t][1] = "root"
    BY <1>1, <1>2, Entry
  <2> QED BY <1>1, <2>1 DEF EntryOK
<1>3. CASE t \in Middle(p)
  <2>1. PICK j \in Entries : t # 0 /\ t = m.pt[Root(p)][j].pa
    BY <1>3, Middles
  <2>2. EntryOK(m.pt[Root(p)][j], o, Root(p), j)
    BY <1>1, <2>1, Entry
  <2>3. t \in Frames /\ o[t] = <<"mid", Root(p), j>>
    BY <1>1, <2>1, <2>2 DEF EntryOK
  <2>4. EntryOK(m.pt[t][i], o, t, i) /\ o[t][1] = "mid"
    BY <1>1, <2>3, Entry
  <2> QED BY <1>1, <2>4 DEF EntryOK
<1> QED BY <1>2, <1>3

LEMMA Labels ==
  ASSUME NEW o, Mem(m, o, hist), NEW p \in Procs, InUse(p), NEW r, Refers(p, r),
         NEW f \in Frames, r[4] = f
  PROVE  Labelled(o, f, r)
<1>1. /\ Own(m, o) /\ Root_(o, Root(p)) /\ Owns(o, p, m.proc[p]) /\ o[Root(p)] = <<"root", 0, p>>
      /\ f # 0
  BY RootIs DEF Frames
<1>2. CASE r = <<"pagetable", p, 0, Root(p)>>
  BY <1>1, <1>2 DEF Labelled
<1>3. CASE r = <<"trapframe", p, 0, m.proc[p].trapframe>>
  BY <1>1, <1>3 DEF Labelled, Owns
<1>4. CASE r = <<"usyscall", p, 0, m.proc[p].usyscall>>
  BY <1>1, <1>4 DEF Labelled, Owns
<1>5. ASSUME NEW t \in {Root(p)} \cup Middle(p), NEW i \in Entries, r = <<"table", t, i, m.pt[t][i].pa>>
      PROVE  Labelled(o, f, r)
  <2>1. f = m.pt[t][i].pa /\ r = <<"table", t, i, f>>
    BY <1>5
  <2>2. o[f] = <<"mid", t, i>> \/ o[f] = <<"bot", t, i>>
    BY Z3T(30), <2>1, TableEntry
  <2> QED BY <2>1, <2>2 DEF Labelled
<1>6. ASSUME NEW v \in 0..(USYSCALL - 1), r = <<"page", p, v, PteAt(m, Root(p), v).pa>>
      PROVE  Labelled(o, f, r)
  <2>1. PICK q, n, e : q = m.proc[p] /\ n = Pages(q.sz) /\ e = PteAt(m, Root(p), v)
    OBVIOUS
  <2>2. v \in VA /\ v < MAXVA - 3 /\ f = e.pa /\ r = <<"page", p, v, f>>
    BY <1>6, <2>1, Layout DEF VA
  <2>3. SpaceIs(m, Root(p), n, 3)
    <3>1. Process(m, o, p, q, hist[p]) /\ q \in ProcType /\ Root(p) = q.pagetable
      BY <2>1, InUseIs DEF InUse, Root
    <3> QED BY <1>1, <2>1, <3>1, ImageFacts
  <2>4. e.pa # 0 => Mine(e)
    <3>1. ~(v >= MAXVA - 3)
      BY <2>2, Layout DEF VA
    <3> QED BY <2>1, <2>2, <2>3, <3>1 DEF SpaceIs
  <2>5. BotOf(m, Root(p), v) # 0 /\ o[f] = <<"page", BotOf(m, Root(p), v), PX(0, v)>>
    BY <1>1, <2>1, <2>2, <2>4, MinePte
  <2>6. o[f][1] = "page"
    BY <2>5
  <2> QED BY <2>2, <2>5, <2>6 DEF Labelled
<1> QED BY <1>2, <1>3, <1>4, <1>5, <1>6, RefersIs

LEMMA OneLabel ==
  ASSUME NEW o, Mem(m, o, hist), NEW f \in Frames, NEW r, NEW s, Labelled(o, f, r), Labelled(o, f, s)
  PROVE  r = s
<1>1. CASE o[f][1] = "page"
  <2>1. PICK k \in Procs, v \in VA :
          /\ InUse(k) /\ r = <<"page", k, v, f>> /\ BotOf(m, Root(k), v) # 0
          /\ o[f] = <<"page", BotOf(m, Root(k), v), PX(0, v)>>
    BY <1>1 DEF Labelled
  <2>2. PICK l \in Procs, u \in VA :
          /\ InUse(l) /\ s = <<"page", l, u, f>> /\ BotOf(m, Root(l), u) # 0
          /\ o[f] = <<"page", BotOf(m, Root(l), u), PX(0, u)>>
    BY <1>1 DEF Labelled
  <2>3. BotOf(m, Root(l), u) = BotOf(m, Root(k), v) /\ PX(0, u) = PX(0, v)
    BY <2>1, <2>2
  <2>4. /\ Own(m, o) /\ Root_(o, Root(k)) /\ Root_(o, Root(l))
        /\ o[Root(k)] = <<"root", 0, k>> /\ o[Root(l)] = <<"root", 0, l>>
    BY <2>1, <2>2, RootIs
  <2>5. Root(l) = Root(k) /\ u = v
    BY <2>1, <2>3, <2>4, OneEntry
  <2>6. k = l
    BY <2>4, <2>5
  <2> QED BY <2>1, <2>2, <2>5, <2>6
<1>2. CASE o[f][1] # "page"
  BY <1>2 DEF Labelled
<1> QED BY <1>1, <1>2

(* A page that the kernel refers to, and from which slot.                  *)
LEMMA HeldIs ==
  ASSUME NEW o, Mem(m, o, hist), NEW f \in Frames, Held(o[f]), NEW p, p = o[f][3]
  PROVE  /\ p \in Procs /\ InUse(p)
         /\ o[f][1] = "root" => f = Root(p)
         /\ o[f][1] = "loose" => f = m.proc[p].trapframe \/ f = m.proc[p].usyscall
<1>1. p \in Procs /\ f \in Fields(m.proc[p])
  BY DEF Mem, Accounted
<1>2. SlotOK(m, o, p, m.proc[p], hist[p])
  BY <1>1 DEF Mem
<1>3. m.proc[p] # UnusedProc
  BY <1>1, <1>2, FieldsHeld
<1>4. Process(m, o, p, m.proc[p], hist[p])
  BY <1>2, <1>3 DEF SlotOK
<1>5. InUse(p) /\ Owns(o, p, m.proc[p])
  BY <1>4 DEF Process, InUse
<1>6. PICK q : q = m.proc[p]
  OBVIOUS
<1>7. /\ o[q.trapframe] = <<"loose", 1, p>> /\ o[q.usyscall] = <<"loose", 2, p>>
      /\ o[q.pagetable] = <<"root", 0, p>>
  BY <1>5, <1>6 DEF Owns
<1>8. f = q.trapframe \/ f = q.usyscall \/ f = q.pagetable
  BY <1>1, <1>6 DEF Fields
<1>9. /\ o[f][1] = "root" => f = q.pagetable
      /\ o[f][1] = "loose" => f = q.trapframe \/ f = q.usyscall
  BY <1>7, <1>8
<1> QED BY <1>1, <1>5, <1>6, <1>9 DEF Root

(* The table of level 1 in entry i of the table of process p.              *)
LEMMA MidIs ==
  ASSUME NEW o, Mem(m, o, hist), NEW f \in Frames, o[f][1] = "mid"
  PROVE  \E p \in Procs :
           /\ InUse(p) /\ o[f][2] = Root(p) /\ o[f][3] \in 0..(Half - 1) /\ o[f][3] \in Entries
           /\ m.pt[Root(p)][o[f][3]].pa = f
<1> DEFINE t == o[f][2]
           i == o[f][3]
<1>1. Own(m, o) /\ PlaceOK(m.pt, o, f) /\ f # 0
  BY DEF Mem, Own, Frames
<1>2. t \in Frames /\ i \in Entries /\ m.pt[t][i].pa = f /\ o[t][1] = "root"
  BY <1>1 DEF PlaceOK
<1>3. PICK p : p = o[t][3]
  OBVIOUS
<1>4. p \in Procs /\ InUse(p) /\ t = Root(p)
  BY <1>2, <1>3, HeldIs DEF Held
<1>5. EntryOK(m.pt[t][i], o, t, i)
  BY <1>1, <1>2, Entry
<1>6. i < Half
  BY <1>1, <1>2, <1>5 DEF EntryOK
<1>7. i \in 0..(Half - 1)
  BY <1>2, <1>6, Layout DEF Entries
<1> QED BY <1>2, <1>4, <1>7

LEMMA BotIs ==
  ASSUME NEW o, Mem(m, o, hist), NEW f \in Frames, o[f][1] = "bot"
  PROVE  \E p \in Procs, i \in 0..(Half - 1) :
           /\ InUse(p) /\ i \in Entries /\ o[f][2] # 0 /\ o[f][2] = m.pt[Root(p)][i].pa
           /\ o[f][3] \in Entries /\ m.pt[o[f][2]][o[f][3]].pa = f
<1> DEFINE t == o[f][2]
<1>1. Own(m, o) /\ PlaceOK(m.pt, o, f) /\ 0 \notin Frames
  BY DEF Mem, Own, Frames
<1>2. t \in Frames /\ o[f][3] \in Entries /\ m.pt[t][o[f][3]].pa = f /\ o[t][1] = "mid"
  BY <1>1 DEF PlaceOK
<1>3. PICK p \in Procs :
        InUse(p) /\ o[t][3] \in 0..(Half - 1) /\ o[t][3] \in Entries /\ m.pt[Root(p)][o[t][3]].pa = t
  BY <1>2, MidIs
<1> QED BY <1>1, <1>2, <1>3

LEMMA PageIs ==
  ASSUME NEW o, Mem(m, o, hist), NEW f \in Frames, o[f][1] = "page"
  PROVE  \E p \in Procs, v \in 0..(USYSCALL - 1) : InUse(p) /\ PteAt(m, Root(p), v).pa = f
<1>0. PICK b, k : b = o[f][2] /\ k = o[f][3]
  OBVIOUS
<1>1. Own(m, o) /\ PlaceOK(m.pt, o, f) /\ 0 \notin Frames /\ f # 0
  BY DEF Mem, Own, Frames
<1>2. b \in Frames /\ k \in Entries /\ m.pt[b][k].pa = f /\ o[b][1] = "bot" /\ Mine(m.pt[b][k])
  BY <1>0, <1>1 DEF PlaceOK
<1>3. b # 0
  BY <1>1, <1>2
<1> PICK t, j : t = o[b][2] /\ j = o[b][3]
  OBVIOUS
<1>4. PICK p \in Procs, i \in 0..(Half - 1) :
        InUse(p) /\ t # 0 /\ t = m.pt[Root(p)][i].pa /\ j \in Entries /\ m.pt[t][j].pa = b
  BY <1>2, BotIs
<1>5. PICK v \in VA : PX(2, v) = i /\ PX(1, v) = j /\ PX(0, v) = k
  BY <1>2, <1>4, PageOf
<1>6. MidOf(m, Root(p), v) = t
  BY <1>4, <1>5 DEF MidOf
<1>7. BotOf(m, Root(p), v) = b
  BY <1>4, <1>5, <1>6 DEF BotOf
<1>8. Root_(o, Root(p))
  BY <1>4, RootIs
<1>9. PteAt(m, Root(p), v) = m.pt[b][k]
  BY <1>1, <1>3, <1>5, <1>7, <1>8, PteLeaf DEF LeafOf
<1>10. PICK q, n, e : q = m.proc[p] /\ n = Pages(q.sz) /\ e = PteAt(m, Root(p), v)
  OBVIOUS
<1>11. SpaceIs(m, Root(p), n, 3)
  <2>1. Process(m, o, p, q, hist[p]) /\ q \in ProcType /\ Root(p) = q.pagetable
    BY <1>4, <1>10, InUseIs DEF InUse, Root
  <2> QED BY <1>1, <1>10, <2>1, ImageFacts
<1>12. ~(v >= MAXVA - 3)
  BY <1>2, <1>9, <1>11 DEF SpaceIs
<1>13. v \in 0..(USYSCALL - 1)
  BY <1>12, Layout DEF VA
<1> QED BY <1>2, <1>4, <1>9, <1>13

(* No page is lost.                                                        *)
LEMMA Referred ==
  ASSUME NEW o, Mem(m, o, hist), NEW f \in Frames, o[f][1] # "free"
  PROVE  \E r \in References : r[4] = f
<1> SUFFICES \E p \in Procs : InUse(p) /\ \E r : Refers(p, r) /\ r[4] = f
  BY AllReferences
<1>1. o[f][1] \in {"root", "mid", "bot", "page", "loose"}
  <2>1. o[f] \in Places
    BY DEF Mem, Own
  <2> QED BY <2>1 DEF Places
<1>2. CASE Held(o[f])
  <2>1. PICK p : p = o[f][3]
    OBVIOUS
  <2>2. /\ p \in Procs /\ InUse(p)
        /\ f = Root(p) \/ f = m.proc[p].trapframe \/ f = m.proc[p].usyscall
    BY <1>2, <2>1, HeldIs DEF Held
  <2>3. CASE f = Root(p)
    <3>1. PICK r : r = <<"pagetable", p, 0, Root(p)>>
      OBVIOUS
    <3>2. Refers(p, r) /\ r[4] = f
      BY <2>3, <3>1, RefersIs
    <3> QED BY <2>2, <3>2
  <2>4. CASE f = m.proc[p].trapframe
    <3>1. PICK r : r = <<"trapframe", p, 0, m.proc[p].trapframe>>
      OBVIOUS
    <3>2. Refers(p, r) /\ r[4] = f
      BY <2>4, <3>1, RefersIs
    <3> QED BY <2>2, <3>2
  <2>5. CASE f = m.proc[p].usyscall
    <3>1. PICK r : r = <<"usyscall", p, 0, m.proc[p].usyscall>>
      OBVIOUS
    <3>2. Refers(p, r) /\ r[4] = f
      BY <2>5, <3>1, RefersIs
    <3> QED BY <2>2, <3>2
  <2> QED BY <2>2, <2>3, <2>4, <2>5
<1>3. CASE o[f][1] = "mid"
  <2>1. PICK p \in Procs : InUse(p) /\ o[f][3] \in Entries /\ m.pt[Root(p)][o[f][3]].pa = f
    BY <1>3, MidIs
  <2>2. PICK r : r = <<"table", Root(p), o[f][3], m.pt[Root(p)][o[f][3]].pa>>
    OBVIOUS
  <2>3. Refers(p, r) /\ r[4] = f
    BY <2>1, <2>2, RefersIs
  <2> QED BY <2>1, <2>3
<1>4. CASE o[f][1] = "bot"
  <2>1. PICK t : t = o[f][2]
    OBVIOUS
  <2>2. PICK p \in Procs, i \in Entries :
          InUse(p) /\ t # 0 /\ t = m.pt[Root(p)][i].pa /\ o[f][3] \in Entries /\ m.pt[t][o[f][3]].pa = f
    BY <1>4, <2>1, BotIs
  <2>3. t \in Middle(p)
    BY <2>2, Middles
  <2>4. PICK r : r = <<"table", t, o[f][3], m.pt[t][o[f][3]].pa>>
    OBVIOUS
  <2>5. Refers(p, r) /\ r[4] = f
    BY <2>2, <2>3, <2>4, RefersIs
  <2> QED BY <2>2, <2>5
<1>5. CASE o[f][1] = "page"
  <2>1. PICK p \in Procs, v \in 0..(USYSCALL - 1) : InUse(p) /\ PteAt(m, Root(p), v).pa = f
    BY <1>5, PageIs
  <2>2. PICK r : r = <<"page", p, v, PteAt(m, Root(p), v).pa>>
    OBVIOUS
  <2>3. Refers(p, r) /\ r[4] = f
    BY <2>1, <2>2, RefersIs
  <2> QED BY <2>1, <2>3
<1> QED BY <1>1, <1>2, <1>3, <1>4, <1>5 DEF Held

LEMMA Typed ==
  ASSUME IInv PROVE TypeOK
<1>1. PICK o : Mem(m, o, hist)
  BY DEF IInv, Kept
<1>2. m \in Machine
  BY <1>1 DEF Mem, Own
<1>3. /\ m.pt \in [Frames -> [Entries -> PteType]] /\ m.data \in [Frames -> DataType]
      /\ m.free \subseteq Frames /\ m.proc \in [Procs -> ProcType]
  BY <1>2, MachineFields
<1>4. ASSUME NEW p \in Procs
      PROVE  m.proc[p] \in [state : States, pid : 0..(NPROC + 1), sz : 0..(UintMod - 1),
                            parent : 0..NPROC, pagetable : 0..NFrames,
                            trapframe : 0..NFrames, usyscall : 0..NFrames]
  <2>1. PICK q : q = m.proc[p]
    OBVIOUS
  <2>2. q \in ProcType
    BY <1>3, <2>1
  <2>3. q.state \in States
    <3>1. q.state # "UNUSED" => q.state \in {"RUNNABLE", "ZOMBIE"}
      BY <1>1, <2>1, InUseIs DEF Process
    <3> QED BY <3>1 DEF States
  <2>4. q.sz \in 0..(UintMod - 1)
    <3>1. PICK z : z = NFrames * PGSIZE
      OBVIOUS
    <3>2. z \in Nat /\ z < UintMod /\ UintMod \in Nat
      BY <3>1, UserAssumption, SizeAssumption, Products
    <3>3. q.sz \in 0..z
      BY <2>2, <3>1 DEF ProcType
    <3> QED BY <3>2, <3>3
  <2> QED BY <2>1, <2>2, <2>3, <2>4 DEF ProcType
<1>5. m.left = 0 /\ m.ret = 0 /\ budget \in 0..MaxUser
  BY DEF IInv
<1>6. m.proc \in [Procs -> [state : States, pid : 0..(NPROC + 1), sz : 0..(UintMod - 1),
                            parent : 0..NPROC, pagetable : 0..NFrames,
                            trapframe : 0..NFrames, usyscall : 0..NFrames]]
  BY <1>3, <1>4
<1>7. /\ m.pt \in [Frames -> [Entries -> [pa : 0..TrampolinePa,
                                          perm : SUBSET (UserPerm \cup {"A"})]]]
      /\ m.data \in [Frames -> Data \cup {Junk} \cup 1..(NPROC + 1)]
  BY <1>3 DEF PteType, DataType
<1> QED BY <1>3, <1>5, <1>6, <1>7 DEF TypeOK

(* Whatever fork, exec, sbrk, exit and wait have done or given up half way, *)
(* each page of the machine is free, or exactly one slot, table entry or    *)
(* page of user memory refers to it.                                        *)
THEOREM BooksInOrder == Spec => []MemoryInv
<1>1. IInv => FramesOwnedOnce
  <2> SUFFICES ASSUME IInv, NEW f \in Frames
               PROVE  Cardinality({r \in References : r[4] = f}) = IF f \in m.free THEN 0 ELSE 1
    BY DEF FramesOwnedOnce
  <2>1. PICK o : Mem(m, o, hist)
    BY DEF IInv, Kept
  <2>2. PICK S : S = {r \in References : r[4] = f}
    OBVIOUS
  <2>3. ASSUME NEW r \in S PROVE Labelled(o, f, r)
    <3>1. r \in References /\ r[4] = f
      BY <2>2
    <3>2. PICK p \in Procs : InUse(p) /\ Refers(p, r)
      BY <3>1, AllReferences
    <3> QED BY <2>1, <3>1, <3>2, Labels
  <2>4. f \in m.free <=> o[f][1] = "free"
    BY <2>1 DEF Mem, Own
  <2>5. CASE f \in m.free
    <3>1. S = {}
      BY <2>3, <2>4, <2>5 DEF Labelled
    <3> QED BY <2>2, <2>5, <3>1, FS_EmptySet
  <2>6. CASE f \notin m.free
    <3>1. PICK r \in References : r[4] = f
      BY <2>1, <2>4, <2>6, Referred
    <3>2. r \in S
      BY <2>2, <3>1
    <3>3. \A s \in S : s = r
      BY <2>1, <2>3, <3>2, OneLabel
    <3>4. S = {r}
      BY <3>2, <3>3
    <3>5. Cardinality(S) = 1
      BY <3>4, FS_Singleton
    <3> QED BY <2>2, <2>6, <3>5
  <2> QED BY <2>5, <2>6
<1>2. IInv => MemoryInv
  BY <1>1, Typed DEF MemoryInv
<1> QED BY <1>2, MemoryKept, PTL
-----------------------------------------------------------------------------
(* vmprint().                                                              *)

(* A turn of its loop, where sub is what the table below prints.           *)
Printed(out, pte, line, sub) ==
  IF ~Valid(pte) THEN out
  ELSE IF IsLeaf(pte) THEN Append(out, line)
  ELSE Append(out, line) \o sub

LEMMA PrintLevel2Run ==
  ASSUME NEW w, NEW t, NEW n \in Nat, n = Fan
  PROVE  \E f : /\ f[0] = << >> /\ PrintLevel2(w, t) = f[n]
               /\ \A i \in 0..(n - 1) :
                    f[i + 1] = Printed(f[i], w.pt[t][i], PrintLine(2, i, w.pt[t][i]),
                                    PrintPage(w, w.pt[t][i].pa))
<1> DEFINE Turn(out, i) == Printed(out, w.pt[t][i], PrintLine(2, i, w.pt[t][i]), PrintPage(w, w.pt[t][i].pa))
           Start == << >>
           Run(f, N) == f = [k \in 0..N |-> IF k = 0 THEN Start ELSE Turn(f[k - 1], k - 1)]
<1> HIDE DEF Turn, Start
<1>1. \A N \in Nat : \E f : Run(f, N)
  <2> DEFINE S == {N \in Nat : \E f : Run(f, N)}
  <2>1. 0 \in S
    <3>1. Run([k \in 0..0 |-> Start], 0)
      OBVIOUS
    <3> QED BY <3>1
  <2>2. ASSUME NEW N \in Nat, N \in S PROVE N + 1 \in S
    <3>1. PICK f : Run(f, N)
      BY <2>2
    <3> DEFINE g == [k \in 0..(N + 1) |-> IF k = N + 1 THEN Turn(f[N], N) ELSE f[k]]
    <3>2. Run(g, N + 1)
      BY <3>1
    <3> HIDE DEF g, Run
    <3> QED BY <3>2
  <2> HIDE DEF S
  <2>3. \A N \in Nat : N \in S
    BY <2>1, <2>2, SetInduction
  <2> QED BY <2>3 DEF S
<1> DEFINE F == CHOOSE f : Run(f, n)
<1>2. Run(F, n)
  BY <1>1
<1>3. PrintLevel2(w, t) = F[n]
  BY DEF PrintLevel2, PrintTable, Loop, Printed, Turn, Start
<1> HIDE DEF F
<1>4. F[0] = Start /\ \A k \in 0..(n - 1) : F[k + 1] = Turn(F[k], k)
  BY <1>2
<1> QED BY <1>3, <1>4 DEF Turn, Start

LEMMA PrintLevel1Run ==
  ASSUME NEW w, NEW t, NEW n \in Nat, n = Fan
  PROVE  \E f : /\ f[0] = << >> /\ PrintLevel1(w, t) = f[n]
               /\ \A i \in 0..(n - 1) :
                    f[i + 1] = Printed(f[i], w.pt[t][i], PrintLine(1, i, w.pt[t][i]),
                                    PrintLevel2(w, w.pt[t][i].pa))
<1> DEFINE Turn(out, i) == Printed(out, w.pt[t][i], PrintLine(1, i, w.pt[t][i]), PrintLevel2(w, w.pt[t][i].pa))
           Start == << >>
           Run(f, N) == f = [k \in 0..N |-> IF k = 0 THEN Start ELSE Turn(f[k - 1], k - 1)]
<1> HIDE DEF Turn, Start
<1>1. \A N \in Nat : \E f : Run(f, N)
  <2> DEFINE S == {N \in Nat : \E f : Run(f, N)}
  <2>1. 0 \in S
    <3>1. Run([k \in 0..0 |-> Start], 0)
      OBVIOUS
    <3> QED BY <3>1
  <2>2. ASSUME NEW N \in Nat, N \in S PROVE N + 1 \in S
    <3>1. PICK f : Run(f, N)
      BY <2>2
    <3> DEFINE g == [k \in 0..(N + 1) |-> IF k = N + 1 THEN Turn(f[N], N) ELSE f[k]]
    <3>2. Run(g, N + 1)
      BY <3>1
    <3> HIDE DEF g, Run
    <3> QED BY <3>2
  <2> HIDE DEF S
  <2>3. \A N \in Nat : N \in S
    BY <2>1, <2>2, SetInduction
  <2> QED BY <2>3 DEF S
<1> DEFINE F == CHOOSE f : Run(f, n)
<1>2. Run(F, n)
  BY <1>1
<1>3. PrintLevel1(w, t) = F[n]
  BY DEF PrintLevel1, PrintTable, Loop, Printed, Turn, Start
<1> HIDE DEF F
<1>4. F[0] = Start /\ \A k \in 0..(n - 1) : F[k + 1] = Turn(F[k], k)
  BY <1>2
<1> QED BY <1>3, <1>4 DEF Turn, Start

LEMMA VmprintRun ==
  ASSUME NEW w, NEW t, NEW n \in Nat, n = Fan
  PROVE  \E f : /\ f[0] = << >> /\ Vmprint(w, t) = f[n]
               /\ \A i \in 0..(n - 1) :
                    f[i + 1] = Printed(f[i], w.pt[t][i], PrintLine(0, i, w.pt[t][i]),
                                    PrintLevel1(w, w.pt[t][i].pa))
<1> DEFINE Turn(out, i) == Printed(out, w.pt[t][i], PrintLine(0, i, w.pt[t][i]), PrintLevel1(w, w.pt[t][i].pa))
           Start == << >>
           Run(f, N) == f = [k \in 0..N |-> IF k = 0 THEN Start ELSE Turn(f[k - 1], k - 1)]
<1> HIDE DEF Turn, Start
<1>1. \A N \in Nat : \E f : Run(f, N)
  <2> DEFINE S == {N \in Nat : \E f : Run(f, N)}
  <2>1. 0 \in S
    <3>1. Run([k \in 0..0 |-> Start], 0)
      OBVIOUS
    <3> QED BY <3>1
  <2>2. ASSUME NEW N \in Nat, N \in S PROVE N + 1 \in S
    <3>1. PICK f : Run(f, N)
      BY <2>2
    <3> DEFINE g == [k \in 0..(N + 1) |-> IF k = N + 1 THEN Turn(f[N], N) ELSE f[k]]
    <3>2. Run(g, N + 1)
      BY <3>1
    <3> HIDE DEF g, Run
    <3> QED BY <3>2
  <2> HIDE DEF S
  <2>3. \A N \in Nat : N \in S
    BY <2>1, <2>2, SetInduction
  <2> QED BY <2>3 DEF S
<1> DEFINE F == CHOOSE f : Run(f, n)
<1>2. Run(F, n)
  BY <1>1
<1>3. Vmprint(w, t) = F[n]
  BY DEF Vmprint, PrintTable, Loop, Printed, Turn, Start
<1> HIDE DEF F
<1>4. F[0] = Start /\ \A k \in 0..(n - 1) : F[k + 1] = Turn(F[k], k)
  BY <1>2
<1> QED BY <1>3, <1>4 DEF Turn, Start

(* The line k, or the last one before it of this level, is of entry x.     *)
Under(out, k, level, x) ==
  \E j \in 1..k : /\ out[j].level = level /\ out[j].index = x
                  /\ \A i \in (j + 1)..k : out[i].level # level

(* The line k is of the page v of a table of level l, counted from the top. *)
Address(out, k, l, v) ==
  \/ l = 2 /\ v = out[k].index
  \/ l = 1 /\ \E b \in Entries : Under(out, k, 1, b) /\ v = b * Fan + out[k].index
  \/ l = 0 /\ \E a, b \in Entries : /\ Under(out, k, 0, a) /\ Under(out, k, 1, b)
                                    /\ v = (a * Fan + b) * Fan + out[k].index

Lines == [level : 0..2, index : Entries, pte : PteType]

LineOK(out, l, P, n, va, k) ==
  va[k] \in 0..(n - 1) /\ out[k].pte = P[va[k]] /\ Valid(P[va[k]]) /\ Address(out, k, l, va[k])

(* The lines of a table of level l show the first n entries of P; the line *)
(* k, when it is of a leaf, that of va[k].                                 *)
Shows(out, l, P, n, va) ==
  /\ out \in Seq(Lines) /\ va \in [1..Len(out) -> Nat]
  /\ \A k \in 1..Len(out) : out[k].level >= l
  /\ \A k \in 1..Len(out) : out[k].level = 2 => LineOK(out, l, P, n, va, k)
  /\ \A j, k \in 1..Len(out) : j < k /\ out[j].level = 2 /\ out[k].level = 2 => va[j] < va[k]
  /\ \A v \in 0..(n - 1) : Valid(P[v]) =>
       \E k \in 1..Len(out) : out[k].level = 2 /\ va[k] = v

LEMMA ShowsNothing ==
  ASSUME NEW l, NEW P
  PROVE  \E va : Shows(<< >>, l, P, 0, va)
<1>1. PICK va : va = [k \in 1..0 |-> 0]
  OBVIOUS
<1>2. Shows(<< >>, l, P, 0, va)
  BY <1>1 DEF Shows
<1> QED BY <1>2

(* Entries that are not valid print nothing.                               *)
LEMMA ShowsNone ==
  ASSUME NEW l, NEW P, NEW out, NEW va, NEW n \in Nat, NEW u \in Nat, n <= u, Shows(out, l, P, n, va),
         \A v \in n..(u - 1) : ~Valid(P[v])
  PROVE  Shows(out, l, P, u, va)
<1>1. ASSUME NEW k \in 1..Len(out), out[k].level = 2
      PROVE  LineOK(out, l, P, u, va, k)
  <2>1. LineOK(out, l, P, n, va, k)
    BY <1>1 DEF Shows
  <2> QED BY <2>1 DEF LineOK
<1>2. ASSUME NEW v \in 0..(u - 1), Valid(P[v])
      PROVE  \E k \in 1..Len(out) : out[k].level = 2 /\ va[k] = v
  <2>1. v \in 0..(n - 1)
    BY <1>2
  <2> QED BY <1>2, <2>1 DEF Shows
<1> QED BY <1>1, <1>2 DEF Shows

(* A line more, and what follows it.                                       *)
Joined(big, out, line, sub) ==
  /\ big \in Seq(Lines) /\ Len(big) = Len(out) + 1 + Len(sub)
  /\ \A k \in 1..Len(out) : big[k] = out[k]
  /\ big[Len(out) + 1] = line
  /\ \A k \in 1..Len(sub) : big[Len(out) + 1 + k] = sub[k]

LEMMA Joins ==
  ASSUME NEW out \in Seq(Lines), NEW line \in Lines, NEW sub \in Seq(Lines)
  PROVE  Joined(Append(out, line) \o sub, out, line, sub)
<1>1. PICK a : a = Append(out, line)
  OBVIOUS
<1>2. /\ a \in Seq(Lines) /\ Len(a) = Len(out) + 1 /\ a[Len(out) + 1] = line
      /\ \A k \in 1..Len(out) : a[k] = out[k]
  BY <1>1
<1>3. PICK big : big = a \o sub
  OBVIOUS
<1>4. /\ big \in Seq(Lines) /\ Len(big) = Len(a) + Len(sub)
      /\ \A k \in 1..Len(a) : big[k] = a[k]
      /\ \A k \in 1..Len(sub) : big[Len(a) + k] = sub[k]
  <2>1. big \in Seq(Lines)
    BY <1>2, <1>3
  <2>2. \A k \in 1..Len(a) : big[k] = a[k]
    BY <1>2, <1>3
  <2>3. ASSUME NEW k \in 1..Len(sub) PROVE big[Len(a) + k] = sub[k]
    BY <1>2, <1>3
  <2>4. Len(big) = Len(a) + Len(sub)
    <3>1. a \in Seq(Lines)
      BY <1>2
    <3> QED BY <1>3, <3>1
  <2> QED BY <2>1, <2>2, <2>3, <2>4
<1>5. Joined(big, out, line, sub)
  <2>1. Len(out) \in Nat /\ Len(sub) \in Nat
    OBVIOUS
  <2> QED BY <1>2, <1>4, <2>1 DEF Joined
<1> QED BY <1>1, <1>3, <1>5

LEMMA JoinsOne ==
  ASSUME NEW out \in Seq(Lines), NEW line \in Lines
  PROVE  Joined(Append(out, line), out, line, << >>)
BY DEF Joined

LEMMA UnderBefore ==
  ASSUME NEW big, NEW out \in Seq(Lines), NEW line, NEW sub \in Seq(Lines), Joined(big, out, line, sub),
         NEW k \in 1..Len(out), NEW level, NEW x, Under(out, k, level, x)
  PROVE  Under(big, k, level, x)
<1>1. PICK j \in 1..k : /\ out[j].level = level /\ out[j].index = x
                        /\ \A i \in (j + 1)..k : out[i].level # level
  BY DEF Under
<1>2. \A i \in 1..k : big[i] = out[i]
  BY DEF Joined
<1>3. \A i \in (j + 1)..k : i \in 1..k
  BY <1>1
<1>4. big[j].level = level /\ big[j].index = x /\ \A i \in (j + 1)..k : big[i].level # level
  BY <1>1, <1>2, <1>3
<1> QED BY <1>4 DEF Under

LEMMA UnderAfter ==
  ASSUME NEW big, NEW out \in Seq(Lines), NEW line, NEW sub \in Seq(Lines), Joined(big, out, line, sub),
         NEW k \in 1..Len(sub), NEW level, NEW x, Under(sub, k, level, x)
  PROVE  Under(big, Len(out) + 1 + k, level, x)
<1>1. PICK j \in 1..k : /\ sub[j].level = level /\ sub[j].index = x
                        /\ \A i \in (j + 1)..k : sub[i].level # level
  BY DEF Under
<1>2. PICK c \in Nat : c = Len(out) + 1
  OBVIOUS
<1>3. \A i \in 1..k : big[c + i] = sub[i]
  BY <1>2 DEF Joined
<1>4. c + j \in 1..(c + k) /\ big[c + j].level = level /\ big[c + j].index = x
  <2>1. big[c + j] = sub[j]
    BY <1>3
  <2> QED BY <1>1, <1>2, <2>1
<1>5. ASSUME NEW i \in (c + j + 1)..(c + k) PROVE big[i].level # level
  <2>1. PICK e : e = i - c
    OBVIOUS
  <2>2. e \in (j + 1)..k /\ e \in 1..k /\ i = c + e
    BY <1>2, <1>5, <2>1
  <2> QED BY <1>1, <1>3, <2>2
<1> QED BY <1>2, <1>4, <1>5 DEF Under

LEMMA UnderLine ==
  ASSUME NEW big, NEW out \in Seq(Lines), NEW line \in Lines, NEW sub \in Seq(Lines), Joined(big, out, line, sub),
         NEW k \in 0..Len(sub), \A i \in 1..k : sub[i].level # line.level
  PROVE  Under(big, Len(out) + 1 + k, line.level, line.index)
<1>2. PICK c \in Nat : c = Len(out) + 1
  OBVIOUS
<1>3. \A i \in 1..k : big[c + i] = sub[i]
  BY <1>2 DEF Joined
<1>4. c \in 1..(c + k) /\ big[c] = line
  BY <1>2 DEF Joined
<1>5. ASSUME NEW i \in (c + 1)..(c + k) PROVE big[i].level # line.level
  <2>1. PICK e : e = i - c
    OBVIOUS
  <2>2. e \in 1..k /\ i = c + e
    BY <1>2, <1>5, <2>1
  <2> QED BY <1>3, <2>2
<1> QED BY <1>2, <1>4, <1>5 DEF Under

LEMMA JoinedLine ==
  ASSUME NEW big, NEW out \in Seq(Lines), NEW line, NEW sub \in Seq(Lines), Joined(big, out, line, sub),
         NEW c, c = Len(out) + 1, NEW k \in 1..Len(big)
  PROVE  \/ k \in 1..Len(out) /\ big[k] = out[k]
         \/ k = c /\ big[k] = line
         \/ \E e \in 1..Len(sub) : k = c + e /\ big[k] = sub[e]
<1>1. CASE k <= Len(out)
  BY <1>1 DEF Joined
<1>2. CASE k = c
  BY <1>2 DEF Joined
<1>3. CASE k > c
  <2>1. PICK e : e = k - c
    OBVIOUS
  <2>2. e \in 1..Len(sub) /\ k = c + e
    BY <1>3, <2>1 DEF Joined
  <2> QED BY <2>2 DEF Joined
<1> QED BY <1>1, <1>2, <1>3

(* The lines of a table below are shown where its entry is.                *)
LEMMA AddressBefore ==
  ASSUME NEW big, NEW out \in Seq(Lines), NEW line, NEW sub \in Seq(Lines), Joined(big, out, line, sub),
         NEW k \in 1..Len(out), NEW l, NEW v, Address(out, k, l, v)
  PROVE  Address(big, k, l, v)
<1>1. big[k] = out[k]
  BY DEF Joined
<1>2. CASE l = 2
  BY <1>1, <1>2 DEF Address
<1>3. CASE l = 1
  <2>1. PICK b \in Entries : Under(out, k, 1, b) /\ v = b * Fan + out[k].index
    BY <1>3 DEF Address
  <2>2. Under(big, k, 1, b)
    BY <2>1, UnderBefore
  <2> QED BY <1>1, <1>3, <2>1, <2>2 DEF Address
<1>4. CASE l = 0
  <2>1. PICK a \in Entries, b \in Entries :
          Under(out, k, 0, a) /\ Under(out, k, 1, b) /\ v = (a * Fan + b) * Fan + out[k].index
    BY <1>4 DEF Address
  <2>2. Under(big, k, 0, a) /\ Under(big, k, 1, b)
    BY <2>1, UnderBefore
  <2> QED BY <1>1, <1>4, <2>1, <2>2 DEF Address
<1> QED BY <1>2, <1>3, <1>4 DEF Address

TableBelow(big, out, line, sub, l, i, R) ==
  /\ Joined(big, out, line, sub) /\ out \in Seq(Lines) /\ line \in Lines /\ sub \in Seq(Lines)
  /\ l \in {0, 1} /\ i \in Entries /\ line.level = l /\ line.index = i
  /\ \A e \in 1..Len(sub) : sub[e].level >= l + 1
  /\ R = IF l = 1 THEN Fan ELSE Fan * Fan

LEMMA AddressAfter ==
  ASSUME NEW big, NEW out, NEW line, NEW sub, NEW l, NEW i, NEW R, TableBelow(big, out, line, sub, l, i, R),
         NEW k \in 1..Len(sub), NEW v, Address(sub, k, l + 1, v)
  PROVE  Address(big, Len(out) + 1 + k, l, i * R + v)
<1>0. /\ Joined(big, out, line, sub) /\ out \in Seq(Lines) /\ line \in Lines /\ sub \in Seq(Lines)
      /\ l \in {0, 1} /\ i \in Entries /\ line.level = l /\ line.index = i
      /\ \A e \in 1..Len(sub) : sub[e].level >= l + 1
      /\ R = IF l = 1 THEN Fan ELSE Fan * Fan
  BY DEF TableBelow
<1>1. big[Len(out) + 1 + k] = sub[k] /\ sub[k].index \in Nat
  <2>1. sub[k] \in Lines
    BY <1>0
  <2>2. sub[k].index \in Nat
    BY <2>1 DEF Lines, Entries
  <2>3. \A e \in 1..Len(sub) : big[Len(out) + 1 + e] = sub[e]
    BY Zenon, <1>0 DEF Joined
  <2> QED BY <2>2, <2>3
<1>2. Under(big, Len(out) + 1 + k, l, i)
  <2>1. k \in 0..Len(sub) /\ \A e \in 1..k : sub[e].level # line.level
    <3>1. ASSUME NEW e \in 1..k PROVE sub[e].level # line.level
      <4>1. e \in 1..Len(sub) /\ sub[e] \in Lines
        BY <1>0
      <4> QED BY <1>0, <4>1 DEF Lines
    <3> QED BY <1>0, <3>1
  <2> QED BY <1>0, <2>1, UnderLine
<1>3. CASE l = 1
  <2>1. v = sub[k].index
    BY <1>3 DEF Address
  <2> QED BY <1>0, <1>1, <1>2, <1>3, <2>1 DEF Address
<1>4. CASE l = 0
  <2>1. PICK b \in Entries : Under(sub, k, 1, b) /\ v = b * Fan + sub[k].index
    BY <1>4 DEF Address
  <2>2. Under(big, Len(out) + 1 + k, 1, b)
    BY <1>0, <2>1, UnderAfter
  <2>3. i * R + v = (i * Fan + b) * Fan + sub[k].index
    <3>1. i \in Nat /\ b \in Nat /\ R = Fan * Fan
      BY <1>0, <1>4 DEF Entries
    <3>2. i * (Fan * Fan) = (i * Fan) * Fan
      BY <3>1, Products
    <3>3. (i * Fan + b) * Fan = (i * Fan) * Fan + b * Fan
      BY <3>1
    <3>4. (i * Fan) * Fan \in Nat /\ b * Fan \in Nat
      BY <3>1
    <3> QED BY <1>1, <2>1, <3>1, <3>2, <3>3, <3>4
  <2> QED BY <1>0, <1>1, <1>2, <1>4, <2>2, <2>3 DEF Address
<1> QED BY <1>0, <1>3, <1>4

LEMMA Shifted ==
  ASSUME NEW n \in Nat, NEW R \in Nat \ {0}, NEW x \in 0..(R - 1)
  PROVE  n + x \in 0..(n + R - 1)
OBVIOUS

LEMMA Moved ==
  ASSUME NEW n \in Nat, NEW x \in Nat, NEW y \in Nat, x < y
  PROVE  n + x < n + y
OBVIOUS

LineAdded(l, R, i, out, P, n, va, line, sub, Q, vb, big) ==
  /\ l \in {0, 1} /\ R \in Nat \ {0} /\ R = IF l = 1 THEN Fan ELSE Fan * Fan
  /\ i \in Entries /\ n \in Nat /\ n = i * R /\ Shows(out, l, P, n, va)
  /\ line \in Lines /\ line.level = l /\ line.index = i
  /\ Shows(sub, l + 1, Q, R, vb) /\ \A y \in 0..(R - 1) : P[n + y] = Q[y]
  /\ Joined(big, out, line, sub)

LEMMA ShowsMore ==
  ASSUME NEW l \in {0, 1}, NEW R \in Nat \ {0}, NEW i \in Entries, NEW n \in Nat, NEW line \in Lines,
         NEW out, NEW P, NEW va, NEW sub, NEW Q, NEW vb, NEW big,
         LineAdded(l, R, i, out, P, n, va, line, sub, Q, vb, big)
  PROVE  \E vc : Shows(big, l, P, n + R, vc)
<1> SUFFICES ASSUME R = IF l = 1 THEN Fan ELSE Fan * Fan, n = i * R, Shows(out, l, P, n, va),
                    line.level = l, line.index = i, Shows(sub, l + 1, Q, R, vb),
                    \A y \in 0..(R - 1) : P[n + y] = Q[y], Joined(big, out, line, sub)
             PROVE  \E vc : Shows(big, l, P, n + R, vc)
  BY DEF LineAdded
<1>1. PICK c \in Nat : c = Len(out) + 1
  <2>1. out \in Seq(Lines)
    BY DEF Shows
  <2> QED BY <2>1
<1>2. /\ out \in Seq(Lines) /\ va \in [1..Len(out) -> Nat] /\ sub \in Seq(Lines)
      /\ vb \in [1..Len(sub) -> Nat] /\ big \in Seq(Lines) /\ Len(big) = c + Len(sub)
  BY <1>1 DEF Shows, Joined
<1>3. PICK vc : vc = [k \in 1..Len(big) |-> IF k < c THEN va[k] ELSE IF k = c THEN 0 ELSE n + vb[k - c]]
  OBVIOUS
<1>4. /\ \A k \in 1..Len(out) : k \in 1..Len(big) /\ k < c /\ vc[k] = va[k] /\ big[k] = out[k]
      /\ \A k \in 1..Len(sub) : c + k \in 1..Len(big) /\ vc[c + k] = n + vb[k] /\ big[c + k] = sub[k]
      /\ c \in 1..Len(big) /\ vc[c] = 0 /\ big[c] = line
  <2>1. ASSUME NEW k \in 1..Len(out)
        PROVE  k \in 1..Len(big) /\ k < c /\ vc[k] = va[k] /\ big[k] = out[k]
    BY <1>1, <1>2, <1>3 DEF Joined
  <2>2. ASSUME NEW k \in 1..Len(sub)
        PROVE  c + k \in 1..Len(big) /\ vc[c + k] = n + vb[k] /\ big[c + k] = sub[k]
    <3>1. c + k \in 1..Len(big) /\ ~(c + k < c) /\ c + k # c /\ (c + k) - c = k
      BY <1>1, <1>2
    <3> QED BY <1>1, <1>3, <3>1 DEF Joined
  <2>3. c \in 1..Len(big) /\ vc[c] = 0 /\ big[c] = line
    BY <1>1, <1>2, <1>3 DEF Joined
  <2> QED BY <2>1, <2>2, <2>3
<1>5. /\ \A k \in 1..Len(out) : va[k] \in Nat
      /\ \A k \in 1..Len(sub) : vb[k] \in Nat
  BY <1>2
<1>6. ASSUME NEW k \in 1..Len(big)
      PROVE  \/ k \in 1..Len(out) \/ k = c \/ \E e \in 1..Len(sub) : k = c + e
  <2>1. CASE k < c
    BY <1>1, <1>2, <2>1
  <2>2. CASE k > c
    <3>1. PICK e : e = k - c
      OBVIOUS
    <3>2. e \in 1..Len(sub) /\ k = c + e
      BY <1>1, <1>2, <2>2, <3>1
    <3> QED BY <3>2
  <2> QED BY <1>1, <2>1, <2>2
<1>7. vc \in [1..Len(big) -> Nat]
  <2>1. ASSUME NEW k \in 1..Len(big) PROVE vc[k] \in Nat
    <3>1. CASE k \in 1..Len(out)
      BY <1>4, <1>5, <3>1
    <3>2. CASE k = c
      BY <1>4, <3>2
    <3>3. CASE \E e \in 1..Len(sub) : k = c + e
      <4>1. PICK e \in 1..Len(sub) : k = c + e
        BY <3>3
      <4>2. vc[k] = n + vb[e] /\ vb[e] \in Nat
        BY <1>4, <1>5, <4>1
      <4> QED BY <4>2
    <3> QED BY <1>6, <3>1, <3>2, <3>3
  <2> QED BY <1>3, <2>1
<1>8. ASSUME NEW k \in 1..Len(big) PROVE big[k].level >= l
  <2>1. CASE k \in 1..Len(out)
    BY <1>4, <2>1 DEF Shows
  <2>2. CASE k = c
    BY <1>4, <2>2
  <2>3. CASE \E e \in 1..Len(sub) : k = c + e
    <3>1. PICK e \in 1..Len(sub) : k = c + e
      BY <2>3
    <3>2. sub[e].level >= l + 1 /\ sub[e] \in Lines
      BY <1>2 DEF Shows
    <3> QED BY <1>4, <3>1, <3>2 DEF Lines
  <2> QED BY <1>6, <2>1, <2>2, <2>3
<1>9. ASSUME NEW k \in 1..Len(big), big[k].level = 2 PROVE LineOK(big, l, P, n + R, vc, k)
  <2>1. CASE k \in 1..Len(out)
    <3>1. LineOK(out, l, P, n, va, k)
      BY <1>4, <1>9, <2>1 DEF Shows
    <3>2. Address(big, k, l, va[k])
      BY <1>2, <2>1, <3>1, AddressBefore DEF LineOK
    <3>3. va[k] \in 0..(n + R - 1)
      BY <3>1 DEF LineOK
    <3>4. vc[k] = va[k] /\ big[k] = out[k]
      BY <1>4, <2>1
    <3>5. out[k].pte = P[va[k]] /\ Valid(P[va[k]])
      BY <3>1 DEF LineOK
    <3> QED BY <3>2, <3>3, <3>4, <3>5 DEF LineOK
  <2>2. CASE k = c
    BY <1>4, <1>9, <2>2
  <2>3. CASE \E e \in 1..Len(sub) : k = c + e
    <3>1. PICK e \in 1..Len(sub) : k = c + e
      BY <2>3
    <3>2. LineOK(sub, l + 1, Q, R, vb, e)
      BY <1>4, <1>9, <3>1 DEF Shows
    <3>3. vb[e] \in 0..(R - 1) /\ n + vb[e] \in 0..(n + R - 1) /\ vc[k] = n + vb[e]
      <4>1. vb[e] \in 0..(R - 1)
        BY <3>2 DEF LineOK
      <4>2. vc[k] = n + vb[e]
        BY <1>4, <3>1
      <4> QED BY <4>1, <4>2, Shifted
    <3>4. P[vc[k]] = Q[vb[e]]
      BY <3>3
    <3>5. \A f \in 1..Len(sub) : sub[f].level >= l + 1
      BY DEF Shows
    <3>6. Address(sub, e, l + 1, vb[e])
      BY <3>2 DEF LineOK
    <3>7. Address(big, Len(out) + 1 + e, l, i * R + vb[e])
      <4>1. TableBelow(big, out, line, sub, l, i, R)
        BY <1>2, <3>5 DEF TableBelow
      <4> QED BY <3>6, <4>1, AddressAfter
    <3>8. Address(big, k, l, vc[k])
      BY <1>1, <3>1, <3>3, <3>7
    <3>9. big[k].pte = P[vc[k]] /\ Valid(P[vc[k]])
      <4>1. sub[e].pte = Q[vb[e]] /\ Valid(Q[vb[e]])
        BY <3>2 DEF LineOK
      <4> QED BY <1>4, <3>1, <3>4, <4>1
    <3>10. vc[k] \in 0..((n + R) - 1)
      BY <3>3
    <3> QED BY Zenon, <3>8, <3>9, <3>10 DEF LineOK
  <2> QED BY <1>6, <2>1, <2>2, <2>3
<1>10. ASSUME NEW j \in 1..Len(big), NEW k \in 1..Len(big), j < k, big[j].level = 2, big[k].level = 2
       PROVE  vc[j] < vc[k]
  <2>1. j # c /\ k # c
    BY <1>4, <1>10
  <2>2. CASE k \in 1..Len(out)
    <3>1. j \in 1..Len(out)
      BY <1>10, <2>2
    <3>2. out[j].level = 2 /\ out[k].level = 2 /\ vc[j] = va[j] /\ vc[k] = va[k]
      BY <1>4, <1>10, <2>2, <3>1
    <3>3. va[j] < va[k]
      BY <1>10, <2>2, <3>1, <3>2 DEF Shows
    <3> QED BY <3>2, <3>3
  <2>3. CASE \E e \in 1..Len(sub) : k = c + e
    <3>1. PICK e \in 1..Len(sub) : k = c + e
      BY <2>3
    <3>2. CASE j \in 1..Len(out)
      <4>1. LineOK(out, l, P, n, va, j)
        BY <1>4, <1>10, <3>2 DEF Shows
      <4>2. va[j] < n
        BY <4>1 DEF LineOK
      <4>3. vc[j] = va[j] /\ vc[k] = n + vb[e] /\ va[j] \in Nat /\ vb[e] \in Nat
        BY <1>4, <1>5, <3>1, <3>2
      <4> QED BY <4>2, <4>3
    <3>3. CASE \E f \in 1..Len(sub) : j = c + f
      <4>1. PICK f \in 1..Len(sub) : j = c + f
        BY <3>3
      <4>2. f < e /\ sub[f].level = 2 /\ sub[e].level = 2
        <5>1. big[j] = sub[f] /\ big[k] = sub[e]
          BY <1>4, <3>1, <4>1
        <5>2. f < e
          BY <1>10, <3>1, <4>1
        <5> QED BY <1>10, <5>1, <5>2
      <4>3. vb[f] < vb[e]
        BY <4>2 DEF Shows
      <4>4. vc[j] = n + vb[f] /\ vc[k] = n + vb[e] /\ vb[f] \in Nat /\ vb[e] \in Nat
        BY <1>4, <1>5, <3>1, <4>1
      <4> QED BY <4>3, <4>4, Moved
    <3> QED BY <1>6, <2>1, <3>2, <3>3
  <2> QED BY <1>6, <2>1, <2>2, <2>3
<1>11. ASSUME NEW v \in 0..(n + R - 1), Valid(P[v])
       PROVE  \E k \in 1..Len(big) : big[k].level = 2 /\ vc[k] = v
  <2>1. CASE v < n
    <3>1. v \in 0..(n - 1)
      BY <2>1
    <3>2. PICK k \in 1..Len(out) : out[k].level = 2 /\ va[k] = v
      BY <1>11, <3>1 DEF Shows
    <3> QED BY <1>4, <3>2
  <2>2. CASE v >= n
    <3>1. PICK y : y = v - n
      OBVIOUS
    <3>2. y \in 0..(R - 1) /\ v = n + y
      BY <2>2, <3>1
    <3>3. Valid(Q[y])
      BY <1>11, <3>2
    <3>4. PICK k \in 1..Len(sub) : sub[k].level = 2 /\ vb[k] = y
      BY <3>2, <3>3 DEF Shows
    <3>5. c + k \in 1..Len(big) /\ big[c + k].level = 2 /\ vc[c + k] = v
      BY <1>4, <3>2, <3>4
    <3> QED BY <3>5
  <2> QED BY <2>1, <2>2
<1>12. Shows(big, l, P, n + R, vc)
  <2>1. \A k \in 1..Len(big) : big[k].level = 2 => LineOK(big, l, P, n + R, vc, k)
    BY <1>9
  <2>2. \A j, k \in 1..Len(big) : j < k /\ big[j].level = 2 /\ big[k].level = 2 => vc[j] < vc[k]
    BY <1>10
  <2>3. \A v \in 0..(n + R - 1) : Valid(P[v]) =>
          \E k \in 1..Len(big) : big[k].level = 2 /\ vc[k] = v
    BY <1>11
  <2>4. \A k \in 1..Len(big) : big[k].level >= l
    BY <1>8
  <2>5. big \in Seq(Lines)
    BY <1>2
  <2> QED BY <1>7, <2>5, <2>4, <2>1, <2>2, <2>3 DEF Shows
<1> QED BY <1>12

LEMMA AddedShows ==
  ASSUME NEW l, NEW R, NEW i, NEW out, NEW P, NEW n, NEW va, NEW line, NEW sub, NEW Q, NEW vb, NEW big,
         LineAdded(l, R, i, out, P, n, va, line, sub, Q, vb, big)
  PROVE  \E vc : Shows(big, l, P, n + R, vc)
<1>1. l \in {0, 1} /\ R \in Nat \ {0} /\ i \in Entries /\ n \in Nat /\ line \in Lines
  BY DEF LineAdded
<1> QED BY <1>1, ShowsMore

(* A line of the last level.                                               *)
LEMMA ShowsLeaf ==
  ASSUME NEW out, NEW va, NEW P, NEW i \in Entries, Shows(out, 2, P, i, va),
         NEW line \in Lines, line.level = 2, line.index = i, line.pte = P[i], Valid(P[i]),
         NEW big, Joined(big, out, line, << >>)
  PROVE  \E vc : Shows(big, 2, P, i + 1, vc)
<1>1. PICK c \in Nat : c = Len(out) + 1
  <2>1. out \in Seq(Lines)
    BY DEF Shows
  <2> QED BY <2>1
<1>2. /\ out \in Seq(Lines) /\ va \in [1..Len(out) -> Nat] /\ i \in Nat
      /\ big \in Seq(Lines) /\ Len(big) = c
  BY <1>1 DEF Shows, Joined, Entries
<1>3. PICK vc : vc = [k \in 1..Len(big) |-> IF k < c THEN va[k] ELSE i]
  OBVIOUS
<1>4. /\ \A k \in 1..Len(out) : k \in 1..Len(big) /\ vc[k] = va[k] /\ big[k] = out[k] /\ va[k] \in Nat
      /\ c \in 1..Len(big) /\ vc[c] = i /\ big[c] = line
      /\ \A k \in 1..Len(big) : k \in 1..Len(out) \/ k = c
  <2>1. ASSUME NEW k \in 1..Len(out)
        PROVE  k \in 1..Len(big) /\ vc[k] = va[k] /\ big[k] = out[k] /\ va[k] \in Nat
    BY <1>1, <1>2, <1>3 DEF Joined
  <2>2. c \in 1..Len(big) /\ vc[c] = i /\ big[c] = line
    BY <1>1, <1>2, <1>3 DEF Joined
  <2>3. ASSUME NEW k \in 1..Len(big) PROVE k \in 1..Len(out) \/ k = c
    BY <1>1, <1>2
  <2> QED BY <2>1, <2>2, <2>3
<1>5. vc \in [1..Len(big) -> Nat]
  BY <1>2, <1>3, <1>4
<1>6. \A k \in 1..Len(big) : big[k].level >= 2
  BY <1>4 DEF Shows
<1>7. \A k \in 1..Len(out) : LineOK(out, 2, P, i, va, k)
  <2>1. \A k \in 1..Len(out) : out[k].level = 2
    <3>1. ASSUME NEW k \in 1..Len(out) PROVE out[k].level = 2
      <4>1. out[k] \in Lines /\ out[k].level >= 2
        BY <1>2 DEF Shows
      <4> QED BY <4>1 DEF Lines
    <3> QED BY <3>1
  <2> QED BY <2>1 DEF Shows
<1>8. ASSUME NEW k \in 1..Len(big) PROVE LineOK(big, 2, P, i + 1, vc, k)
  <2>1. CASE k \in 1..Len(out)
    <3>1. LineOK(out, 2, P, i, va, k) /\ vc[k] = va[k] /\ big[k] = out[k]
      BY <1>4, <1>7, <2>1
    <3>2. Address(big, k, 2, vc[k])
      BY <3>1 DEF LineOK, Address
    <3> QED BY <1>2, <3>1, <3>2 DEF LineOK
  <2>2. CASE k = c
    <3>1. vc[k] = i /\ big[k] = line
      BY <1>4, <2>2
    <3>2. Address(big, k, 2, vc[k])
      BY <3>1 DEF Address
    <3> QED BY <1>2, <3>1, <3>2 DEF LineOK
  <2> QED BY <1>4, <2>1, <2>2
<1>9. ASSUME NEW j \in 1..Len(big), NEW k \in 1..Len(big), j < k PROVE vc[j] < vc[k]
  <2>1. j \in 1..Len(out)
    BY <1>1, <1>2, <1>9
  <2>2. LineOK(out, 2, P, i, va, j) /\ vc[j] = va[j] /\ va[j] \in Nat
    BY <1>4, <1>7, <2>1
  <2>3. CASE k = c
    BY <1>2, <1>4, <2>2, <2>3 DEF LineOK
  <2>4. CASE k \in 1..Len(out)
    <3>1. out[j].level = 2 /\ out[k].level = 2
      <4>1. out[j] \in Lines /\ out[k] \in Lines /\ out[j].level >= 2 /\ out[k].level >= 2
        BY <1>2, <2>1, <2>4 DEF Shows
      <4> QED BY <4>1 DEF Lines
    <3>2. va[j] < va[k]
      BY <1>9, <2>1, <2>4, <3>1 DEF Shows
    <3> QED BY <1>4, <2>2, <2>4, <3>2
  <2> QED BY <1>4, <2>3, <2>4
<1>10. ASSUME NEW v \in 0..i, Valid(P[v])
       PROVE  \E k \in 1..Len(big) : big[k].level = 2 /\ vc[k] = v
  <2>1. CASE v = i
    BY <1>4, <2>1
  <2>2. CASE v # i
    <3>1. v \in 0..(i - 1)
      BY <1>2, <2>2
    <3>2. PICK k \in 1..Len(out) : out[k].level = 2 /\ va[k] = v
      BY <1>10, <3>1 DEF Shows
    <3> QED BY <1>4, <3>2
  <2> QED BY <2>1, <2>2
<1>11. Shows(big, 2, P, i + 1, vc)
  <2>1. \A k \in 1..Len(big) : big[k].level = 2 => LineOK(big, 2, P, i + 1, vc, k)
    BY <1>8
  <2>2. \A j, k \in 1..Len(big) : j < k /\ big[j].level = 2 /\ big[k].level = 2 => vc[j] < vc[k]
    BY <1>9
  <2>3. PICK n \in Nat : n = i + 1
    BY <1>2
  <2>4. \A v \in 0..(n - 1) : Valid(P[v]) =>
          \E k \in 1..Len(big) : big[k].level = 2 /\ vc[k] = v
    <3>1. \A v \in 0..(n - 1) : v \in 0..i
      BY <1>2, <2>3
    <3> QED BY <1>10, <3>1
  <2>5. big \in Seq(Lines)
    BY <1>2
  <2>6. \A k \in 1..Len(big) : big[k].level = 2 => LineOK(big, 2, P, n, vc, k)
    BY <2>1, <2>3
  <2>7. Shows(big, 2, P, n, vc)
    BY <1>5, <1>6, <2>5, <2>6, <2>2, <2>4 DEF Shows
  <2> QED BY <2>3, <2>7
<1> QED BY <1>11

(* The tables of the three levels.                                         *)
LEMMA Level2Shows ==
  ASSUME NEW w, NEW o, Own(w, o), NEW t \in Frames
  PROVE  \E va : Shows(PrintLevel2(w, t), 2, w.pt[t], Fan, va)
<1>1. PICK f : /\ f[0] = << >> /\ PrintLevel2(w, t) = f[Fan]
               /\ \A i \in 0..(Fan - 1) :
                    f[i + 1] = Printed(f[i], w.pt[t][i], PrintLine(2, i, w.pt[t][i]),
                                       PrintPage(w, w.pt[t][i].pa))
  <2>1. Fan \in Nat
    OBVIOUS
  <2> QED BY <2>1, PrintLevel2Run
<1> DEFINE S == {i \in Nat : i <= Fan => \E va : Shows(f[i], 2, w.pt[t], i, va)}
<1>2. 0 \in S
  BY <1>1, ShowsNothing
<1>3. ASSUME NEW i \in Nat, i \in S PROVE i + 1 \in S
  <2> SUFFICES ASSUME i + 1 <= Fan PROVE \E va : Shows(f[i + 1], 2, w.pt[t], i + 1, va)
    OBVIOUS
  <2>1. i \in Entries /\ i \in 0..(Fan - 1)
    BY DEF Entries
  <2>2. PICK va : Shows(f[i], 2, w.pt[t], i, va)
    BY <1>3
  <2>3. PICK P, e, line, out, big : /\ P = w.pt[t] /\ e = P[i] /\ line = PrintLine(2, i, e)
                                    /\ out = f[i] /\ big = f[i + 1]
    OBVIOUS
  <2>4. e \in PteType
    BY <2>1, <2>3, Entry
  <2>5. line \in Lines /\ line.level = 2 /\ line.index = i /\ line.pte = e
    BY <2>1, <2>3, <2>4 DEF PrintLine, Lines
  <2>6. out \in Seq(Lines) /\ Shows(out, 2, P, i, va)
    BY <2>2, <2>3 DEF Shows
  <2>7. big = Printed(out, e, line, << >>)
    BY <1>1, <2>1, <2>3 DEF PrintPage
  <2>8. CASE ~Valid(e)
    <3>1. big = out
      BY <2>7, <2>8 DEF Printed
    <3>2. \A v \in i..(i + 1 - 1) : ~Valid(P[v])
      BY <2>3, <2>8
    <3>3. Shows(out, 2, P, i + 1, va)
      BY <2>6, <3>2, ShowsNone
    <3> QED BY <2>3, <3>1, <3>3
  <2>9. CASE Valid(e)
    <3>1. big = Append(out, line) \/ big = Append(out, line) \o << >>
      BY <2>7, <2>9 DEF Printed
    <3>2. << >> \in Seq(Lines)
      OBVIOUS
    <3>3. Joined(big, out, line, << >>)
      BY <2>5, <2>6, <3>1, <3>2, Joins, JoinsOne
    <3>4. \E vc : Shows(big, 2, P, i + 1, vc)
      BY <2>1, <2>3, <2>5, <2>6, <2>9, <3>3, ShowsLeaf
    <3> QED BY <2>3, <3>4
  <2> QED BY <2>8, <2>9
<1> HIDE DEF S
<1>4. \A i \in Nat : i \in S
  BY <1>2, <1>3, SetInduction
<1>5. Fan \in S /\ Fan \in Nat /\ Fan <= Fan
  BY <1>4
<1> QED BY <1>1, <1>5 DEF S

(* The table tb prints g[i] below its entry i, where the leaves are those  *)
(* of P from i * R on.                                                     *)
Nested(tb, g, l, P, R, i) ==
  /\ tb[i] \in PteType
  /\ Valid(tb[i]) => /\ ~IsLeaf(tb[i])
                     /\ \E Q, vb : /\ Shows(g[i], l + 1, Q, R, vb)
                                   /\ \A y \in 0..(R - 1) : P[i * R + y] = Q[y]
  /\ ~Valid(tb[i]) => \A y \in 0..(R - 1) : ~Valid(P[i * R + y])

Prints(f, tb, g, l) ==
  /\ f[0] = << >>
  /\ \A i \in Entries : f[i + 1] = Printed(f[i], tb[i], PrintLine(l, i, tb[i]), g[i])

LEMMA TableShows ==
  ASSUME NEW l \in {0, 1}, NEW R \in Nat \ {0}, R = IF l = 1 THEN Fan ELSE Fan * Fan,
         NEW tb, NEW g, NEW P, NEW f, Prints(f, tb, g, l), \A i \in Entries : Nested(tb, g, l, P, R, i)
  PROVE  \E va : Shows(f[Fan], l, P, Fan * R, va)
<1> DEFINE S == {i \in Nat : i <= Fan => \E va : Shows(f[i], l, P, i * R, va)}
<1>1. 0 \in S
  <2>1. 0 * R = 0 /\ f[0] = << >>
    BY DEF Prints
  <2>2. \E va : Shows(f[0], l, P, 0 * R, va)
    BY <2>1, ShowsNothing
  <2> QED BY <2>2
<1>2. ASSUME NEW i \in Nat, i \in S PROVE i + 1 \in S
  <2> SUFFICES ASSUME i + 1 <= Fan PROVE \E va : Shows(f[i + 1], l, P, (i + 1) * R, va)
    OBVIOUS
  <2>1. i \in Entries
    BY DEF Entries
  <2>2. PICK va : Shows(f[i], l, P, i * R, va)
    BY <1>2
  <2>3. PICK e, line, out, big, sub, n, u :
          /\ e = tb[i] /\ line = PrintLine(l, i, e) /\ out = f[i] /\ big = f[i + 1] /\ sub = g[i]
          /\ n = i * R /\ u = (i + 1) * R
    OBVIOUS
  <2>4. n \in Nat /\ u = n + R /\ u \in Nat /\ n <= u
    <3>1. (i + 1) * R = i * R + R /\ i * R \in Nat
      OBVIOUS
    <3> QED BY <2>3, <3>1
  <2>5. Nested(tb, g, l, P, R, i) /\ e \in PteType
    BY <2>1, <2>3 DEF Nested
  <2>6. line \in Lines /\ line.level = l /\ line.index = i
    BY <2>1, <2>3, <2>5 DEF PrintLine, Lines
  <2>7. out \in Seq(Lines) /\ Shows(out, l, P, n, va)
    BY <2>2, <2>3 DEF Shows
  <2>8. big = Printed(out, e, line, sub)
    BY <2>1, <2>3 DEF Prints
  <2>9. CASE ~Valid(e)
    <3>1. big = out
      BY <2>8, <2>9 DEF Printed
    <3>2. ASSUME NEW v \in n..(u - 1) PROVE ~Valid(P[v])
      <4>1. PICK y : y = v - n
        OBVIOUS
      <4>2. y \in 0..(R - 1) /\ v = i * R + y
        BY <2>3, <2>4, <3>2, <4>1
      <4> QED BY <2>3, <2>5, <2>9, <4>2 DEF Nested
    <3>3. Shows(out, l, P, u, va)
      BY <2>4, <2>7, <3>2, ShowsNone
    <3> QED BY <2>3, <3>1, <3>3
  <2>10. CASE Valid(e)
    <3>1. ~IsLeaf(e)
      BY <2>3, <2>5, <2>10 DEF Nested
    <3>2. PICK Q, vb : Shows(sub, l + 1, Q, R, vb) /\ \A y \in 0..(R - 1) : P[n + y] = Q[y]
      BY <2>3, <2>5, <2>10 DEF Nested
    <3>3. sub \in Seq(Lines)
      BY <3>2 DEF Shows
    <3>4. big = Append(out, line) \o sub
      BY <2>8, <2>10, <3>1 DEF Printed
    <3>5. Joined(big, out, line, sub)
      BY <2>6, <2>7, <3>3, <3>4, Joins
    <3>6. LineAdded(l, R, i, out, P, n, va, line, sub, Q, vb, big)
      BY <2>1, <2>3, <2>4, <2>6, <2>7, <3>2, <3>5 DEF LineAdded
    <3>7. \E vc : Shows(big, l, P, n + R, vc)
      BY <3>6, AddedShows
    <3> QED BY <2>3, <2>4, <3>7
  <2> QED BY <2>9, <2>10
<1> HIDE DEF S
<1>3. \A i \in Nat : i \in S
  BY <1>1, <1>2, SetInduction
<1>4. Fan \in S /\ Fan \in Nat /\ Fan <= Fan
  BY <1>3
<1> QED BY <1>4 DEF S

(* The leaves below a table of level 1, and below a page table, in order.  *)
Leaves1(w, t) ==
  [v \in 0..(Fan * Fan - 1) |->
     LET e == w.pt[t][v \div Fan] IN IF Valid(e) THEN w.pt[e.pa][v % Fan] ELSE NoPte]
Leaves0(w, r) ==
  [v \in 0..(Fan * (Fan * Fan) - 1) |->
     LET e == w.pt[r][v \div (Fan * Fan)]
     IN IF Valid(e) THEN Leaves1(w, e.pa)[v % (Fan * Fan)] ELSE NoPte]

LEMMA Within ==
  ASSUME NEW i \in Entries, NEW R \in Nat \ {0}, NEW y \in 0..(R - 1)
  PROVE  /\ i * R + y \in 0..(Fan * R - 1)
         /\ (i * R + y) \div R = i /\ (i * R + y) % R = y
<1>1. i \in Nat /\ i <= Fan - 1
  BY DEF Entries
<1>2. i * R = R * i /\ R * i \in Nat
  BY <1>1
<1>3. (R * i + y) \div R = i /\ (R * i + y) % R = y
  BY <1>1, Quotient
<1>4. i * R <= (Fan - 1) * R /\ (Fan - 1) * R = Fan * R - R
  BY <1>1
<1> QED BY <1>1, <1>2, <1>3, <1>4

LEMMA Level1Shows ==
  ASSUME NEW w, NEW o, Own(w, o), NEW t \in Frames, o[t][1] = "mid"
  PROVE  \E va : Shows(PrintLevel1(w, t), 1, Leaves1(w, t), Fan * Fan, va)
<1>1. PICK f : /\ f[0] = << >> /\ PrintLevel1(w, t) = f[Fan]
               /\ \A i \in 0..(Fan - 1) :
                    f[i + 1] = Printed(f[i], w.pt[t][i], PrintLine(1, i, w.pt[t][i]),
                                       PrintLevel2(w, w.pt[t][i].pa))
  <2>1. Fan \in Nat
    OBVIOUS
  <2> QED BY <2>1, PrintLevel1Run
<1>2. PICK tb, g, P : /\ tb = w.pt[t] /\ g = [i \in Entries |-> PrintLevel2(w, tb[i].pa)]
                      /\ P = Leaves1(w, t)
  OBVIOUS
<1>3. Prints(f, tb, g, 1)
  BY <1>1, <1>2 DEF Prints, Entries
<1>4. ASSUME NEW i \in Entries PROVE Nested(tb, g, 1, P, Fan, i)
  <2>1. EntryOK(tb[i], o, t, i) /\ tb[i] \in PteType
    BY <1>2, Entry
  <2>2. ASSUME NEW y \in 0..(Fan - 1)
        PROVE  P[i * Fan + y] = IF Valid(tb[i]) THEN w.pt[tb[i].pa][y] ELSE NoPte
    <3>1. /\ i * Fan + y \in 0..(Fan * Fan - 1)
          /\ (i * Fan + y) \div Fan = i /\ (i * Fan + y) % Fan = y
      BY Within
    <3> QED BY <1>2, <3>1 DEF Leaves1
  <2>3. CASE ~Valid(tb[i])
    <3>1. \A y \in 0..(Fan - 1) : ~Valid(P[i * Fan + y])
      BY <2>2, <2>3 DEF Valid, NoPte
    <3> QED BY <2>1, <2>3, <3>1 DEF Nested
  <2>4. CASE Valid(tb[i])
    <3>1. tb[i].perm = {} /\ tb[i].pa \in Frames
      BY <2>1, <2>4 DEF EntryOK, Valid
    <3>2. PICK vb : Shows(g[i], 2, w.pt[tb[i].pa], Fan, vb)
      BY <1>2, <3>1, Level2Shows
    <3>3. ~IsLeaf(tb[i])
      BY <3>1 DEF IsLeaf
    <3>4. Shows(g[i], 1 + 1, w.pt[tb[i].pa], Fan, vb)
      BY <3>2
    <3>5. \A y \in 0..(Fan - 1) : P[i * Fan + y] = w.pt[tb[i].pa][y]
      BY <2>2, <2>4
    <3> QED BY <2>1, <2>4, <3>3, <3>4, <3>5 DEF Nested
  <2> QED BY <2>3, <2>4
<1>5. \E va : Shows(f[Fan], 1, P, Fan * Fan, va)
  <2>1. Fan \in Nat \ {0} /\ 1 \in {0, 1} /\ Fan = IF 1 = 1 THEN Fan ELSE Fan * Fan
    OBVIOUS
  <2> QED BY <1>3, <1>4, <2>1, TableShows
<1> QED BY <1>1, <1>2, <1>5

LEMMA VmprintShows ==
  ASSUME NEW w, NEW o, Own(w, o), NEW r, Root_(o, r)
  PROVE  \E va : Shows(Vmprint(w, r), 0, Leaves0(w, r), Fan * (Fan * Fan), va)
<1>0. r \in Frames /\ o[r][1] = "root"
  BY DEF Root_
<1>1. PICK f : /\ f[0] = << >> /\ Vmprint(w, r) = f[Fan]
               /\ \A i \in 0..(Fan - 1) :
                    f[i + 1] = Printed(f[i], w.pt[r][i], PrintLine(0, i, w.pt[r][i]),
                                       PrintLevel1(w, w.pt[r][i].pa))
  <2>1. Fan \in Nat
    OBVIOUS
  <2> QED BY <2>1, VmprintRun
<1>2. PICK tb, g, P, R : /\ tb = w.pt[r] /\ g = [i \in Entries |-> PrintLevel1(w, tb[i].pa)]
                         /\ P = Leaves0(w, r) /\ R = Fan * Fan
  OBVIOUS
<1>3. Prints(f, tb, g, 0)
  BY <1>1, <1>2 DEF Prints, Entries
<1>4. R \in Nat \ {0}
  BY <1>2
<1>5. ASSUME NEW i \in Entries PROVE Nested(tb, g, 0, P, R, i)
  <2>1. EntryOK(tb[i], o, r, i) /\ tb[i] \in PteType
    BY <1>0, <1>2, Entry
  <2>2. ASSUME NEW y \in 0..(R - 1)
        PROVE  P[i * R + y] = IF Valid(tb[i]) THEN Leaves1(w, tb[i].pa)[y] ELSE NoPte
    <3>1. /\ i * R + y \in 0..(Fan * R - 1)
          /\ (i * R + y) \div R = i /\ (i * R + y) % R = y
      BY <1>4, Within
    <3> QED BY <1>2, <3>1 DEF Leaves0
  <2>3. CASE ~Valid(tb[i])
    <3>1. \A y \in 0..(R - 1) : ~Valid(P[i * R + y])
      BY <2>2, <2>3 DEF Valid, NoPte
    <3> QED BY <2>1, <2>3, <3>1 DEF Nested
  <2>4. CASE Valid(tb[i])
    <3>1. tb[i].perm = {} /\ tb[i].pa \in Frames /\ o[tb[i].pa] = <<"mid", r, i>>
      BY <1>0, <2>1, <2>4 DEF EntryOK, Valid
    <3>2. PICK vb : Shows(g[i], 1, Leaves1(w, tb[i].pa), R, vb)
      <4>1. o[tb[i].pa][1] = "mid"
        BY <3>1
      <4> QED BY <1>2, <3>1, <4>1, Level1Shows
    <3>3. ~IsLeaf(tb[i])
      BY <3>1 DEF IsLeaf
    <3>4. Shows(g[i], 0 + 1, Leaves1(w, tb[i].pa), R, vb)
      BY <3>2
    <3>5. \A y \in 0..(R - 1) : P[i * R + y] = Leaves1(w, tb[i].pa)[y]
      BY <2>2, <2>4
    <3> QED BY <2>1, <2>4, <3>3, <3>4, <3>5 DEF Nested
  <2> QED BY <2>3, <2>4
<1>6. \E va : Shows(f[Fan], 0, P, Fan * R, va)
  <2>1. 0 \in {0, 1} /\ R = IF 0 = 1 THEN Fan ELSE Fan * Fan
    BY <1>2
  <2> QED BY <1>3, <1>4, <1>5, <2>1, TableShows
<1> QED BY <1>1, <1>2, <1>6

LEMMA LeavesAre ==
  ASSUME NEW w, NEW o, Own(w, o), NEW r, Root_(o, r), NEW v \in VA
  PROVE  v \in 0..(Fan * (Fan * Fan) - 1) /\ Leaves0(w, r)[v] = PteAt(w, r, v)
<1>0. PICK a \in Entries, b \in Entries, c \in Entries, R \in Nat \ {0} :
        /\ a = PX(2, v) /\ b = PX(1, v) /\ c = PX(0, v) /\ R = Fan * Fan
        /\ v = (a * Fan + b) * Fan + c
  BY Indices
<1>y. PICK y : y = b * Fan + c
  OBVIOUS
<1>1. /\ a = PX(2, v) /\ b = PX(1, v) /\ c = PX(0, v) /\ R = Fan * Fan /\ y = b * Fan + c
      /\ v = (a * Fan + b) * Fan + c
  BY <1>0, <1>y
<1>2. v = a * R + y /\ y \in Nat
  <2>1. a \in Nat /\ b \in Nat /\ c \in Nat
    BY DEF Entries
  <2>2. a * (Fan * Fan) = (a * Fan) * Fan
    BY <2>1, Products
  <2>3. (a * Fan + b) * Fan = (a * Fan) * Fan + b * Fan /\ (a * Fan) * Fan \in Nat /\ b * Fan \in Nat
    BY <2>1
  <2> QED BY <1>1, <2>1, <2>2, <2>3
<1>3. c \in 0..(Fan - 1) /\ Fan \in Nat \ {0}
  BY DEF Entries
<1>4. y \in 0..(R - 1) /\ y \div Fan = b /\ y % Fan = c
  <2>1. /\ b * Fan + c \in 0..(Fan * Fan - 1)
        /\ (b * Fan + c) \div Fan = b /\ (b * Fan + c) % Fan = c
    BY ZenonT(40), <1>3, Within
  <2> QED BY Zenon, <1>1, <2>1
<1>5. v \in 0..(Fan * R - 1) /\ v \div R = a /\ v % R = y
  <2>1. a * R + y \in 0..(Fan * R - 1) /\ (a * R + y) \div R = a /\ (a * R + y) % R = y
    BY ZenonT(40), <1>4, Within
  <2> QED BY Zenon, <1>2, <2>1
<1>6. PICK d : d = w.pt[r][a].pa
  OBVIOUS
<1>7. Leaves0(w, r)[v] = IF d # 0 THEN Leaves1(w, d)[y] ELSE NoPte
  BY <1>1, <1>5, <1>6 DEF Leaves0, Valid
<1>8. Leaves1(w, d)[y] = IF w.pt[d][b].pa # 0 THEN w.pt[w.pt[d][b].pa][c] ELSE NoPte
  BY <1>1, <1>4 DEF Leaves1, Valid
<1>9. MidOf(w, r, v) = d /\ BotOf(w, r, v) = IF d = 0 THEN 0 ELSE w.pt[d][b].pa
  BY <1>1, <1>6 DEF MidOf, BotOf
<1>10. LeafOf(w, r, v) = Leaves0(w, r)[v]
  BY <1>1, <1>7, <1>8, <1>9 DEF LeafOf
<1> QED BY <1>1, <1>5, <1>10, WalkFinds

LEMMA NoLeaves ==
  ASSUME NEW w, NEW o, Own(w, o), NEW r, Root_(o, r),
         NEW v \in 0..(Fan * (Fan * Fan) - 1), Valid(Leaves0(w, r)[v])
  PROVE  v \in VA
<1>0. PICK R \in Nat \ {0} : R = Fan * Fan
  OBVIOUS
<1>i. PICK i : i = v \div R
  OBVIOUS
<1>1. R = Fan * Fan /\ i = v \div R
  BY <1>0, <1>i
<1>2. v \in Nat /\ i \in Nat /\ v % R \in 0..(R - 1) /\ v = R * i + (v % R) /\ v < Fan * R
  <2>1. v \in Nat /\ v \in 0..(Fan * R - 1) /\ Fan * R \in Nat
    BY <1>1
  <2>2. v \div R \in Nat /\ v % R \in 0..(R - 1) /\ v = R * (v \div R) + (v % R)
    BY <2>1, Division
  <2>3. v < Fan * R
    BY <2>1
  <2> QED BY <1>1, <2>1, <2>2, <2>3
<1>3. i \in Entries
  <2>1. CASE i >= Fan
    <3>1. R * i >= R * Fan /\ R * Fan = Fan * R
      BY <1>1, <1>2, <2>1
    <3> QED BY <1>2, <3>1
  <2>2. CASE i < Fan
    BY <1>2, <2>2 DEF Entries
  <2> QED BY <1>2, <2>1, <2>2
<1>4. w.pt[r][i].pa # 0
  BY <1>1 DEF Leaves0, Valid, NoPte
<1>5. i < Half
  <2>1. EntryOK(w.pt[r][i], o, r, i) /\ o[r][1] = "root"
    BY <1>3, Entry DEF Root_
  <2> QED BY <1>4, <2>1 DEF EntryOK
<1>6. v < Half * R
  <2>1. Half \in Nat /\ i <= Half - 1
    BY <1>2, <1>5, Layout
  <2>2. R * i <= R * (Half - 1) /\ R * (Half - 1) = R * Half - R /\ R * Half = Half * R
    BY <1>2, <2>1
  <2> QED BY <1>2, <2>1, <2>2
<1> QED BY <1>1, <1>2, <1>6, Layout DEF VA

LEMMA IndexIs ==
  ASSUME NEW out \in Seq(Lines), NEW k \in 1..Len(out), NEW l, NEW x, Under(out, k, l, x)
  PROVE  out[Max({j \in 1..k : out[j].level = l})].index = x
<1>1. PICK j \in 1..k : /\ out[j].level = l /\ out[j].index = x
                        /\ \A i \in (j + 1)..k : out[i].level # l
  BY DEF Under
<1>2. PICK S : S = {i \in 1..k : out[i].level = l}
  OBVIOUS
<1>3. j \in S /\ S \subseteq Nat
  BY <1>1, <1>2
<1>4. ASSUME NEW i \in S PROVE j >= i
  <2>1. i \in 1..k /\ out[i].level = l
    BY <1>2
  <2>2. ~(i \in (j + 1)..k)
    BY <1>1, <2>1
  <2> QED BY <1>1, <2>1, <2>2
<1>5. \A i \in S : (\A y \in S : i >= y) => i = j
  BY <1>3, <1>4
<1>6. Max(S) = j
  BY <1>3, <1>4, <1>5 DEF Max
<1> QED BY <1>1, <1>2, <1>6

(* What VmprintShowsMappings says of one page table.                       *)
ShowsAll(w, out, r) ==
  LET Index(k, level) == out[Max({j \in 1..k : out[j].level = level})].index
      VaOf(k) == (Index(k, 0) * Fan + Index(k, 1)) * Fan + out[k].index
      leaves == {k \in DOMAIN out : out[k].level = 2}
  IN /\ {<<VaOf(k), out[k].pte>> : k \in leaves} =
          {<<v, PteAt(w, r, v)>> : v \in {v \in 0..(MAXVA - 1) : Valid(PteAt(w, r, v))}}
     /\ \A j, k \in leaves : j < k => VaOf(j) < VaOf(k)

LEMMA AllShown ==
  ASSUME NEW w, NEW o, Own(w, o), NEW r, Root_(o, r), NEW out, NEW P, NEW N, NEW va,
         P = Leaves0(w, r), N = Fan * (Fan * Fan), Shows(out, 0, P, N, va)
  PROVE  ShowsAll(w, out, r)
<1> DEFINE Index(k, level) == out[Max({j \in 1..k : out[j].level = level})].index
           VaOf(k) == (Index(k, 0) * Fan + Index(k, 1)) * Fan + out[k].index
           leaves == {k \in DOMAIN out : out[k].level = 2}
<1>1. out \in Seq(Lines) /\ DOMAIN out = 1..Len(out)
  BY DEF Shows
<1>2. ASSUME NEW k \in leaves
      PROVE  VaOf(k) = va[k] /\ va[k] \in VA /\ out[k].pte = PteAt(w, r, va[k]) /\ Valid(out[k].pte)
  <2>1. k \in 1..Len(out) /\ LineOK(out, 0, P, N, va, k)
    BY <1>1 DEF Shows
  <2>2. PICK a \in Entries, b \in Entries : /\ Under(out, k, 0, a) /\ Under(out, k, 1, b)
                                            /\ va[k] = (a * Fan + b) * Fan + out[k].index
    BY <2>1 DEF LineOK, Address
  <2>3. Index(k, 0) = a /\ Index(k, 1) = b
    BY <1>1, <2>1, <2>2, IndexIs
  <2>4. va[k] \in 0..(N - 1) /\ Valid(P[va[k]]) /\ out[k].pte = P[va[k]]
    BY <2>1 DEF LineOK
  <2>5. va[k] \in VA
    BY <2>4, NoLeaves
  <2>6. P[va[k]] = PteAt(w, r, va[k])
    BY <2>5, LeavesAre
  <2> QED BY <2>2, <2>3, <2>4, <2>5, <2>6
<1>3. ASSUME NEW v \in VA, Valid(PteAt(w, r, v))
      PROVE  \E k \in leaves : va[k] = v
  <2>1. v \in 0..(N - 1) /\ Valid(P[v])
    BY <1>3, LeavesAre
  <2>2. PICK k \in 1..Len(out) : out[k].level = 2 /\ va[k] = v
    BY <2>1 DEF Shows
  <2> QED BY <1>1, <2>2
<1>4. \A j, k \in leaves : j < k => va[j] < va[k]
  BY <1>1 DEF Shows
<1> HIDE DEF VaOf, leaves
<1>5. \A j, k \in leaves : j < k => VaOf(j) < VaOf(k)
  BY <1>2, <1>4
<1>6. {<<VaOf(k), out[k].pte>> : k \in leaves} =
        {<<v, PteAt(w, r, v)>> : v \in {v \in VA : Valid(PteAt(w, r, v))}}
  BY <1>2, <1>3
<1> QED BY <1>5, <1>6 DEF VaOf, leaves, VA, ShowsAll

(* vmprint shows each mapping of a process once, in the order of addresses. *)
THEOREM MappingsAreShown == Spec => []VmprintShowsMappings
<1>1. IInv => VmprintShowsMappings
  <2> SUFFICES ASSUME IInv, NEW p \in Procs, InUse(p)
               PROVE  ShowsAll(m, Vmprint(m, Root(p)), Root(p))
    BY DEF VmprintShowsMappings, ShowsAll
  <2>1. PICK o : Mem(m, o, hist)
    BY DEF IInv, Kept
  <2>2. PICK r : r = Root(p)
    OBVIOUS
  <2>3. Own(m, o) /\ Root_(o, r)
    <3>1. Process(m, o, p, m.proc[p], hist[p])
      BY <2>1, InUseIs DEF InUse
    <3>2. r = m.proc[p].pagetable
      BY <2>2 DEF Root
    <3> QED BY <2>1, <3>1, <3>2 DEF Process, Owns, Root_, Mem
  <2>4. PICK va : Shows(Vmprint(m, r), 0, Leaves0(m, r), Fan * (Fan * Fan), va)
    BY <2>3, VmprintShows
  <2>5. ShowsAll(m, Vmprint(m, r), r)
    BY <2>3, <2>4, AllShown
  <2> QED BY <2>2, <2>5
<1>2. Spec => []IInv
  BY MemoryKept
<1> QED BY <1>1, <1>2, PTL
=============================================================================
