----------------------------- MODULE ProcProofs -----------------------------
(***************************************************************************)
(* Proofs about Proc, for any number of slots and harts, any wrap of the   *)
(* clock and any arguments of sys_sleep; nobody calls kill(0), which marks *)
(* an unused slot, or kill(1), which ends init.                            *)
(***************************************************************************)
EXTENDS Proc, FiniteSetTheorems, WellFoundedInduction, TLAPS

Alive == {"SLEEPING", "RUNNABLE", "RUNNING"}
ForkPcs == {"forking", "fork_parent", "fork_run"}
ExitPcs == {"reparent", "wake_init", "wake_parent", "zombie"}
SleepPcs == {"sleep", "ticks_sleep", "sleep_again"}

ThreadType ==
  [pc : Pcs, i : 0..NPROC, j : 0..NPROC,
   arg : Pids \cup Procs \cup SleepFor \cup KillPids,
   t0 : 0..(Wrap - 1), spin : BOOLEAN]

(* Where wait_lock is held.                                                *)
HoldsWaitLock(p) == th[p].pc \in ExitPcs \cup {"wait_scan", "wait_sleep"}

AsleepInWait(p) == state[p] = "SLEEPING" /\ chan[p] = p

(* What a thread relies on where it is: about its own state and locks, ... *)
SelfOK(p) ==
  /\ ~At(p, "user") => state[p] \in Alive
  /\ state[p] = "SLEEPING" =>
       \/ At(p, "wait") /\ chan[p] = p
       \/ At(p, "sleep_again") /\ chan[p] = Ticks
  /\ HoldsWaitLock(p) <=> wait_lock = p
  /\ At(p, "ticks_sleep") <=> tickslock = p
  /\ th[p].pc \in {"wake_init", "wake_parent"} => th[p].j < NPROC
  /\ th[p].pc \in SleepPcs => th[p].arg \in SleepFor
  /\ At(p, "ticks_sleep") => Elapsed(th[p].t0) < th[p].arg
  /\ At(p, "kill") => th[p].arg \notin {0, 1}

(* ... about the slot that fork() has taken, ...                           *)
ForkOK(p) ==
  /\ th[p].pc \in ForkPcs => th[p].arg \in Procs /\ state[th[p].arg] = "USED"
  /\ At(p, "fork_run") => parent[th[p].arg] = p

(* ... about the children that wait() has looked at or exit() has given    *)
(* away, and about the parent that exit() wakes.                           *)
FamilyOK(p) ==
  /\ th[p].pc \in {"wake_parent", "zombie"} => Children(p) = {}
  /\ At(p, "wait_scan") => \A c \in Children(p) : c < th[p].i => state[c] # "ZOMBIE"
  /\ At(p, "wait_sleep") => \A c \in Children(p) : state[c] # "ZOMBIE"
  /\ At(p, "wake_parent") =>
       \A q \in Procs : parent[p] = q /\ q < th[p].j => ~AsleepInWait(q)
  /\ At(p, "zombie") => \A q \in Procs : parent[p] = q => ~AsleepInWait(q)

SlotOK(c) ==
  /\ state[c] = "UNUSED" => pid[c] = 0 /\ ~killed[c]
  /\ c # initproc => pid[c] # 1
  /\ parent[c] # None => state[parent[c]] \in Alive
  /\ c # initproc /\ state[c] \notin {"UNUSED", "USED"} => parent[c] # None

InitLives ==
  /\ state[initproc] \in Alive /\ ~killed[initproc] /\ pid[initproc] = 1
  /\ th[initproc].pc \notin ExitPcs \cup {"exit"}

ChildrenDiffer ==
  \A p, q \in Procs :
    p # q /\ th[p].pc \in ForkPcs /\ th[q].pc \in ForkPcs => th[p].arg # th[q].arg

ClockOK ==
  /\ clk.on <=> tickslock = Ticks
  /\ clk.over # None => state[clk.over] = "RUNNING"

Core ==
  /\ TypeOK
  /\ \A p \in Procs : SelfOK(p)
  /\ \A p \in Procs : ForkOK(p)
  /\ \A p \in Procs : FamilyOK(p)
  /\ \A c \in Procs : SlotOK(c)
  /\ InitLives
  /\ ChildrenDiffer

IInv == Core /\ ClockOK /\ ZombieIsSeen /\ TickIsSeen

-----------------------------------------------------------------------------
(* Pids: there is one for the slot that no kill in progress asks for.      *)

(* Adding multiples of the divisor leaves the remainder alone.             *)
LEMMA SmallMultiple ==
  ASSUME NEW d \in Nat \ {0}, NEW m \in Int, d * m < d, -d < d * m
  PROVE  m = 0
<1>1. ASSUME m >= 1 PROVE FALSE
  <2>1. d * (m - 1) >= 0
    BY <1>1
  <2>2. d * (m - 1) = d * m - d
    OBVIOUS
  <2> QED BY <2>1, <2>2
<1>2. ASSUME m <= -1 PROVE FALSE
  <2>1. d * (-1 - m) >= 0
    BY <1>2
  <2>2. d * (-1 - m) = -d - d * m
    OBVIOUS
  <2> QED BY <2>1, <2>2
<1> QED BY <1>1, <1>2

LEMMA RemainderOfSum ==
  ASSUME NEW d \in Nat \ {0}, NEW a \in Nat, NEW k \in Nat
  PROVE  (a + k * d) % d = a % d
<1> DEFINE x == a + k * d
<1>1. x \in Nat /\ k * d \in Nat
  OBVIOUS
<1>2. /\ a % d \in 0..(d - 1) /\ a \div d \in Int /\ a = d * (a \div d) + (a % d)
      /\ x % d \in 0..(d - 1) /\ x \div d \in Int /\ x = d * (x \div d) + (x % d)
  BY <1>1
<1>3. PICK r \in 0..(d - 1), q \in Int : r = a % d /\ q = a \div d
  BY <1>2
<1>4. PICK s \in 0..(d - 1), t \in Int : s = x % d /\ t = x \div d
  BY <1>2
<1>5. a = d * q + r /\ a + k * d = d * t + s
  BY <1>2, <1>3, <1>4
<1> HIDE DEF x
<1>6. d * (t - q - k) = r - s
  <2>1. d * (t - q - k) = d * t - d * q - k * d
    OBVIOUS
  <2>2. d * t \in Int /\ d * q \in Int /\ k * d \in Int
    OBVIOUS
  <2> QED BY <1>5, <2>1, <2>2
<1>7. t - q - k = 0
  <2>1. -d < r - s /\ r - s < d
    OBVIOUS
  <2> QED BY <1>6, <2>1, SmallMultiple
<1>8. r = s
  BY <1>6, <1>7
<1> QED BY <1>3, <1>4, <1>8 DEF x

(* The least of a set of natural numbers.                                  *)
LEMMA LeastOfNaturals ==
  ASSUME NEW S \in SUBSET Nat, S # {}
  PROVE  \E n \in S : \A m \in S : n <= m
<1>1. PICK n \in S : \A m \in S : ~(<<m, n>> \in OpToRel(<, Nat))
  BY WFMin, NatLessThanWellFounded
<1>2. ASSUME NEW m \in S PROVE n <= m
  <2>1. m \in Nat /\ n \in Nat /\ <<m, n>> \notin OpToRel(<, Nat)
    BY <1>1
  <2>2. <<m, n>> \in Nat \X Nat /\ <<m, n>>[1] = m /\ <<m, n>>[2] = n
    BY <2>1
  <2>3. ~(m < n)
    BY <2>1, <2>2 DEF OpToRel
  <2>4. m \in Nat /\ n \in Nat
    OBVIOUS
  <2> QED BY <2>3, <2>4
<1> QED BY <1>2

LEMMA ProcsFacts ==
  /\ NPROC \in Nat \ {0} /\ Procs \subseteq Nat /\ initproc \in Procs
  /\ 0 \in Procs /\ None \notin Procs /\ Ticks \notin Procs /\ None # Ticks
  /\ 1 \in Pids /\ Pids \subseteq Nat \ {0}
  /\ IsFiniteSet(Procs) /\ Cardinality(Procs) = NPROC
<1>1. NPROC \in Nat \ {0}
  BY SlotsAssumption
<1>2. 1 <= NPROC * NPROC
  <2>1. PICK n \in Nat : NPROC = n + 1
    BY <1>1
  <2>2. NPROC * NPROC = n * n + 2 * n + 1
    BY <2>1
  <2> QED BY <2>2
<1>3. IsFiniteSet(Procs) /\ Cardinality(Procs) = NPROC
  BY <1>1, FS_Interval DEF Procs
<1>4. NPROC * NPROC \in Int
  BY <1>1
<1> QED BY <1>1, <1>2, <1>3, <1>4 DEF Procs, initproc, None, Ticks, Pids

LEMMA FreshPidFacts ==
  ASSUME NEW p \in Procs, At(p, "alloc"), NEW s \in Procs, s # initproc
  PROVE  FreshPid(s) \in Pids /\ FreshPid(s) # 1
<1> USE ProcsFacts
<1> DEFINE KillsGoing == {r \in Procs : At(r, "kill")}
           going == {th[q].arg : q \in KillsGoing}
           fresh == {n \in Pids \ going : n % NPROC = (s + 1) % NPROC}
           Of(k) == s + 1 + k * NPROC
<1>1. ASSUME NEW k \in 0..(NPROC - 1) PROVE Of(k) \in Pids /\ Of(k) % NPROC = (s + 1) % NPROC
  <2>1. s + 1 \in Nat /\ s + 1 <= NPROC /\ s + 1 >= 1 /\ k \in Nat
    BY DEF Procs
  <2>2. k * NPROC \in Nat /\ k * NPROC <= NPROC * NPROC - NPROC
    <3>1. (NPROC - 1 - k) * NPROC >= 0
      OBVIOUS
    <3>2. (NPROC - 1 - k) * NPROC = NPROC * NPROC - NPROC - k * NPROC
      OBVIOUS
    <3>3. k * NPROC \in Nat /\ NPROC * NPROC \in Nat
      OBVIOUS
    <3> QED BY <3>1, <3>2, <3>3
  <2>3. Of(k) \in Pids
    BY <2>1, <2>2 DEF Pids
  <2> QED BY <2>1, <2>3, RemainderOfSum
<1>2. fresh # {}
  <2> SUFFICES ASSUME fresh = {} PROVE FALSE
    OBVIOUS
  <2>1. \A k \in 0..(NPROC - 1) : \E q \in KillsGoing : th[q].arg = Of(k)
    BY <1>1
  <2> DEFINE f == [k \in 0..(NPROC - 1) |-> CHOOSE q \in KillsGoing : th[q].arg = Of(k)]
  <2>2. \A k \in 0..(NPROC - 1) : f[k] \in KillsGoing /\ th[f[k]].arg = Of(k)
    BY <2>1
  <2>3. f \in [0..(NPROC - 1) -> Procs \ {p}]
    <3>1. KillsGoing \subseteq Procs \ {p}
      BY DEF At
    <3> HIDE DEF KillsGoing
    <3>2. \A k \in 0..(NPROC - 1) : f[k] \in Procs \ {p}
      BY <2>2, <3>1
    <3> QED BY <3>2
  <2>4. IsFiniteSet(Procs \ {p}) /\ Cardinality(Procs \ {p}) = NPROC - 1
    BY FS_RemoveElement
  <2>5. IsFiniteSet(0..(NPROC - 1)) /\ Cardinality(0..(NPROC - 1)) = NPROC
    <3>1. 0 \in Int /\ NPROC - 1 \in Int /\ ~(0 > NPROC - 1) /\ NPROC - 1 - 0 + 1 = NPROC
      OBVIOUS
    <3> QED BY <3>1, FS_Interval
  <2> HIDE DEF f, KillsGoing
  <2>6. PICK k, l \in 0..(NPROC - 1) : k # l /\ f[k] = f[l]
    <3>1. Cardinality(Procs \ {p}) < Cardinality(0..(NPROC - 1))
      BY <2>4, <2>5
    <3> QED BY <2>3, <2>4, <2>5, <3>1, FS_PigeonHole
  <2>7. s + 1 + k * NPROC = s + 1 + l * NPROC
    BY <2>2, <2>6
  <2>8. (k - l) * NPROC = 0
    <3>1. k * NPROC \in Int /\ l * NPROC \in Int /\ s \in Int
      OBVIOUS
    <3>2. (k - l) * NPROC = k * NPROC - l * NPROC
      OBVIOUS
    <3> QED BY <2>7, <3>1, <3>2
  <2> QED BY <2>6, <2>8
<1>3. PICK n \in fresh : \A m \in fresh : n <= m
  <2>1. fresh \in SUBSET Nat
    OBVIOUS
  <2> HIDE DEF fresh
  <2> QED BY <1>2, <2>1, LeastOfNaturals
<1>4. FreshPid(s) \in fresh
  BY <1>3 DEF FreshPid
<1>5. 1 % NPROC # (s + 1) % NPROC
  <2>1. s \in 1..(NPROC - 1) /\ NPROC > 1
    BY DEF Procs, initproc
  <2>2. 1 % NPROC = 1
    BY <2>1
  <2>3. CASE s + 1 < NPROC
    BY <2>1, <2>2, <2>3
  <2>4. CASE s + 1 = NPROC
    <3>1. NPROC % NPROC = 0
      BY <2>1
    <3> QED BY <2>2, <2>4, <3>1
  <2> QED BY <2>1, <2>3, <2>4
<1> QED BY <1>4, <1>5

-----------------------------------------------------------------------------
(* Steps that make nobody sleep, create no process and end none.           *)

(* What such a step does to the table: it wakes, marks and runs processes. *)
QuietTable ==
  /\ parent' = parent /\ pid' = pid
  /\ \A q \in Procs :
       \/ state'[q] = state[q] /\ chan'[q] = chan[q]
       \/ state[q] \in Alive /\ state'[q] \in {"RUNNABLE", "RUNNING"}
  /\ \A q \in Procs : killed'[q] => killed[q] \/ (state[q] # "UNUSED" /\ q # initproc)
  /\ ticks' = ticks \/ tickslock = None

(* A thread that the step leaves where it is, with its locks.              *)
Stays(q) ==
  /\ th'[q] = th[q]
  /\ wait_lock' = q <=> wait_lock = q
  /\ tickslock' = q <=> tickslock = q

LEMMA QuietSlots ==
  ASSUME Core, TypeOK', QuietTable
  PROVE  /\ \A c \in Procs : SlotOK(c)'
         /\ state'[initproc] \in Alive /\ ~killed'[initproc] /\ pid'[initproc] = 1
         /\ \A q \in Procs : AsleepInWait(q)' => AsleepInWait(q)
         /\ \A q \in Procs : state[q] \in Alive => state'[q] \in Alive
         /\ \A q \in Procs : state'[q] = "ZOMBIE" => state[q] = "ZOMBIE"
         /\ \A q \in Procs : Children(q)' = Children(q)
<1> USE ProcsFacts
<1>1. \A q \in Procs : state[q] \in Alive => state'[q] \in Alive
  BY DEF QuietTable, Alive
<1>2. \A q \in Procs : AsleepInWait(q)' => AsleepInWait(q)
  BY DEF QuietTable, AsleepInWait
<1>3. \A q \in Procs : state'[q] = "ZOMBIE" => state[q] = "ZOMBIE"
  BY DEF QuietTable
<1>4. ASSUME NEW c \in Procs PROVE SlotOK(c)'
  <2>1. SlotOK(c) /\ parent'[c] = parent[c] /\ pid'[c] = pid[c]
    BY DEF Core, QuietTable
  <2>2. state'[c] = "UNUSED" => state[c] = "UNUSED"
    BY DEF QuietTable
  <2>3. state'[c] \notin {"UNUSED", "USED"} => state[c] \notin {"UNUSED", "USED"}
    BY DEF QuietTable, Alive
  <2>4. state[c] = "UNUSED" /\ killed'[c] => killed[c]
    BY DEF QuietTable
  <2>5. parent[c] # None => parent[c] \in Procs
    BY DEF Core, TypeOK
  <2> QED BY <1>1, <2>1, <2>2, <2>3, <2>4, <2>5 DEF SlotOK
<1>5. state'[initproc] \in Alive /\ ~killed'[initproc] /\ pid'[initproc] = 1
  <2>1. ~killed'[initproc]
    BY DEF Core, InitLives, QuietTable
  <2> QED BY <1>1, <2>1 DEF Core, InitLives, QuietTable
<1>6. \A q \in Procs : Children(q)' = Children(q)
  BY DEF QuietTable, Children
<1> QED BY <1>1, <1>2, <1>3, <1>4, <1>5, <1>6

LEMMA QuietThread ==
  ASSUME Core, TypeOK', QuietTable, NEW q \in Procs, Stays(q)
  PROVE  SelfOK(q)' /\ ForkOK(q)' /\ FamilyOK(q)'
<1> USE ProcsFacts
<1>1. th'[q] = th[q] /\ SelfOK(q) /\ ForkOK(q) /\ FamilyOK(q)
  BY DEF Core, Stays
<1>2. SelfOK(q)'
  <2>1. state[q] \in Alive => state'[q] \in Alive
    BY QuietSlots
  <2>2. state'[q] = "SLEEPING" => state[q] = "SLEEPING" /\ chan'[q] = chan[q]
    BY DEF QuietTable
  <2>3. At(q, "ticks_sleep") => Elapsed(th[q].t0)' = Elapsed(th[q].t0)
    <3>1. At(q, "ticks_sleep") => ticks' = ticks
      BY <1>1 DEF QuietTable, SelfOK
    <3> QED BY <1>1, <3>1 DEF Elapsed
  <2>4. At(q, "ticks_sleep")' => Elapsed(th[q].t0)' < th'[q].arg
    BY <1>1, <2>3 DEF SelfOK, At
  <2>5. (~At(q, "user") => state[q] \in Alive)'
    BY <1>1, <2>1 DEF SelfOK, At
  <2>6. (state[q] = "SLEEPING" => \/ At(q, "wait") /\ chan[q] = q
                                  \/ At(q, "sleep_again") /\ chan[q] = Ticks)'
    BY <1>1, <2>2 DEF SelfOK, At
  <2>7. (HoldsWaitLock(q) <=> wait_lock = q)' /\ (At(q, "ticks_sleep") <=> tickslock = q)'
    BY <1>1 DEF SelfOK, HoldsWaitLock, At, Stays
  <2> QED BY <1>1, <2>4, <2>5, <2>6, <2>7 DEF SelfOK, At
<1>3. ForkOK(q)'
  <2>1. \A c \in Procs : state[c] = "USED" => state'[c] = "USED"
    BY DEF QuietTable, Alive
  <2>2. parent' = parent
    BY DEF QuietTable
  <2> QED BY <1>1, <2>1, <2>2 DEF ForkOK, At
<1>4. FamilyOK(q)'
  <2>1. Children(q)' = Children(q) /\ Children(q) \subseteq Procs /\ parent' = parent
    BY QuietSlots DEF QuietTable, Children
  <2>2. /\ \A r \in Procs : AsleepInWait(r)' => AsleepInWait(r)
        /\ \A r \in Procs : state'[r] = "ZOMBIE" => state[r] = "ZOMBIE"
    BY QuietSlots
  <2>3. (th[q].pc \in {"wake_parent", "zombie"} => Children(q) = {})'
    BY <1>1, <2>1 DEF FamilyOK
  <2>4. /\ (At(q, "wait_scan") => \A c \in Children(q) : c < th[q].i => state[c] # "ZOMBIE")'
        /\ (At(q, "wait_sleep") => \A c \in Children(q) : state[c] # "ZOMBIE")'
    BY <1>1, <2>1, <2>2 DEF FamilyOK, At
  <2>5. (At(q, "wake_parent") =>
          \A r \in Procs : parent[q] = r /\ r < th[q].j => ~AsleepInWait(r))'
    BY <1>1, <2>1, <2>2 DEF FamilyOK, At
  <2>6. (At(q, "zombie") => \A r \in Procs : parent[q] = r => ~AsleepInWait(r))'
    BY <1>1, <2>1, <2>2 DEF FamilyOK, At
  <2> QED BY <2>3, <2>4, <2>5, <2>6 DEF FamilyOK
<1> QED BY <1>2, <1>3, <1>4

(* Where the step may put the thread of p.                                 *)
Moves(p) ==
  /\ \A q \in Procs \ {p} : Stays(q)
  /\ \/ th'[p] = th[p]
     \/ th'[p].pc \notin ForkPcs
     \/ /\ th[p].pc \in {"forking", "fork_parent"} /\ th'[p].pc = "fork_parent"
        /\ th'[p].arg = th[p].arg
  /\ p = initproc => th'[p].pc \notin ExitPcs \cup {"exit"}

LEMMA QuietCore ==
  ASSUME Core, TypeOK', QuietTable, NEW p \in Procs, Moves(p),
         SelfOK(p)', FamilyOK(p)'
  PROVE  Core'
<1> USE ProcsFacts
<1>1. \A q \in Procs \ {p} : SelfOK(q)' /\ ForkOK(q)' /\ FamilyOK(q)'
  BY QuietThread DEF Moves
<1>2. ForkOK(p)'
  <2>1. \A c \in Procs : state[c] = "USED" => state'[c] = "USED"
    BY DEF QuietTable, Alive
  <2>2. parent' = parent /\ ForkOK(p)
    BY DEF QuietTable, Core
  <2> QED BY <2>1, <2>2 DEF ForkOK, At, Moves, ForkPcs
<1>3. ChildrenDiffer'
  <2>1. \A q \in Procs : th'[q].pc \in ForkPcs => th[q].pc \in ForkPcs /\ th'[q].arg = th[q].arg
    BY DEF Moves, Stays, At, ForkPcs
  <2> QED BY <2>1 DEF ChildrenDiffer, Core
<1>4. InitLives'
  <2>1. th'[initproc].pc \notin ExitPcs \cup {"exit"}
    BY DEF Moves, Stays, Core, InitLives
  <2> QED BY <2>1, QuietSlots DEF InitLives
<1> QED BY <1>1, <1>2, <1>3, <1>4, QuietSlots DEF Core

(* A quiet step wakes nobody who runs already.                             *)
RunnersStay == \A q \in Procs : state[q] = "RUNNING" => state'[q] = "RUNNING"

LEMMA QuietZombies ==
  ASSUME Core, ZombieIsSeen, TypeOK', QuietTable,
         \A p \in Procs : At(p, "wake_init") => Stays(p)
  PROVE  ZombieIsSeen'
<1> USE ProcsFacts
<1> SUFFICES ASSUME NEW c \in Procs \ {initproc},
                    state'[c] = "ZOMBIE", parent'[c] # None,
                    state'[parent'[c]] = "SLEEPING", chan'[parent'[c]] = parent'[c]
             PROVE  \E p \in Procs : /\ wait_lock' = p /\ At(p, "wake_init")'
                                     /\ parent'[c] = initproc /\ th'[p].j <= initproc
  BY DEF ZombieIsSeen
<1>1. parent'[c] = parent[c] /\ parent[c] \in Procs
  BY DEF QuietTable, Core, TypeOK
<1>2. state[c] = "ZOMBIE" /\ AsleepInWait(parent[c])
  BY <1>1, QuietSlots DEF AsleepInWait
<1>3. PICK p \in Procs : /\ wait_lock = p /\ At(p, "wake_init")
                         /\ parent[c] = initproc /\ th[p].j <= initproc
  BY <1>1, <1>2 DEF ZombieIsSeen, AsleepInWait
<1> QED BY <1>1, <1>3 DEF Stays, At

LEMMA QuietSleepers ==
  ASSUME Core, TickIsSeen, TypeOK', QuietTable, UNCHANGED clock,
         \A p \in Procs : state'[p] = "SLEEPING" => th'[p] = th[p]
  PROVE  TickIsSeen'
<1> SUFFICES ASSUME NEW p \in Procs, state'[p] = "SLEEPING", chan'[p] = Ticks,
                    Elapsed(th[p].t0)' >= th'[p].arg
             PROVE  clk'.on /\ clk'.j <= p
  BY DEF TickIsSeen
<1>1. state[p] = "SLEEPING" /\ chan[p] = Ticks /\ Elapsed(th[p].t0) >= th[p].arg
  BY DEF QuietTable, clock, Elapsed
<1> QED BY <1>1 DEF TickIsSeen, clock

(* Every step of p that moves its thread, takes or gives up a lock, or     *)
(* marks or wakes others.                                                  *)
LEMMA QuietStep ==
  ASSUME IInv, TypeOK', NEW p \in Procs, OnHart(p), QuietTable, RunnersStay, Moves(p),
         UNCHANGED clock, tickslock' = Ticks <=> tickslock = Ticks,
         ~At(p, "wake_init"), SelfOK(p)', FamilyOK(p)'
  PROVE  IInv'
<1>1. Core'
  BY QuietCore DEF IInv
<1>2. ClockOK'
  <2>1. clk.over # None => clk.over \in Procs
    BY DEF IInv, Core, TypeOK
  <2> QED BY <2>1 DEF IInv, ClockOK, RunnersStay, clock
<1>3. ZombieIsSeen'
  <2>1. \A q \in Procs : At(q, "wake_init") => Stays(q)
    BY DEF Moves
  <2> QED BY <2>1, QuietZombies DEF IInv
<1>4. TickIsSeen'
  <2>1. \A q \in Procs : state'[q] = "SLEEPING" => th'[q] = th[q]
    BY DEF Moves, Stays, RunnersStay, OnHart, Running
  <2> QED BY <2>1, QuietSleepers DEF IInv
<1> QED BY <1>1, <1>2, <1>3, <1>4 DEF IInv

(* The table does not change at all, and p keeps its locks.                *)
LEMMA ThreadStep ==
  ASSUME IInv, NEW p \in Procs, OnHart(p), UNCHANGED <<table, locks, clock>>,
         NEW t \in ThreadType,
         th' = [th EXCEPT ![p] = t],
         \/ t.pc \notin ForkPcs
         \/ /\ th[p].pc \in {"forking", "fork_parent"} /\ t.pc = "fork_parent"
            /\ t.arg = th[p].arg,
         p = initproc => t.pc \notin ExitPcs \cup {"exit"},
         ~At(p, "wake_init"), t.pc \notin {"wake_init", "ticks_sleep"},
         ~At(p, "ticks_sleep"),
         HoldsWaitLock(p) <=> t.pc \in ExitPcs \cup {"wait_scan", "wait_sleep"},
         t.pc \in {"wake_parent"} => t.j < NPROC,
         t.pc \in SleepPcs => t.arg \in SleepFor,
         t.pc = "kill" => t.arg \notin {0, 1},
         \/ FamilyOK(p)'
         \/ t.pc \notin {"wake_parent", "zombie", "wait_scan", "wait_sleep"}
  PROVE  IInv'
<1> USE ProcsFacts
<1>1. th'[p] = t /\ \A q \in Procs \ {p} : th'[q] = th[q]
  BY DEF IInv, Core, TypeOK
<1>2. TypeOK'
  BY DEF IInv, Core, TypeOK, ThreadType, table, locks, clock
<1>3. QuietTable /\ RunnersStay
  BY DEF QuietTable, RunnersStay, table, locks, clock
<1>4. Moves(p)
  <2>1. p = initproc => th'[p].pc \notin ExitPcs \cup {"exit"}
    BY <1>1
  <2> QED BY <1>1, <2>1 DEF Moves, Stays, locks
<1>5. SelfOK(p)'
  <2>1. SelfOK(p) /\ state'[p] = "RUNNING" /\ wait_lock' = wait_lock /\ tickslock' = tickslock
    BY DEF IInv, Core, OnHart, Running, table, locks
  <2> QED BY <1>1, <2>1 DEF SelfOK, HoldsWaitLock, At, Alive
<1>6. FamilyOK(p)'
  BY <1>1 DEF FamilyOK, At
<1> QED BY <1>2, <1>3, <1>4, <1>5, <1>6, QuietStep DEF locks

(* The local variables of a thread that begins or leaves something.        *)
LEMMA ThreadFacts ==
  ASSUME NEW pc \in Pcs, NEW arg \in Pids \cup Procs \cup SleepFor \cup KillPids
  PROVE  /\ Thread(pc, arg) \in ThreadType
         /\ Thread(pc, arg).pc = pc /\ Thread(pc, arg).arg = arg
         /\ Thread(pc, arg).i = 0 /\ Thread(pc, arg).j = 0
<1>1. 0 \in 0..NPROC /\ 0 \in 0..(Wrap - 1)
  BY ProcsFacts, TicksAssumption
<1> QED BY <1>1 DEF Thread, ThreadType

LEMMA UserFacts ==
  /\ User \in ThreadType /\ User.pc = "user"
  /\ \A p : Return(p) => th' = [th EXCEPT ![p] = User]
<1>1. "user" \in Pcs /\ 0 \in Pids \cup Procs \cup SleepFor \cup KillPids
  BY ProcsFacts DEF Pcs
<1> QED BY <1>1, ThreadFacts DEF User, Return, GoTo

-----------------------------------------------------------------------------
(* System calls, and the steps that only look at the table.                *)
LEMMA SyscallStep ==
  ASSUME IInv, NEW p \in Procs,
         NEW pc \in {"alloc", "wait", "exit", "sleep", "kill"},
         NEW arg \in Pids \cup Procs \cup SleepFor \cup KillPids,
         InUser(p), GoTo(p, pc, arg), UNCHANGED <<table, locks, clock>>,
         p = initproc => pc # "exit",
         pc = "sleep" => arg \in SleepFor,
         pc = "kill" => arg \notin {0, 1}
  PROVE  IInv'
<1>1. pc \in Pcs
  BY DEF Pcs
<1>2. PICK t \in ThreadType : t = Thread(pc, arg) /\ t.pc = pc /\ t.arg = arg
  BY <1>1, ThreadFacts
<1>3. th' = [th EXCEPT ![p] = t] /\ OnHart(p) /\ th[p].pc = "user"
  BY <1>2 DEF GoTo, InUser, At
<1>4. /\ t.pc \notin ForkPcs /\ (p = initproc => t.pc \notin ExitPcs \cup {"exit"})
      /\ ~At(p, "wake_init") /\ t.pc \notin {"wake_init", "ticks_sleep"}
      /\ ~At(p, "ticks_sleep")
      /\ t.pc \notin {"wake_parent", "zombie", "wait_scan", "wait_sleep"}
      /\ HoldsWaitLock(p) <=> t.pc \in ExitPcs \cup {"wait_scan", "wait_sleep"}
      /\ (t.pc \in SleepPcs => t.arg \in SleepFor)
      /\ (t.pc = "kill" => t.arg \notin {0, 1})
  BY <1>2, <1>3 DEF ForkPcs, ExitPcs, SleepPcs, At, HoldsWaitLock
<1> QED BY <1>3, <1>4, ThreadStep

LEMMA CallsStep ==
  ASSUME IInv, {0, 1} \cap KillPids = {}, NEW p \in Procs, CallStep(p)
  PROVE  IInv'
<1> USE ProcsFacts, SyscallStep
<1>1. CASE CallFork(p) \/ CallWait(p) \/ CallExit(p)
  BY <1>1 DEF CallFork, CallWait, CallExit, Syscall
<1>2. ASSUME NEW n \in SleepFor, CallSleep(p, n) PROVE IInv'
  BY <1>2 DEF CallSleep, Syscall
<1>3. ASSUME NEW n \in KillPids \cup ({pid[q] : q \in Procs \ {initproc}} \ {0}), CallKill(p, n)
      PROVE  IInv'
  <2>1. n \notin {0, 1} /\ n \in Pids \cup KillPids
    BY DEF IInv, Core, SlotOK, TypeOK
  <2> QED BY <1>3, <2>1 DEF CallKill, Syscall
<1> QED BY <1>1, <1>2, <1>3 DEF CallStep

LEMMA TrapKilledStep ==
  ASSUME IInv, NEW p \in Procs, TrapKilled(p)
  PROVE  IInv'
<1>1. p # initproc
  BY DEF TrapKilled, IInv, Core, InitLives
<1> QED BY <1>1, ProcsFacts, SyscallStep DEF TrapKilled

(* Back to user mode, without a lock.                                      *)
LEMMA ReturnStep ==
  ASSUME IInv, NEW p \in Procs, OnHart(p), Return(p), UNCHANGED <<table, locks, clock>>,
         ~HoldsWaitLock(p), ~At(p, "ticks_sleep")
  PROVE  IInv'
<1>1. User \in ThreadType /\ User.pc = "user" /\ th' = [th EXCEPT ![p] = User]
  BY UserFacts
<1>2. ~At(p, "wake_init")
  BY DEF HoldsWaitLock, At, ExitPcs
<1>3. User.pc \notin ForkPcs \cup ExitPcs \cup SleepPcs \cup {"exit", "wait_scan", "wait_sleep", "kill"}
  BY <1>1 DEF ForkPcs, ExitPcs, SleepPcs
<1>4. User.pc \notin {"wake_init", "wake_parent", "zombie", "ticks_sleep"}
  BY <1>1
<1> HIDE DEF User
<1> QED BY <1>1, <1>2, <1>3, <1>4, ThreadStep

LEMMA LookSteps ==
  ASSUME IInv, NEW p \in Procs, OnHart(p),
         Spin(p) \/ AllocprocSkip(p) \/ KillSkip(p)
  PROVE  IInv'
<1> DEFINE s == [th[p] EXCEPT !.spin = TRUE]
           n == [th[p] EXCEPT !.i = th[p].i + 1, !.spin = FALSE]
<1>1. th[p] \in ThreadType
  BY DEF IInv, Core, TypeOK, ThreadType
<1>2. s \in ThreadType /\ s.pc = th[p].pc /\ s.arg = th[p].arg /\ s.j = th[p].j
  BY <1>1 DEF ThreadType
<1>3. \/ Spin(p) /\ th' = [th EXCEPT ![p] = s]
      \/ (AllocprocSkip(p) \/ KillSkip(p)) /\ th' = [th EXCEPT ![p] = n]
  BY DEF Spin, AllocprocSkip, KillSkip, NextSlot
<1>4. Slot(p) < NPROC => n \in ThreadType /\ n.pc = th[p].pc /\ n.arg = th[p].arg /\ n.j = th[p].j
  <2>1. th[p].i \in 0..NPROC
    BY <1>1 DEF ThreadType
  <2>2. Slot(p) < NPROC => th[p].i + 1 \in 0..NPROC
    BY <2>1, ProcsFacts DEF Slot
  <2> QED BY <1>1, <2>2 DEF ThreadType
<1>5. PICK t \in ThreadType : /\ t.pc = th[p].pc /\ t.arg = th[p].arg
                              /\ th' = [th EXCEPT ![p] = t]
  BY <1>2, <1>3, <1>4 DEF AllocprocSkip, KillSkip
<1>6. /\ th[p].pc \in {"fork_parent", "exit", "wait", "sleep", "sleep_again", "alloc", "kill"}
      /\ UNCHANGED <<table, locks, clock>>
  BY DEF Spin, TakenLock, AllocprocSkip, KillSkip, At
<1>7. p = initproc => t.pc \notin ExitPcs \cup {"exit"}
  BY <1>5 DEF IInv, Core, InitLives
<1>8. /\ t.pc \in SleepPcs => t.arg \in SleepFor
      /\ t.pc = "kill" => t.arg \notin {0, 1}
  BY <1>5, <1>6 DEF IInv, Core, SelfOK, At
<1>9. /\ t.pc \notin ForkPcs \/ (th[p].pc \in {"forking", "fork_parent"} /\ t.pc = "fork_parent"
                                  /\ t.arg = th[p].arg)
      /\ ~At(p, "wake_init") /\ ~At(p, "ticks_sleep")
      /\ t.pc \notin {"wake_init", "ticks_sleep"}
      /\ t.pc \notin {"wake_parent", "zombie", "wait_scan", "wait_sleep"}
      /\ HoldsWaitLock(p) <=> t.pc \in ExitPcs \cup {"wait_scan", "wait_sleep"}
  BY <1>5, <1>6 DEF ForkPcs, ExitPcs, At, HoldsWaitLock
<1> QED BY <1>5, <1>6, <1>7, <1>8, <1>9, ThreadStep

LEMMA CursorFacts ==
  ASSUME IInv, NEW p \in Procs
  PROVE  /\ th[p] \in ThreadType /\ th[p].i \in Nat /\ th[p].i <= NPROC /\ th[p].j \in Nat
         /\ \A c \in Children(p) : c \in Nat
<1>1. th[p] \in ThreadType
  BY DEF IInv, Core, TypeOK, ThreadType
<1>2. th[p].i \in 0..NPROC /\ th[p].j \in 0..NPROC
  BY <1>1 DEF ThreadType
<1>3. \A c \in Children(p) : c \in Nat
  BY ProcsFacts DEF Children
<1> QED BY <1>1, <1>2, <1>3, ProcsFacts

LEMMA BareReturnSteps ==
  ASSUME IInv, NEW p \in Procs, OnHart(p), NoSlot(p) \/ KillNobody(p)
  PROVE  IInv'
<1>1. Return(p) /\ UNCHANGED <<table, locks, clock>> /\ th[p].pc \in {"alloc", "kill"}
  BY DEF NoSlot, KillNobody, At
<1>2. ~HoldsWaitLock(p) /\ ~At(p, "ticks_sleep")
  BY <1>1 DEF HoldsWaitLock, At, ExitPcs
<1> QED BY <1>1, <1>2, ReturnStep

LEMMA ForkBuiltStep ==
  ASSUME IInv, NEW p \in Procs, OnHart(p), ForkBuilt(p)
  PROVE  IInv'
<1>1. /\ th[p].pc = "forking" /\ GoTo(p, "fork_parent", th[p].arg)
      /\ UNCHANGED <<table, locks, clock>>
  BY DEF ForkBuilt, At
<1>2. th[p].arg \in Procs
  BY <1>1 DEF IInv, Core, ForkOK, ForkPcs
<1>3. PICK t \in ThreadType : t = Thread("fork_parent", th[p].arg) /\ t.pc = "fork_parent"
                              /\ t.arg = th[p].arg
  BY <1>2, ThreadFacts DEF Pcs
<1>4. th' = [th EXCEPT ![p] = t]
  BY <1>1, <1>3 DEF GoTo
<1>5. /\ t.pc \notin ExitPcs \cup {"exit"} \cup SleepPcs \cup {"kill", "wait_scan", "wait_sleep"}
      /\ t.pc \notin {"wake_parent", "zombie", "wait_scan", "wait_sleep", "wake_init", "ticks_sleep"}
      /\ ~At(p, "wake_init") /\ ~At(p, "ticks_sleep") /\ ~HoldsWaitLock(p)
  BY <1>1, <1>3 DEF ExitPcs, SleepPcs, At, HoldsWaitLock
<1> QED BY <1>1, <1>3, <1>4, <1>5, ThreadStep

LEMMA ReparentDoneStep ==
  ASSUME IInv, NEW p \in Procs, OnHart(p), ReparentDone(p)
  PROVE  IInv'
<1>1. /\ th[p].pc = "reparent" /\ GoTo(p, "wake_parent", 0) /\ Children(p) = {}
      /\ UNCHANGED <<table, locks, clock>>
  BY DEF ReparentDone, At
<1>2. PICK t \in ThreadType : t = Thread("wake_parent", 0) /\ t.pc = "wake_parent" /\ t.j = 0
  BY ThreadFacts, ProcsFacts DEF Pcs
<1>3. th' = [th EXCEPT ![p] = t] /\ th'[p] = t
  BY <1>1, <1>2 DEF GoTo, IInv, Core, TypeOK
<1>4. p # initproc
  BY <1>1 DEF IInv, Core, InitLives, ExitPcs
<1>5. /\ t.pc \notin ForkPcs \cup SleepPcs \cup {"kill"}
      /\ t.pc \notin {"wake_init", "ticks_sleep"} /\ t.pc # "kill"
      /\ ~At(p, "wake_init") /\ ~At(p, "ticks_sleep")
      /\ HoldsWaitLock(p) /\ t.pc \in ExitPcs
  BY <1>1, <1>2 DEF ExitPcs, SleepPcs, ForkPcs, At, HoldsWaitLock
<1>6. FamilyOK(p)'
  <2>1. Children(p)' = {}
    BY <1>1 DEF Children, table
  <2>2. \A q \in Procs : ~(q < 0)
    BY ProcsFacts
  <2> QED BY <1>2, <1>3, <2>1, <2>2 DEF FamilyOK, At
<1>7. t.j < NPROC
  BY <1>2, ProcsFacts
<1> QED BY <1>1, <1>2, <1>3, <1>4, <1>5, <1>6, <1>7, ThreadStep

(* What is behind the cursor of wait() has been looked at.                 *)
LEMMA WaitSkipStep ==
  ASSUME IInv, NEW p \in Procs, OnHart(p), WaitSkip(p)
  PROVE  IInv'
<1>1. PICK c \in Procs : /\ Scanned(p, c) /\ state[c] # "ZOMBIE"
                         /\ th' = [th EXCEPT ![p].i = c + 1]
  BY DEF WaitSkip
<1>2. th[p].pc = "wait_scan" /\ UNCHANGED <<table, locks, clock>>
  BY DEF WaitSkip, At
<1>3. th[p] \in ThreadType /\ c + 1 \in 0..NPROC
  BY ProcsFacts DEF IInv, Core, TypeOK, ThreadType, Procs
<1>4. PICK t \in ThreadType : t = [th[p] EXCEPT !.i = c + 1] /\ t.pc = "wait_scan" /\ t.i = c + 1
  <2>1. [th[p] EXCEPT !.i = c + 1] \in ThreadType
    BY <1>3 DEF ThreadType
  <2>2. [th[p] EXCEPT !.i = c + 1].pc = "wait_scan" /\ [th[p] EXCEPT !.i = c + 1].i = c + 1
    BY <1>2, <1>3 DEF ThreadType
  <2> QED BY <2>1, <2>2
<1>5. th' = [th EXCEPT ![p] = t] /\ th'[p] = t
  BY <1>1, <1>4 DEF IInv, Core, TypeOK
<1>6. /\ t.pc \notin ForkPcs \cup SleepPcs \cup {"kill"}
      /\ t.pc \notin {"wake_init", "ticks_sleep", "wake_parent", "kill"}
      /\ t.pc \notin ExitPcs \cup {"exit"}
      /\ ~At(p, "wake_init") /\ ~At(p, "ticks_sleep") /\ HoldsWaitLock(p)
  BY <1>2, <1>4 DEF ExitPcs, SleepPcs, ForkPcs, At, HoldsWaitLock
<1>7. FamilyOK(p)'
  <2>1. Children(p)' = Children(p) /\ state' = state /\ Children(p) \subseteq Procs
    BY <1>2 DEF Children, table
  <2>2. ASSUME NEW d \in Children(p), d < c + 1 PROVE state[d] # "ZOMBIE"
    <3>1. d \in Nat /\ c \in Nat /\ th[p].i \in Nat
      BY CursorFacts, ProcsFacts
    <3>2. CASE d < th[p].i
      BY <1>2, <3>2 DEF IInv, Core, FamilyOK, At
    <3>3. CASE d >= th[p].i
      <4>1. c <= d
        BY <1>1, <3>3 DEF Scanned, Ahead, Slot
      <4> QED BY <1>1, <2>2, <3>1, <4>1
    <3> QED BY <3>1, <3>2, <3>3
  <2> QED BY <1>4, <1>5, <2>1, <2>2 DEF FamilyOK, At
<1> QED BY <1>2, <1>4, <1>5, <1>6, <1>7, ThreadStep

LEMMA WaitDecidesStep ==
  ASSUME IInv, NEW p \in Procs, OnHart(p), WaitDecides(p)
  PROVE  IInv'
<1>1. /\ th[p].pc = "wait_scan" /\ GoTo(p, "wait_sleep", 0) /\ Ahead(p) = {}
      /\ UNCHANGED <<table, locks, clock>>
  BY DEF WaitDecides, At
<1>2. PICK t \in ThreadType : t = Thread("wait_sleep", 0) /\ t.pc = "wait_sleep"
  BY ThreadFacts, ProcsFacts DEF Pcs
<1>3. th' = [th EXCEPT ![p] = t] /\ th'[p] = t
  BY <1>1, <1>2 DEF GoTo, IInv, Core, TypeOK
<1>4. /\ t.pc \notin ForkPcs \cup SleepPcs \cup {"kill"}
      /\ t.pc \notin {"wake_init", "ticks_sleep", "wake_parent", "kill"}
      /\ t.pc \notin ExitPcs \cup {"exit"}
      /\ ~At(p, "wake_init") /\ ~At(p, "ticks_sleep") /\ HoldsWaitLock(p)
  BY <1>1, <1>2 DEF ExitPcs, SleepPcs, ForkPcs, At, HoldsWaitLock
<1>5. FamilyOK(p)'
  <2>1. Children(p)' = Children(p) /\ state' = state /\ Children(p) \subseteq Procs
    BY <1>1 DEF Children, table
  <2>2. ASSUME NEW d \in Children(p) PROVE state[d] # "ZOMBIE"
    <3>1. d \in Nat /\ th[p].i \in Nat
      BY CursorFacts
    <3>2. d < th[p].i
      BY <1>1, <3>1 DEF Ahead, Slot
    <3> QED BY <1>1, <3>2 DEF IInv, Core, FamilyOK, At
  <2> QED BY <1>2, <1>3, <2>1, <2>2 DEF FamilyOK, At
<1> QED BY <1>1, <1>2, <1>3, <1>4, <1>5, ThreadStep

-----------------------------------------------------------------------------
(* Steps that take or give up a lock.                                      *)
LEMMA LockStep ==
  ASSUME IInv, NEW p \in Procs, OnHart(p), UNCHANGED <<table, clock>>,
         NEW t \in ThreadType, th' = [th EXCEPT ![p] = t],
         t.pc \notin ForkPcs \cup {"wake_init", "wake_parent", "zombie", "wait_sleep", "kill"},
         p = initproc => t.pc \notin ExitPcs \cup {"exit"},
         ~At(p, "wake_init"), TypeOK',
         \A q \in Procs \ {p} : /\ wait_lock' = q <=> wait_lock = q
                                /\ tickslock' = q <=> tickslock = q,
         tickslock' = Ticks <=> tickslock = Ticks,
         t.pc \in ExitPcs \cup {"wait_scan"} <=> wait_lock' = p,
         t.pc = "ticks_sleep" <=> tickslock' = p,
         t.pc = "wait_scan" => t.i = 0,
         t.pc \in SleepPcs => t.arg \in SleepFor,
         t.pc = "ticks_sleep" => Elapsed(t.t0) < t.arg
  PROVE  IInv'
<1> USE ProcsFacts
<1>1. th'[p] = t /\ \A q \in Procs \ {p} : th'[q] = th[q]
  BY DEF IInv, Core, TypeOK
<1>2. QuietTable /\ RunnersStay
  BY DEF QuietTable, RunnersStay, table, clock
<1>3. Moves(p)
  BY <1>1 DEF Moves, Stays
<1>4. SelfOK(p)'
  <2>1. state'[p] = "RUNNING"
    BY DEF OnHart, Running, table
  <2>2. Elapsed(t.t0)' = Elapsed(t.t0)
    BY DEF Elapsed, clock
  <2>3. t.pc \notin {"wake_init", "wake_parent", "kill", "wait_sleep"}
    OBVIOUS
  <2>4. (HoldsWaitLock(p) <=> wait_lock = p)' /\ (At(p, "ticks_sleep") <=> tickslock = p)'
    BY <1>1, <2>3 DEF HoldsWaitLock, At
  <2>5. (At(p, "ticks_sleep") => Elapsed(th[p].t0) < th[p].arg)'
    BY <1>1, <2>2 DEF At, Elapsed, clock
  <2> QED BY <1>1, <2>1, <2>3, <2>4, <2>5 DEF SelfOK, At, Alive
<1>5. FamilyOK(p)'
  <2>1. Children(p)' = Children(p) /\ Children(p) \subseteq Procs
    BY DEF Children, table
  <2>2. \A c \in Procs : ~(c < 0)
    OBVIOUS
  <2>3. (At(p, "wait_scan") => \A c \in Children(p) : c < th[p].i => state[c] # "ZOMBIE")'
    BY <1>1, <2>1, <2>2 DEF At
  <2>4. t.pc \notin {"wake_parent", "zombie", "wait_sleep"}
    OBVIOUS
  <2> QED BY <1>1, <2>3, <2>4 DEF FamilyOK, At
<1> QED BY <1>2, <1>3, <1>4, <1>5, QuietStep

LEMMA TakeWaitLockSteps ==
  ASSUME IInv, NEW p \in Procs, OnHart(p), ExitLock(p) \/ WaitLock(p)
  PROVE  IInv'
<1> USE ProcsFacts
<1>1. PICK pc \in {"reparent", "wait_scan"} :
        /\ GoTo(p, pc, 0) /\ wait_lock = None /\ wait_lock' = p
        /\ UNCHANGED <<table, tickslock, clock>>
        /\ pc = "reparent" => At(p, "exit")
        /\ th[p].pc \in {"exit", "wait"}
  BY DEF ExitLock, WaitLock, At
<1>2. PICK t \in ThreadType : t = Thread(pc, 0) /\ t.pc = pc /\ t.i = 0
  BY ThreadFacts DEF Pcs
<1>3. th' = [th EXCEPT ![p] = t]
  BY <1>1, <1>2 DEF GoTo
<1>4. TypeOK'
  BY <1>1, <1>3 DEF IInv, Core, TypeOK, ThreadType, table, clock
<1>5. p = initproc => t.pc \notin ExitPcs \cup {"exit"}
  BY <1>1, <1>2 DEF IInv, Core, InitLives, At, ExitPcs
<1>6. /\ t.pc \notin ForkPcs \cup {"wake_init", "wake_parent", "zombie", "wait_sleep", "kill"}
      /\ ~At(p, "wake_init") /\ ~At(p, "ticks_sleep") /\ t.pc \notin SleepPcs /\ t.pc # "ticks_sleep"
      /\ t.pc \in ExitPcs \cup {"wait_scan"}
  BY <1>1, <1>2 DEF ExitPcs, SleepPcs, ForkPcs, At
<1>7. tickslock # p
  BY <1>6 DEF IInv, Core, SelfOK
<1>8. \A q \in Procs \ {p} : /\ wait_lock' = q <=> wait_lock = q
                             /\ tickslock' = q <=> tickslock = q
  BY <1>1
<1> QED BY <1>1, <1>2, <1>3, <1>4, <1>5, <1>6, <1>7, <1>8, LockStep

LEMMA GiveUpWaitLockSteps ==
  ASSUME IInv, NEW p \in Procs, OnHart(p), WaitBadAddress(p) \/ WaitFails(p)
  PROVE  IInv'
<1> USE ProcsFacts
<1>1. /\ Return(p) /\ wait_lock' = None /\ th[p].pc = "wait_scan"
      /\ UNCHANGED <<table, tickslock, clock>>
  BY DEF WaitBadAddress, WaitFails, At
<1>2. PICK t \in ThreadType : t.pc = "user" /\ th' = [th EXCEPT ![p] = t]
  BY <1>1, UserFacts
<1>3. wait_lock = p
  BY <1>1 DEF IInv, Core, SelfOK, HoldsWaitLock
<1>4. TypeOK'
  BY <1>1, <1>2 DEF IInv, Core, TypeOK, ThreadType, table, clock
<1>5. /\ t.pc \notin ForkPcs \cup {"wake_init", "wake_parent", "zombie", "wait_sleep", "kill"}
      /\ ~At(p, "wake_init") /\ ~At(p, "ticks_sleep")
      /\ t.pc \notin SleepPcs /\ t.pc \notin {"ticks_sleep", "wait_scan"}
      /\ t.pc \notin ExitPcs \cup {"exit"} /\ t.pc \notin ExitPcs \cup {"wait_scan"}
  BY <1>1, <1>2 DEF ExitPcs, SleepPcs, ForkPcs, At
<1>6. tickslock # p
  BY <1>5 DEF IInv, Core, SelfOK
<1>7. \A q \in Procs \ {p} : /\ wait_lock' = q <=> wait_lock = q
                             /\ tickslock' = q <=> tickslock = q
  BY <1>1, <1>3
<1>8. wait_lock' # p
  BY <1>1
<1> QED BY <1>1, <1>2, <1>4, <1>5, <1>6, <1>7, <1>8, LockStep

(* The test of the clock and the sleep that follows are under tickslock.   *)
LEMMA SleepTestStep ==
  ASSUME IInv, NEW p \in Procs, OnHart(p), NEW t0 \in 0..(Wrap - 1),
         th[p].pc \in {"sleep", "sleep_again"}, SleepTest(p, t0)
  PROVE  IInv'
<1> USE ProcsFacts
<1>1. /\ tickslock = None /\ UNCHANGED <<table, wait_lock, clock>>
      /\ ~HoldsWaitLock(p) /\ ~At(p, "wake_init") /\ ~At(p, "ticks_sleep")
  BY DEF SleepTest, HoldsWaitLock, ExitPcs, At
<1>2. wait_lock # p /\ th[p].arg \in SleepFor
  BY <1>1 DEF IInv, Core, SelfOK, SleepPcs
<1>3. CASE Elapsed(t0) < th[p].arg /\ ~killed[p]
  <2>1. tickslock' = p /\ th' = [th EXCEPT ![p].pc = "ticks_sleep", ![p].t0 = t0, ![p].spin = FALSE]
    BY <1>3 DEF SleepTest
  <2>2. PICK t \in ThreadType : /\ t = [th[p] EXCEPT !.pc = "ticks_sleep", !.t0 = t0, !.spin = FALSE]
                                /\ t.pc = "ticks_sleep" /\ t.t0 = t0 /\ t.arg = th[p].arg
    <3>1. th[p] \in ThreadType
      BY CursorFacts
    <3> DEFINE r == [th[p] EXCEPT !.pc = "ticks_sleep", !.t0 = t0, !.spin = FALSE]
    <3>2. r \in ThreadType
      BY <3>1 DEF ThreadType, Pcs
    <3>3. r.pc = "ticks_sleep" /\ r.t0 = t0 /\ r.arg = th[p].arg
      BY <3>1 DEF ThreadType
    <3> QED BY <3>2, <3>3
  <2>3. th' = [th EXCEPT ![p] = t]
    BY <2>1, <2>2
  <2>4. TypeOK'
    <3>1. th' \in [Procs -> ThreadType]
      BY <2>3 DEF IInv, Core, TypeOK, ThreadType
    <3>2. tickslock' \in {None, Ticks} \cup Procs
      BY <2>1
    <3> QED BY <1>1, <3>1, <3>2 DEF IInv, Core, TypeOK, ThreadType, table, clock
  <2>5. /\ t.pc \notin ForkPcs \cup {"wake_init", "wake_parent", "zombie", "wait_sleep", "kill"}
        /\ t.pc \notin ExitPcs \cup {"exit"} /\ t.pc \notin ExitPcs \cup {"wait_scan"}
        /\ t.pc # "wait_scan"
    BY <2>2 DEF ExitPcs, ForkPcs
  <2>6. \A q \in Procs \ {p} : /\ wait_lock' = q <=> wait_lock = q
                               /\ tickslock' = q <=> tickslock = q
    BY <1>1, <2>1
  <2>7. wait_lock' # p
    BY <1>1, <1>2
  <2> QED BY <1>1, <1>2, <1>3, <2>1, <2>2, <2>3, <2>4, <2>5, <2>6, <2>7, LockStep
<1>4. CASE ~(Elapsed(t0) < th[p].arg /\ ~killed[p])
  <2>1. Return(p) /\ UNCHANGED <<table, locks, clock>>
    BY <1>1, <1>4 DEF SleepTest, locks
  <2> QED BY <1>1, <2>1, ReturnStep
<1> QED BY <1>3, <1>4

LEMMA KillStepStep ==
  ASSUME IInv, NEW p \in Procs, OnHart(p), Kill(p)
  PROVE  IInv'
<1> USE ProcsFacts
<1>1. PICK s \in Procs : s = Slot(p)
  BY CursorFacts DEF Kill, Slot, Procs
<1>2. /\ th[p].pc = "kill" /\ pid[s] = th[p].arg
      /\ killed' = [killed EXCEPT ![s] = TRUE]
      /\ state' = [state EXCEPT ![s] = IF state[s] = "SLEEPING" THEN "RUNNABLE" ELSE state[s]]
      /\ Return(p) /\ UNCHANGED <<chan, parent, pid, locks, clock>>
  BY <1>1 DEF Kill, At
<1>3. PICK t \in ThreadType : t.pc = "user" /\ th' = [th EXCEPT ![p] = t]
  BY <1>2, UserFacts
<1>4. th'[p] = t /\ \A q \in Procs \ {p} : th'[q] = th[q]
  BY <1>3 DEF IInv, Core, TypeOK
<1>5. s # initproc /\ state[s] # "UNUSED"
  <2>1. th[p].arg \notin {0, 1}
    BY <1>2 DEF IInv, Core, SelfOK, At
  <2> QED BY <1>2, <2>1 DEF IInv, Core, InitLives, SlotOK
<1>6. TypeOK'
  BY <1>2, <1>3 DEF IInv, Core, TypeOK, ThreadType, States, locks, clock
<1>7. QuietTable
  <2>1. \A q \in Procs : \/ state'[q] = state[q] /\ chan'[q] = chan[q]
                         \/ state[q] \in Alive /\ state'[q] \in {"RUNNABLE", "RUNNING"}
    BY <1>2 DEF IInv, Core, TypeOK, Alive
  <2>2. \A q \in Procs : killed'[q] => killed[q] \/ (state[q] # "UNUSED" /\ q # initproc)
    BY <1>2, <1>5 DEF IInv, Core, TypeOK
  <2> QED BY <1>2, <2>1, <2>2 DEF QuietTable, clock
<1>8. RunnersStay
  BY <1>2 DEF RunnersStay, IInv, Core, TypeOK
<1>9. Moves(p)
  <2>1. t.pc \notin ForkPcs /\ t.pc \notin ExitPcs \cup {"exit"}
    BY <1>3 DEF ForkPcs, ExitPcs
  <2> QED BY <1>2, <1>4, <2>1 DEF Moves, Stays, locks
<1>10. SelfOK(p)'
  <2>1. state'[p] = "RUNNING"
    BY <1>8 DEF RunnersStay, OnHart, Running
  <2>2. wait_lock' # p /\ tickslock' # p
    BY <1>2 DEF IInv, Core, SelfOK, HoldsWaitLock, ExitPcs, At, locks
  <2> QED BY <1>3, <1>4, <2>1, <2>2 DEF SelfOK, HoldsWaitLock, At, ExitPcs, SleepPcs
<1>11. FamilyOK(p)'
  BY <1>3, <1>4 DEF FamilyOK, At
<1>12. ~At(p, "wake_init")
  BY <1>2 DEF At
<1> QED BY <1>2, <1>6, <1>7, <1>8, <1>9, <1>10, <1>11, <1>12, QuietStep DEF locks

-----------------------------------------------------------------------------
(* The scheduler, yield, the clock, and the waking by exit().              *)
LEMMA TableCore ==
  ASSUME Core, TypeOK', QuietTable, th' = th, wait_lock' = wait_lock,
         \A q \in Procs : tickslock' = q <=> tickslock = q
  PROVE  Core'
<1>1. \A q \in Procs : Stays(q)
  BY DEF Stays
<1>2. initproc \in Procs
  BY ProcsFacts
<1>3. Moves(initproc)
  BY <1>1 DEF Moves, Core, InitLives
<1> QED BY <1>1, <1>2, <1>3, QuietThread, QuietCore

LEMMA RunStep ==
  ASSUME IInv, NEW p \in Procs, Run(p)
  PROVE  IInv'
<1> USE ProcsFacts
<1>1. /\ state[p] = "RUNNABLE" /\ state' = [state EXCEPT ![p] = "RUNNING"]
      /\ chan' = [chan EXCEPT ![p] = None]
      /\ UNCHANGED <<killed, parent, pid, th, locks, clock>>
  BY DEF Run
<1>2. TypeOK'
  BY <1>1 DEF IInv, Core, TypeOK, States, locks, clock
<1>3. QuietTable
  BY <1>1 DEF QuietTable, IInv, Core, TypeOK, InitLives, Alive, clock
<1>4. Core'
  BY <1>1, <1>2, <1>3, TableCore DEF IInv, locks
<1>5. ClockOK'
  BY <1>1 DEF IInv, Core, TypeOK, ClockOK, clock, locks
<1>6. ZombieIsSeen'
  BY <1>1, <1>2, <1>3, QuietZombies DEF IInv, Stays, locks
<1>7. TickIsSeen'
  BY <1>1, <1>2, <1>3, QuietSleepers DEF IInv
<1> QED BY <1>4, <1>5, <1>6, <1>7 DEF IInv

LEMMA YieldStep ==
  ASSUME IInv, NEW p \in Procs, Yield(p)
  PROVE  IInv'
<1> USE ProcsFacts
<1>1. /\ state[p] = "RUNNING" /\ clk.over # p /\ state' = [state EXCEPT ![p] = "RUNNABLE"]
      /\ UNCHANGED <<chan, killed, parent, pid, th, locks, clock>>
  BY DEF Yield, OnHart, Running
<1>2. TypeOK'
  BY <1>1 DEF IInv, Core, TypeOK, States, locks, clock
<1>3. QuietTable
  BY <1>1 DEF QuietTable, IInv, Core, TypeOK, InitLives, Alive, clock
<1>4. Core'
  BY <1>1, <1>2, <1>3, TableCore DEF IInv, locks
<1>5. ClockOK'
  BY <1>1 DEF IInv, Core, TypeOK, ClockOK, clock, locks
<1>6. ZombieIsSeen'
  BY <1>1, <1>2, <1>3, QuietZombies DEF IInv, Stays, locks
<1>7. TickIsSeen'
  BY <1>1, <1>2, <1>3, QuietSleepers DEF IInv
<1> QED BY <1>4, <1>5, <1>6, <1>7 DEF IInv

(* One slot of wakeup().                                                   *)
LEMMA WakeSlotFacts ==
  ASSUME IInv, NEW s \in Procs, NEW c, NEW me, WakeSlot(s, c, me), UNCHANGED ticks
  PROVE  /\ state' \in [Procs -> States] /\ UNCHANGED <<chan, killed, parent, pid>>
         /\ QuietTable /\ RunnersStay
         /\ \A q \in Procs \ {s} : state'[q] = state[q]
         /\ state'[s] = "SLEEPING" => s = me \/ chan[s] # c
<1>1. /\ state' = [state EXCEPT ![s] = IF s # me /\ state[s] = "SLEEPING" /\ chan[s] = c
                                       THEN "RUNNABLE" ELSE state[s]]
      /\ UNCHANGED <<chan, killed, parent, pid>>
  BY DEF WakeSlot
<1>2. state \in [Procs -> States]
  BY DEF IInv, Core, TypeOK
<1>3. /\ \A q \in Procs \ {s} : state'[q] = state[q]
      /\ state'[s] = state[s] \/ (state[s] = "SLEEPING" /\ state'[s] = "RUNNABLE")
      /\ state'[s] = "SLEEPING" => s = me \/ chan[s] # c
  BY <1>1, <1>2
<1>4. state' \in [Procs -> States]
  BY <1>1, <1>2 DEF States
<1>5. RunnersStay
  BY <1>3 DEF RunnersStay
<1>6. QuietTable
  <2>1. \A q \in Procs : \/ state'[q] = state[q] /\ chan'[q] = chan[q]
                         \/ state[q] \in Alive /\ state'[q] \in {"RUNNABLE", "RUNNING"}
    BY <1>1, <1>3 DEF Alive
  <2> QED BY <1>1, <2>1 DEF QuietTable
<1> QED BY <1>1, <1>3, <1>4, <1>5, <1>6

LEMMA ClockWakesStep ==
  ASSUME IInv, ClockWakes
  PROVE  IInv'
<1> USE ProcsFacts
<1>1. PICK s \in Procs : s = clk.j
  BY DEF ClockWakes, IInv, Core, TypeOK, Procs
<1>2. /\ clk.on /\ WakeSlot(s, Ticks, clk.over) /\ clk' = [clk EXCEPT !.j = s + 1]
      /\ UNCHANGED <<th, wait_lock, tickslock, ticks>>
  BY <1>1 DEF ClockWakes, locks
<1>3. /\ state' \in [Procs -> States] /\ UNCHANGED <<chan, killed, parent, pid>>
      /\ QuietTable /\ RunnersStay
      /\ \A q \in Procs \ {s} : state'[q] = state[q]
      /\ state'[s] = "SLEEPING" => s = clk.over \/ chan[s] # Ticks
  BY <1>2, WakeSlotFacts
<1>4. clk \in [on : BOOLEAN, over : {None} \cup Procs, j : 0..NPROC] /\ s + 1 \in 0..NPROC
  BY DEF IInv, Core, TypeOK, Procs
<1>5. clk'.on = clk.on /\ clk'.over = clk.over /\ clk'.j = s + 1
  BY <1>2, <1>4
<1>6. TypeOK'
  <2>1. clk' \in [on : BOOLEAN, over : {None} \cup Procs, j : 0..NPROC]
    BY <1>2, <1>4
  <2> QED BY <1>2, <1>3, <2>1 DEF IInv, Core, TypeOK
<1>7. Core'
  BY <1>2, <1>3, <1>6, TableCore DEF IInv
<1>8. ClockOK'
  BY <1>2, <1>3, <1>4, <1>5 DEF IInv, ClockOK, RunnersStay
<1>9. ZombieIsSeen'
  BY <1>2, <1>3, <1>6, QuietZombies DEF IInv, Stays
<1>10. TickIsSeen'
  <2> SUFFICES ASSUME NEW p \in Procs, state'[p] = "SLEEPING", chan'[p] = Ticks,
                      Elapsed(th[p].t0)' >= th'[p].arg
               PROVE  clk'.on /\ clk'.j <= p
    BY DEF TickIsSeen
  <2>1. state[p] = "SLEEPING" /\ chan[p] = Ticks /\ Elapsed(th[p].t0) >= th[p].arg
    BY <1>2, <1>3 DEF QuietTable, Elapsed
  <2>2. clk.on /\ s <= p
    BY <1>1, <2>1 DEF IInv, TickIsSeen
  <2>3. p # s
    <3>1. clk.over # p
      BY <2>1 DEF IInv, ClockOK
    <3> QED BY <1>3, <2>1, <3>1
  <2>4. s \in Int /\ p \in Int
    OBVIOUS
  <2> QED BY <1>2, <1>5, <2>2, <2>3, <2>4
<1> QED BY <1>7, <1>8, <1>9, <1>10 DEF IInv

LEMMA ClockDoneStep ==
  ASSUME IInv, ClockDone
  PROVE  IInv'
<1> USE ProcsFacts
<1>1. /\ clk.on /\ clk.j = NPROC /\ tickslock' = None
      /\ clk' = [on |-> FALSE, over |-> None, j |-> 0]
      /\ state' = [p \in Procs |-> IF p = clk.over THEN "RUNNABLE" ELSE state[p]]
      /\ UNCHANGED <<chan, killed, parent, pid, th, wait_lock, ticks>>
  BY DEF ClockDone
<1>2. TypeOK'
  BY <1>1 DEF IInv, Core, TypeOK, States
<1>3. tickslock = Ticks
  BY <1>1 DEF IInv, ClockOK
<1>4. QuietTable
  BY <1>1 DEF QuietTable, Alive, IInv, ClockOK
<1>5. Core'
  BY <1>1, <1>2, <1>3, <1>4, TableCore DEF IInv
<1>6. ClockOK'
  BY <1>1 DEF ClockOK
<1>7. ZombieIsSeen'
  BY <1>1, <1>2, <1>4, QuietZombies DEF IInv, Stays, Core, SelfOK, At
<1>8. TickIsSeen'
  <2> SUFFICES ASSUME NEW p \in Procs, state'[p] = "SLEEPING", chan'[p] = Ticks,
                      Elapsed(th[p].t0)' >= th'[p].arg
               PROVE  FALSE
    BY DEF TickIsSeen
  <2>1. state[p] = "SLEEPING" /\ chan[p] = Ticks /\ Elapsed(th[p].t0) >= th[p].arg
    BY <1>1 DEF Elapsed
  <2>2. NPROC <= p
    BY <1>1, <2>1 DEF IInv, TickIsSeen
  <2> QED BY <2>2 DEF Procs
<1> QED BY <1>5, <1>6, <1>7, <1>8 DEF IInv

(* The clock starts anew for every sleeper whose time is over.             *)
LEMMA ClockStartStep ==
  ASSUME IInv, NEW p \in Procs \cup {None}, ClockStart(p)
  PROVE  IInv'
<1> USE ProcsFacts
<1>1. /\ tickslock = None /\ tickslock' = Ticks /\ ticks' = (ticks + 1) % Wrap
      /\ clk' = [on |-> TRUE, over |-> p, j |-> 0]
      /\ p # None => state[p] = "RUNNING"
      /\ UNCHANGED <<table, th, wait_lock>>
  BY DEF ClockStart, OnHart, Running
<1>2. TypeOK'
  <2>1. ticks' \in 0..(Wrap - 1)
    BY <1>1, TicksAssumption DEF IInv, Core, TypeOK
  <2> QED BY <1>1, <2>1 DEF IInv, Core, TypeOK, table
<1>3. QuietTable
  BY <1>1 DEF QuietTable, table
<1>4. Core'
  BY <1>1, <1>2, <1>3, TableCore DEF IInv
<1>5. ClockOK'
  BY <1>1 DEF ClockOK, table
<1>6. ZombieIsSeen'
  BY <1>1, <1>2, <1>3, QuietZombies DEF IInv, Stays, Core, SelfOK, At
<1>7. TickIsSeen'
  BY <1>1 DEF TickIsSeen, Procs
<1> QED BY <1>4, <1>5, <1>6, <1>7 DEF IInv

(* A process that exits, under wait_lock, wakes init for every child it    *)
(* has given away and then its parent.                                     *)
LEMMA ExitWakesStep ==
  ASSUME IInv, NEW p \in Procs, OnHart(p), ExitWakes(p)
  PROVE  IInv'
<1> USE ProcsFacts
<1>1. PICK s \in Procs, c \in Procs \cup {None} :
        /\ s = th[p].j /\ WakeSlot(s, c, p)
        /\ \/ th[p].pc = "wake_init" /\ c = initproc
           \/ th[p].pc = "wake_parent" /\ c = parent[p]
  <2>1. th[p].pc \in {"wake_init", "wake_parent"}
    BY DEF ExitWakes, At
  <2>2. th[p].j \in Procs
    BY <2>1, CursorFacts DEF IInv, Core, SelfOK, Procs
  <2>3. parent[p] \in Procs \cup {None}
    BY DEF IInv, Core, TypeOK
  <2> QED BY <2>1, <2>2, <2>3 DEF ExitWakes, At
<1>2. PICK pc \in {"wake_init", "reparent", "wake_parent", "zombie"} :
        /\ pc = CASE th[p].pc = "wake_init" /\ s = NPROC - 1 -> "reparent"
                  [] th[p].pc = "wake_parent" /\ s = NPROC - 1 -> "zombie"
                  [] OTHER -> th[p].pc
        /\ th' = [th EXCEPT ![p].j = s + 1, ![p].pc = pc]
        /\ UNCHANGED <<locks, clock>>
  BY <1>1 DEF ExitWakes
<1>3. /\ th' \in [Procs -> ThreadType] /\ th'[p].pc = pc /\ th'[p].j = s + 1
      /\ \A q \in Procs \ {p} : th'[q] = th[q]
  <2>1. th \in [Procs -> ThreadType]
    BY DEF IInv, Core, TypeOK, ThreadType
  <2>2. s + 1 \in 0..NPROC /\ pc \in Pcs
    BY DEF Procs, Pcs
  <2>3. [th[p] EXCEPT !.j = s + 1, !.pc = pc] \in ThreadType
    BY <2>1, <2>2 DEF ThreadType
  <2>4. th'[p] = [th[p] EXCEPT !.j = s + 1, !.pc = pc]
    BY <1>2, <2>1
  <2>5. th'[p].pc = pc /\ th'[p].j = s + 1
    BY <2>1, <2>4 DEF ThreadType
  <2> QED BY <1>2, <2>1, <2>3, <2>5
<1>4. /\ state' \in [Procs -> States] /\ UNCHANGED <<chan, killed, parent, pid>>
      /\ QuietTable /\ RunnersStay
      /\ \A q \in Procs \ {s} : state'[q] = state[q]
      /\ state'[s] = "SLEEPING" => s = p \/ chan[s] # c
  BY <1>1, <1>2, WakeSlotFacts DEF clock
<1>5. TypeOK'
  BY <1>2, <1>3, <1>4 DEF IInv, Core, TypeOK, ThreadType, locks, clock
<1>6. wait_lock = p /\ p # initproc /\ tickslock # p /\ state[p] = "RUNNING" /\ state'[p] = "RUNNING"
  BY <1>1, <1>4 DEF IInv, Core, SelfOK, HoldsWaitLock, ExitPcs, InitLives, At, RunnersStay,
                    OnHart, Running
<1>7. Moves(p)
  BY <1>2, <1>3, <1>6 DEF Moves, Stays, ForkPcs, locks
<1>8. SelfOK(p)'
  <2>1. pc \in {"wake_init", "wake_parent"} => s + 1 < NPROC
    <3>1. s # NPROC - 1 => s + 1 < NPROC
      BY DEF Procs
    <3> QED BY <1>1, <1>2, <3>1
  <2>2. pc \in ExitPcs /\ pc \notin SleepPcs \cup {"kill", "ticks_sleep"}
    BY DEF ExitPcs, SleepPcs
  <2> QED BY <1>2, <1>3, <1>6, <2>1, <2>2 DEF SelfOK, HoldsWaitLock, At, Alive, locks
<1>9. FamilyOK(p)'
  <2>1. CASE th[p].pc = "wake_init"
    <3>1. pc \in {"wake_init", "reparent"}
      BY <1>2, <2>1
    <3> QED BY <1>3, <3>1 DEF FamilyOK, At
  <2>2. CASE th[p].pc = "wake_parent"
    <3>1. Children(p)' = {}
      BY <1>4, <2>2 DEF IInv, Core, FamilyOK, Children
    <3>2. c = parent[p]
      BY <1>1, <2>2
    <3>3. ASSUME NEW q \in Procs, parent[p] = q, q < s + 1 PROVE ~AsleepInWait(q)'
      <4>1. CASE q = s
        BY <1>4, <1>6, <3>2, <3>3, <4>1 DEF AsleepInWait
      <4>2. CASE q # s
        <5>1. q < s
          BY <3>3, <4>2
        <5> QED BY <1>1, <1>4, <2>2, <3>3, <4>2, <5>1 DEF IInv, Core, FamilyOK, AsleepInWait, At
      <4> QED BY <4>1, <4>2
    <3>4. pc \in {"wake_parent", "zombie"}
      BY <1>2, <2>2
    <3>5. pc = "zombie" => \A q \in Procs : q < s + 1
      <4>1. pc = "zombie" => s = NPROC - 1
        BY <1>2, <2>2
      <4> QED BY <4>1 DEF Procs
    <3>6. \A q \in Procs : parent'[p] = q /\ q < s + 1 => ~AsleepInWait(q)'
      BY <1>4, <3>3
    <3>7. (At(p, "wake_parent") =>
            \A q \in Procs : parent[p] = q /\ q < th[p].j => ~AsleepInWait(q))'
      BY <1>3, <3>6
    <3>8. (At(p, "zombie") => \A q \in Procs : parent[p] = q => ~AsleepInWait(q))'
      BY <1>3, <3>5, <3>6 DEF At
    <3> QED BY <1>3, <3>1, <3>4, <3>7, <3>8 DEF FamilyOK, At
  <2> QED BY <1>1, <2>1, <2>2
<1>10. Core'
  BY <1>4, <1>5, <1>7, <1>8, <1>9, QuietCore DEF IInv
<1>11. ClockOK'
  BY <1>2, <1>4 DEF IInv, Core, TypeOK, ClockOK, RunnersStay, clock, locks
<1>12. TickIsSeen'
  <2>1. \A q \in Procs : state'[q] = "SLEEPING" => th'[q] = th[q]
    BY <1>3, <1>6
  <2> QED BY <1>2, <1>4, <1>5, <2>1, QuietSleepers DEF IInv
<1>13. ZombieIsSeen'
  <2>1. CASE th[p].pc = "wake_parent"
    <3>1. \A q \in Procs : At(q, "wake_init") => Stays(q)
      BY <1>7, <2>1 DEF Moves, At
    <3> QED BY <1>4, <1>5, <3>1, QuietZombies DEF IInv
  <2>2. CASE th[p].pc = "wake_init"
    <3> SUFFICES ASSUME NEW d \in Procs \ {initproc},
                        state'[d] = "ZOMBIE", parent'[d] # None,
                        AsleepInWait(parent[d])'
                 PROVE  FALSE
      BY DEF ZombieIsSeen, AsleepInWait
    <3>1. parent[d] \in Procs /\ AsleepInWait(parent[d]) /\ state[d] = "ZOMBIE"
      BY <1>4, <1>5, QuietSlots DEF IInv, Core, TypeOK
    <3>2. parent[d] = initproc /\ s <= initproc
      BY <1>1, <1>4, <1>6, <3>1 DEF IInv, ZombieIsSeen, AsleepInWait
    <3>3. s = initproc
      BY <3>2 DEF initproc
    <3> QED BY <1>1, <1>4, <1>6, <2>2, <3>1, <3>2, <3>3 DEF AsleepInWait
  <2> QED BY <1>1, <2>1, <2>2
<1> QED BY <1>10, <1>11, <1>12, <1>13 DEF IInv

-----------------------------------------------------------------------------
(* What the steps that make or end a process, or put one to sleep, leave   *)
(* alone.                                                                  *)
LEMMA SelfKeeps ==
  ASSUME Core, NEW q \in Procs, Stays(q), ticks' = ticks,
         \/ state'[q] = state[q] /\ chan'[q] = chan[q]
         \/ state[q] \notin Alive /\ state'[q] # "SLEEPING"
  PROVE  SelfOK(q)'
<1>1. th'[q] = th[q] /\ SelfOK(q)
  BY DEF Core, Stays
<1>2. Elapsed(th[q].t0)' = Elapsed(th[q].t0)
  BY <1>1 DEF Elapsed
<1>3. (~At(q, "user") => state[q] \in Alive)'
  BY <1>1 DEF SelfOK, At
<1>4. (state[q] = "SLEEPING" => \/ At(q, "wait") /\ chan[q] = q
                                \/ At(q, "sleep_again") /\ chan[q] = Ticks)'
  BY <1>1 DEF SelfOK, At
<1>5. (HoldsWaitLock(q) <=> wait_lock = q)' /\ (At(q, "ticks_sleep") <=> tickslock = q)'
  BY <1>1 DEF SelfOK, HoldsWaitLock, At, Stays
<1>6. (At(q, "ticks_sleep") => Elapsed(th[q].t0) < th[q].arg)'
  BY <1>1, <1>2 DEF SelfOK, At
<1> QED BY <1>1, <1>3, <1>4, <1>5, <1>6 DEF SelfOK, At

LEMMA FamilyKeeps ==
  ASSUME Core, NEW q \in Procs, Stays(q),
         Children(q)' \subseteq Children(q), parent'[q] \in {parent[q], None},
         \A c \in Procs : state'[c] = "ZOMBIE" => state[c] = "ZOMBIE",
         \A r \in Procs : AsleepInWait(r)' => AsleepInWait(r)
  PROVE  FamilyOK(q)'
<1> USE ProcsFacts
<1>1. th'[q] = th[q] /\ FamilyOK(q) /\ Children(q)' \subseteq Procs
  BY DEF Core, Stays, Children
<1>2. (th[q].pc \in {"wake_parent", "zombie"} => Children(q) = {})'
  BY <1>1 DEF FamilyOK
<1>3. /\ (At(q, "wait_scan") => \A c \in Children(q) : c < th[q].i => state[c] # "ZOMBIE")'
      /\ (At(q, "wait_sleep") => \A c \in Children(q) : state[c] # "ZOMBIE")'
  BY <1>1 DEF FamilyOK, At
<1>4. (At(q, "wake_parent") =>
        \A r \in Procs : parent[q] = r /\ r < th[q].j => ~AsleepInWait(r))'
  BY <1>1 DEF FamilyOK, At
<1>5. (At(q, "zombie") => \A r \in Procs : parent[q] = r => ~AsleepInWait(r))'
  BY <1>1 DEF FamilyOK, At
<1> QED BY <1>2, <1>3, <1>4, <1>5 DEF FamilyOK

(* Whoever does not hold wait_lock relies on nothing about its family.     *)
LEMMA FamilyUnlocked ==
  ASSUME NEW q \in Procs, ~HoldsWaitLock(q)'
  PROVE  FamilyOK(q)'
BY DEF FamilyOK, HoldsWaitLock, At, ExitPcs

LEMMA ForkKeeps ==
  ASSUME Core, NEW q \in Procs, th'[q] = th[q],
         th[q].pc \in ForkPcs => /\ state'[th[q].arg] = state[th[q].arg]
                                 /\ parent'[th[q].arg] = parent[th[q].arg]
  PROVE  ForkOK(q)'
<1>1. ForkOK(q)
  BY DEF Core
<1> QED BY <1>1 DEF ForkOK, ForkPcs, At

LEMMA ChildrenKeep ==
  ASSUME Core, NEW p \in Procs,
         \A q \in Procs \ {p} : th'[q] = th[q],
         \/ th'[p].pc \notin ForkPcs
         \/ th[p].pc \in ForkPcs /\ th'[p].arg = th[p].arg
  PROVE  ChildrenDiffer'
<1>1. ChildrenDiffer
  BY DEF Core
<1> QED BY <1>1 DEF ChildrenDiffer

LEMMA ZombiesKeep ==
  ASSUME Core, ZombieIsSeen, TypeOK',
         \A c \in Procs : state'[c] = "ZOMBIE" => state[c] = "ZOMBIE" /\ parent'[c] = parent[c],
         \A r \in Procs : AsleepInWait(r)' => AsleepInWait(r),
         \A p \in Procs : At(p, "wake_init") => Stays(p)
  PROVE  ZombieIsSeen'
<1> USE ProcsFacts
<1> SUFFICES ASSUME NEW c \in Procs \ {initproc},
                    state'[c] = "ZOMBIE", parent'[c] # None,
                    state'[parent'[c]] = "SLEEPING", chan'[parent'[c]] = parent'[c]
             PROVE  \E p \in Procs : /\ wait_lock' = p /\ At(p, "wake_init")'
                                     /\ parent'[c] = initproc /\ th'[p].j <= initproc
  BY DEF ZombieIsSeen
<1>1. parent'[c] = parent[c] /\ parent[c] \in Procs
  BY DEF Core, TypeOK
<1>2. state[c] = "ZOMBIE" /\ AsleepInWait(parent[c])
  BY <1>1 DEF AsleepInWait
<1>3. PICK p \in Procs : /\ wait_lock = p /\ At(p, "wake_init")
                         /\ parent[c] = initproc /\ th[p].j <= initproc
  BY <1>1, <1>2 DEF ZombieIsSeen, AsleepInWait
<1> QED BY <1>1, <1>3 DEF Stays, At

(* While a process other than one that wakes init holds wait_lock, no      *)
(* zombie is overlooked, and there is none when it gives the lock up.      *)
LEMMA NoneOverlooked ==
  ASSUME Core, ZombieIsSeen, NEW p \in Procs, wait_lock = p, ~At(p, "wake_init"),
         NEW c \in Procs \ {initproc}, state[c] = "ZOMBIE",
         NEW q \in Procs, parent[c] = q
  PROVE  ~AsleepInWait(q)
BY ProcsFacts DEF ZombieIsSeen, AsleepInWait

LEMMA SleepersKeep ==
  ASSUME TickIsSeen, UNCHANGED clock,
         \A p \in Procs : state'[p] = "SLEEPING" /\ chan'[p] = Ticks =>
                            state[p] = "SLEEPING" /\ chan[p] = Ticks /\ th'[p] = th[p]
  PROVE  TickIsSeen'
BY DEF TickIsSeen, clock, Elapsed

LEMMA ClockKeeps ==
  ASSUME Core, ClockOK, UNCHANGED clock, tickslock' = Ticks <=> tickslock = Ticks,
         \A q \in Procs : q = clk.over => state'[q] = state[q]
  PROVE  ClockOK'
<1>1. clk.over # None => clk.over \in Procs
  BY DEF Core, TypeOK
<1> QED BY <1>1 DEF ClockOK, clock

-----------------------------------------------------------------------------
(* The slot that fork() takes.                                             *)
LEMMA AllocprocStep ==
  ASSUME IInv, NEW p \in Procs, OnHart(p), Allocproc(p)
  PROVE  IInv'
<1> USE ProcsFacts
<1>1. PICK s \in Procs : s = Slot(p)
  BY CursorFacts DEF Allocproc, Slot, Procs
<1>2. /\ th[p].pc = "alloc" /\ state[s] = "UNUSED" /\ state[p] = "RUNNING" /\ clk.over # p
      /\ state' = [state EXCEPT ![s] = "USED"]
      /\ pid' = [pid EXCEPT ![s] = FreshPid(s)]
      /\ GoTo(p, "forking", s)
      /\ UNCHANGED <<chan, killed, parent, locks, clock>>
  BY <1>1 DEF Allocproc, At, OnHart, Running
<1>3. s # initproc /\ s # p
  BY <1>2 DEF IInv, Core, InitLives, Alive
<1>4. PICK n \in Pids : n = FreshPid(s) /\ n # 1
  BY <1>2, <1>3, FreshPidFacts DEF At
<1>5. PICK t \in ThreadType : t = Thread("forking", s) /\ t.pc = "forking" /\ t.arg = s
  BY ThreadFacts DEF Pcs
<1>6. th' = [th EXCEPT ![p] = t]
  BY <1>2, <1>5 DEF GoTo
<1>7. TypeOK'
  BY <1>2, <1>4, <1>6 DEF IInv, Core, TypeOK, ThreadType, States, locks, clock
<1>8. /\ th'[p] = t /\ \A q \in Procs \ {p} : th'[q] = th[q]
      /\ state'[s] = "USED" /\ \A q \in Procs \ {s} : state'[q] = state[q]
      /\ pid'[s] = n /\ \A q \in Procs \ {s} : pid'[q] = pid[q]
  BY <1>2, <1>4, <1>6 DEF IInv, Core, TypeOK
<1>9. \A q \in Procs \ {p} : Stays(q)
  BY <1>2, <1>8 DEF Stays, locks
<1>10. \A q \in Procs : AsleepInWait(q)' => AsleepInWait(q)
  BY <1>2, <1>8 DEF AsleepInWait
<1>11. ASSUME NEW q \in Procs PROVE SelfOK(q)'
  <2>1. CASE q = p
    <3>1. wait_lock' # p /\ tickslock' # p
      BY <1>2 DEF IInv, Core, SelfOK, HoldsWaitLock, ExitPcs, At, locks
    <3> QED BY <1>2, <1>3, <1>5, <1>8, <2>1, <3>1
            DEF SelfOK, HoldsWaitLock, At, ExitPcs, SleepPcs, Alive
  <2>2. CASE q # p
    BY <1>2, <1>8, <1>9, <2>2, SelfKeeps DEF IInv, Alive, clock
  <2> QED BY <2>1, <2>2
<1>12. ASSUME NEW q \in Procs PROVE ForkOK(q)'
  <2>1. CASE q = p
    BY <1>5, <1>8, <2>1 DEF ForkOK, At
  <2>2. CASE q # p
    <3>1. th[q].pc \in ForkPcs => th[q].arg \in Procs \ {s}
      BY <1>2 DEF IInv, Core, ForkOK
    <3> QED BY <1>2, <1>8, <2>2, <3>1, ForkKeeps DEF IInv
  <2> QED BY <2>1, <2>2
<1>13. ASSUME NEW q \in Procs PROVE FamilyOK(q)'
  <2>1. CASE q = p
    BY <1>5, <1>8, <2>1, FamilyUnlocked DEF HoldsWaitLock, ExitPcs
  <2>2. CASE q # p
    <3>1. Children(q)' = Children(q) /\ parent'[q] = parent[q]
      BY <1>2 DEF Children
    <3> QED BY <1>8, <1>9, <1>10, <2>2, <3>1, FamilyKeeps DEF IInv
  <2> QED BY <2>1, <2>2
<1>14. ASSUME NEW c \in Procs PROVE SlotOK(c)'
  <2>1. SlotOK(c) /\ parent'[c] = parent[c] /\ killed'[c] = killed[c]
    BY <1>2 DEF IInv, Core
  <2>2. parent[c] # None => parent[c] \in Procs \ {s}
    BY <1>2, <2>1 DEF SlotOK, IInv, Core, TypeOK, Alive
  <2> QED BY <1>4, <1>8, <2>1, <2>2 DEF SlotOK
<1>15. InitLives'
  BY <1>2, <1>3, <1>5, <1>8 DEF IInv, Core, InitLives, ExitPcs
<1>16. ChildrenDiffer'
  <2>1. \A q \in Procs \ {p} : th[q].pc \in ForkPcs => th[q].arg # s
    BY <1>2 DEF IInv, Core, ForkOK
  <2> QED BY <1>5, <1>8, <2>1 DEF IInv, Core, ChildrenDiffer
<1>17. ClockOK'
  <2>1. clk.over # s
    BY <1>2 DEF IInv, ClockOK
  <2> QED BY <1>2, <1>8, <2>1, ClockKeeps DEF IInv, locks
<1>18. ZombieIsSeen'
  BY <1>2, <1>7, <1>8, <1>9, <1>10, ZombiesKeep DEF IInv, At
<1>19. TickIsSeen'
  BY <1>2, <1>8, SleepersKeep DEF IInv
<1> QED BY <1>7, <1>11, <1>12, <1>13, <1>14, <1>15, <1>16, <1>17, <1>18, <1>19 DEF IInv, Core

(* A slot becomes free: the one of a fork() that fails, or of a zombie.    *)
LEMMA FreeprocStep ==
  ASSUME IInv, NEW p \in Procs, OnHart(p), NEW c \in Procs, Freeproc(c), Return(p),
         th[p].pc \in {"forking", "wait_scan"},
         state[c] \in {"USED", "ZOMBIE"},
         \A q \in Procs \ {p} : th[q].pc \in ForkPcs => th[q].arg # c,
         UNCHANGED <<tickslock, clock>>,
         wait_lock' = IF wait_lock = p THEN None ELSE wait_lock
  PROVE  IInv'
<1> USE ProcsFacts
<1>1. /\ state[p] = "RUNNING" /\ clk.over # p
      /\ state' = [state EXCEPT ![c] = "UNUSED"] /\ chan' = [chan EXCEPT ![c] = None]
      /\ killed' = [killed EXCEPT ![c] = FALSE] /\ parent' = [parent EXCEPT ![c] = None]
      /\ pid' = [pid EXCEPT ![c] = 0]
  BY DEF Freeproc, OnHart, Running
<1>2. c # initproc /\ c # p
  BY <1>1 DEF IInv, Core, InitLives, Alive
<1>3. PICK t \in ThreadType : t.pc = "user" /\ th' = [th EXCEPT ![p] = t]
  BY UserFacts
<1>4. TypeOK'
  BY <1>1, <1>3 DEF IInv, Core, TypeOK, ThreadType, States, clock
<1>5. /\ th'[p] = t /\ \A q \in Procs \ {p} : th'[q] = th[q]
      /\ state'[c] = "UNUSED" /\ \A q \in Procs \ {c} : state'[q] = state[q]
      /\ chan'[c] = None /\ \A q \in Procs \ {c} : chan'[q] = chan[q]
      /\ parent'[c] = None /\ \A q \in Procs \ {c} : parent'[q] = parent[q]
      /\ pid'[c] = 0 /\ \A q \in Procs \ {c} : pid'[q] = pid[q]
      /\ ~killed'[c] /\ \A q \in Procs \ {c} : killed'[q] = killed[q]
  BY <1>1, <1>3 DEF IInv, Core, TypeOK
<1>6. \A q \in Procs \ {p} : Stays(q)
  BY <1>5 DEF Stays
<1>7. \A q \in Procs : AsleepInWait(q)' => AsleepInWait(q)
  BY <1>5 DEF AsleepInWait
<1>8. \A q \in Procs : state'[q] = "ZOMBIE" => state[q] = "ZOMBIE" /\ parent'[q] = parent[q]
  BY <1>5
<1>9. ASSUME NEW q \in Procs PROVE SelfOK(q)'
  <2>1. CASE q = p
    <3>1. wait_lock' # p /\ tickslock' # p
      BY DEF IInv, Core, SelfOK, At
    <3> QED BY <1>1, <1>2, <1>3, <1>5, <2>1, <3>1
            DEF SelfOK, HoldsWaitLock, At, ExitPcs, SleepPcs
  <2>2. CASE q # p
    BY <1>5, <1>6, <2>2, SelfKeeps DEF IInv, Alive, clock
  <2> QED BY <2>1, <2>2
<1>10. ASSUME NEW q \in Procs PROVE ForkOK(q)'
  <2>1. CASE q = p
    BY <1>3, <1>5, <2>1 DEF ForkOK, At, ForkPcs
  <2>2. CASE q # p
    <3>1. th[q].pc \in ForkPcs => th[q].arg \in Procs \ {c}
      BY <2>2 DEF IInv, Core, ForkOK
    <3> QED BY <1>5, <2>2, <3>1, ForkKeeps DEF IInv
  <2> QED BY <2>1, <2>2
<1>11. ASSUME NEW q \in Procs PROVE FamilyOK(q)'
  <2>1. CASE q = p
    BY <1>3, <1>5, <2>1, FamilyUnlocked DEF HoldsWaitLock, ExitPcs
  <2>2. CASE q # p
    <3>1. Children(q)' = {d \in Procs : parent'[d] = q}
      BY DEF Children
    <3>2. \A d \in Procs : parent'[d] = q => parent[d] = q
      BY <1>5
    <3>3. Children(q)' \subseteq Children(q)
      BY <3>1, <3>2 DEF Children
    <3>4. parent'[q] \in {parent[q], None}
      BY <1>5
    <3> QED BY <1>6, <1>7, <1>8, <2>2, <3>3, <3>4, FamilyKeeps DEF IInv
  <2> QED BY <2>1, <2>2
<1>12. ASSUME NEW d \in Procs PROVE SlotOK(d)'
  <2>1. SlotOK(d)
    BY DEF IInv, Core
  <2>2. CASE d = c
    <3>1. /\ state'[d] = "UNUSED" /\ parent'[d] = None /\ pid'[d] = 0 /\ ~killed'[d]
          /\ pid'[d] # 1
      BY <1>5, <2>2
    <3> QED BY <3>1 DEF SlotOK
  <2>3. CASE d # c
    <3>1. parent[d] # None => parent[d] \in Procs \ {c}
      BY <2>1 DEF SlotOK, IInv, Core, TypeOK, Alive
    <3>2. /\ state'[d] = state[d] /\ parent'[d] = parent[d] /\ pid'[d] = pid[d]
          /\ killed'[d] = killed[d]
      BY <1>5, <2>3
    <3>3. parent[d] # None => state'[parent[d]] = state[parent[d]]
      BY <1>5, <3>1
    <3> QED BY <2>1, <3>2, <3>3, Zenon DEF SlotOK
  <2> QED BY <2>2, <2>3
<1>13. InitLives'
  BY <1>2, <1>3, <1>5 DEF IInv, Core, InitLives, ExitPcs
<1>14. ChildrenDiffer'
  BY <1>3, <1>5, ChildrenKeep DEF IInv, ForkPcs
<1>15. ClockOK'
  <2>1. clk.over # c
    BY DEF IInv, ClockOK
  <2> QED BY <1>5, <2>1, ClockKeeps DEF IInv
<1>16. ZombieIsSeen'
  BY <1>4, <1>6, <1>7, <1>8, ZombiesKeep DEF IInv, At
<1>17. TickIsSeen'
  BY <1>1, <1>5, SleepersKeep DEF IInv
<1> QED BY <1>4, <1>9, <1>10, <1>11, <1>12, <1>13, <1>14, <1>15, <1>16, <1>17 DEF IInv, Core

LEMMA FreeSteps ==
  ASSUME IInv, NEW p \in Procs, OnHart(p), ForkFails(p) \/ WaitReap(p)
  PROVE  IInv'
<1>1. CASE ForkFails(p)
  <2>1. /\ th[p].pc = "forking" /\ Freeproc(th[p].arg) /\ Return(p)
        /\ UNCHANGED <<wait_lock, tickslock, clock>>
    BY <1>1 DEF ForkFails, At, locks
  <2>2. PICK c \in Procs : c = th[p].arg /\ state[c] = "USED"
    BY <2>1 DEF IInv, Core, ForkOK, ForkPcs
  <2>3. \A q \in Procs \ {p} : th[q].pc \in ForkPcs => th[q].arg # c
    BY <2>1, <2>2 DEF IInv, Core, ChildrenDiffer, ForkPcs
  <2>4. wait_lock # p
    BY <2>1 DEF IInv, Core, SelfOK, HoldsWaitLock, ExitPcs
  <2> QED BY <2>1, <2>2, <2>3, <2>4, FreeprocStep
<1>2. CASE WaitReap(p)
  <2>1. PICK c \in Procs : state[c] = "ZOMBIE" /\ Freeproc(c)
    BY <1>2 DEF WaitReap
  <2>2. /\ th[p].pc = "wait_scan" /\ Return(p) /\ wait_lock' = None
        /\ UNCHANGED <<tickslock, clock>>
    BY <1>2 DEF WaitReap, At
  <2>3. \A q \in Procs \ {p} : th[q].pc \in ForkPcs => th[q].arg # c
    BY <2>1 DEF IInv, Core, ForkOK
  <2>4. wait_lock = p
    BY <2>2 DEF IInv, Core, SelfOK, HoldsWaitLock
  <2> QED BY <2>1, <2>2, <2>3, <2>4, FreeprocStep
<1> QED BY <1>1, <1>2

-----------------------------------------------------------------------------
(* The child gets a parent, and then runs.                                 *)
LEMMA ForkParentStep ==
  ASSUME IInv, NEW p \in Procs, OnHart(p), ForkParent(p)
  PROVE  IInv'
<1> USE ProcsFacts
<1>1. PICK c \in Procs : c = th[p].arg /\ state[c] = "USED"
  BY DEF ForkParent, IInv, Core, ForkOK, ForkPcs, At
<1>2. /\ th[p].pc = "fork_parent" /\ state[p] = "RUNNING" /\ clk.over # p
      /\ parent' = [parent EXCEPT ![c] = p] /\ GoTo(p, "fork_run", c)
      /\ UNCHANGED <<state, chan, killed, pid, locks, clock>>
  BY <1>1 DEF ForkParent, At, OnHart, Running
<1>3. c # p /\ th[c].pc = "user"
  BY <1>1, <1>2 DEF IInv, Core, SelfOK, At, Alive
<1>4. PICK t \in ThreadType : t = Thread("fork_run", c) /\ t.pc = "fork_run" /\ t.arg = c
  BY ThreadFacts DEF Pcs
<1>5. th' = [th EXCEPT ![p] = t]
  BY <1>2, <1>4 DEF GoTo
<1>6. TypeOK'
  BY <1>2, <1>5 DEF IInv, Core, TypeOK, ThreadType, locks, clock
<1>7. /\ th'[p] = t /\ \A q \in Procs \ {p} : th'[q] = th[q]
      /\ parent'[c] = p /\ \A q \in Procs \ {c} : parent'[q] = parent[q]
  BY <1>2, <1>5 DEF IInv, Core, TypeOK
<1>8. \A q \in Procs \ {p} : Stays(q)
  BY <1>2, <1>7 DEF Stays, locks
<1>9. \A q \in Procs : AsleepInWait(q)' <=> AsleepInWait(q)
  BY <1>2 DEF AsleepInWait
<1>10. ASSUME NEW q \in Procs PROVE SelfOK(q)'
  <2>1. CASE q = p
    <3>1. wait_lock' # p /\ tickslock' # p
      BY <1>2 DEF IInv, Core, SelfOK, HoldsWaitLock, ExitPcs, At, locks
    <3>2. t.pc \notin ExitPcs \cup SleepPcs \cup {"wait_scan", "wait_sleep", "kill", "user"}
      BY <1>4 DEF ExitPcs, SleepPcs
    <3> QED BY <1>2, <1>4, <1>7, <2>1, <3>1, <3>2 DEF SelfOK, HoldsWaitLock, At, Alive
  <2>2. CASE q # p
    BY <1>2, <1>8, <2>2, SelfKeeps DEF IInv, clock
  <2> QED BY <2>1, <2>2
<1>11. ASSUME NEW q \in Procs PROVE ForkOK(q)'
  <2>1. CASE q = p
    BY <1>1, <1>2, <1>4, <1>7, <2>1 DEF ForkOK, At
  <2>2. CASE q # p
    <3>1. th[q].pc \in ForkPcs => th[q].arg \in Procs \ {c}
      BY <1>1, <1>2, <2>2 DEF IInv, Core, ForkOK, ChildrenDiffer, ForkPcs
    <3> QED BY <1>2, <1>7, <2>2, <3>1, ForkKeeps DEF IInv
  <2> QED BY <2>1, <2>2
<1>12. ASSUME NEW q \in Procs PROVE FamilyOK(q)'
  <2>1. CASE q \in {p, c}
    <3>1. th'[q].pc \in {"fork_run", "user"}
      BY <1>3, <1>4, <1>7, <2>1
    <3> QED BY <3>1, FamilyUnlocked DEF HoldsWaitLock, ExitPcs
  <2>2. CASE q \notin {p, c}
    <3>1. Children(q)' = {d \in Procs : parent'[d] = q}
      BY DEF Children
    <3>2. \A d \in Procs : parent'[d] = q => parent[d] = q
      BY <1>7, <2>2
    <3>3. Children(q)' \subseteq Children(q)
      BY <3>1, <3>2 DEF Children
    <3>4. parent'[q] \in {parent[q], None} /\ \A d \in Procs : state'[d] = "ZOMBIE" => state[d] = "ZOMBIE"
      BY <1>2, <1>7, <2>2
    <3> QED BY <1>8, <1>9, <2>2, <3>3, <3>4, FamilyKeeps DEF IInv
  <2> QED BY <2>1, <2>2
<1>13. ASSUME NEW d \in Procs PROVE SlotOK(d)'
  <2>1. SlotOK(d) /\ UNCHANGED <<state, pid, killed>>
    BY <1>2 DEF IInv, Core
  <2>2. CASE d = c
    <3>1. state[p] \in Alive /\ state[d] = "USED" /\ parent'[d] = p
      BY <1>1, <1>2, <1>7, <2>2 DEF Alive
    <3> QED BY <2>1, <3>1 DEF SlotOK
  <2>3. CASE d # c
    <3>1. parent'[d] = parent[d]
      BY <1>7, <2>3
    <3> QED BY <2>1, <3>1 DEF SlotOK
  <2> QED BY <2>2, <2>3
<1>14. InitLives'
  BY <1>2, <1>4, <1>7 DEF IInv, Core, InitLives, ExitPcs
<1>15. ChildrenDiffer'
  BY <1>1, <1>2, <1>4, <1>7, ChildrenKeep DEF IInv, ForkPcs
<1>16. ClockOK'
  BY <1>2, ClockKeeps DEF IInv, locks
<1>17. ZombieIsSeen'
  <2>1. \A d \in Procs : state'[d] = "ZOMBIE" => state[d] = "ZOMBIE" /\ parent'[d] = parent[d]
    BY <1>1, <1>2, <1>7
  <2>2. \A q \in Procs : At(q, "wake_init") => Stays(q)
    BY <1>2, <1>8 DEF At
  <2> QED BY <1>6, <1>9, <2>1, <2>2, ZombiesKeep DEF IInv
<1>18. TickIsSeen'
  BY <1>2, <1>7, SleepersKeep DEF IInv
<1> QED BY <1>6, <1>10, <1>11, <1>12, <1>13, <1>14, <1>15, <1>16, <1>17, <1>18 DEF IInv, Core

LEMMA ForkRunStep ==
  ASSUME IInv, NEW p \in Procs, OnHart(p), ForkRun(p)
  PROVE  IInv'
<1> USE ProcsFacts
<1>1. PICK c \in Procs : c = th[p].arg /\ state[c] = "USED" /\ parent[c] = p
  BY DEF ForkRun, IInv, Core, ForkOK, ForkPcs, At
<1>2. /\ th[p].pc = "fork_run" /\ state[p] = "RUNNING" /\ clk.over # p
      /\ state' = [state EXCEPT ![c] = "RUNNABLE"] /\ Return(p)
      /\ UNCHANGED <<chan, killed, parent, pid, locks, clock>>
  BY <1>1 DEF ForkRun, At, OnHart, Running
<1>3. c # p /\ c # initproc
  BY <1>1, <1>2 DEF IInv, Core, InitLives, Alive
<1>4. PICK t \in ThreadType : t.pc = "user" /\ th' = [th EXCEPT ![p] = t]
  BY <1>2, UserFacts
<1>5. TypeOK'
  BY <1>2, <1>4 DEF IInv, Core, TypeOK, ThreadType, States, locks, clock
<1>6. /\ th'[p] = t /\ \A q \in Procs \ {p} : th'[q] = th[q]
      /\ state'[c] = "RUNNABLE" /\ \A q \in Procs \ {c} : state'[q] = state[q]
  BY <1>2, <1>4 DEF IInv, Core, TypeOK
<1>7. \A q \in Procs \ {p} : Stays(q)
  BY <1>2, <1>6 DEF Stays, locks
<1>8. \A q \in Procs : AsleepInWait(q)' => AsleepInWait(q)
  BY <1>2, <1>6 DEF AsleepInWait
<1>9. ASSUME NEW q \in Procs PROVE SelfOK(q)'
  <2>1. CASE q = p
    <3>1. wait_lock' # p /\ tickslock' # p
      BY <1>2 DEF IInv, Core, SelfOK, HoldsWaitLock, ExitPcs, At, locks
    <3>2. t.pc \notin ExitPcs \cup SleepPcs \cup {"wait_scan", "wait_sleep", "kill"}
      BY <1>4 DEF ExitPcs, SleepPcs
    <3> QED BY <1>2, <1>3, <1>4, <1>6, <2>1, <3>1, <3>2 DEF SelfOK, HoldsWaitLock, At
  <2>2. CASE q # p
    BY <1>1, <1>2, <1>6, <1>7, <2>2, SelfKeeps DEF IInv, Alive, clock
  <2> QED BY <2>1, <2>2
<1>10. ASSUME NEW q \in Procs PROVE ForkOK(q)'
  <2>1. CASE q = p
    BY <1>4, <1>6, <2>1 DEF ForkOK, At, ForkPcs
  <2>2. CASE q # p
    <3>1. th[q].pc \in ForkPcs => th[q].arg \in Procs \ {c}
      BY <1>1, <1>2, <2>2 DEF IInv, Core, ForkOK, ChildrenDiffer, ForkPcs
    <3> QED BY <1>2, <1>6, <2>2, <3>1, ForkKeeps DEF IInv
  <2> QED BY <2>1, <2>2
<1>11. ASSUME NEW q \in Procs PROVE FamilyOK(q)'
  <2>1. CASE q = p
    BY <1>4, <1>6, <2>1, FamilyUnlocked DEF HoldsWaitLock, ExitPcs
  <2>2. CASE q # p
    <3>1. Children(q)' = Children(q) /\ parent'[q] = parent[q]
      BY <1>2 DEF Children
    <3>2. \A d \in Procs : state'[d] = "ZOMBIE" => state[d] = "ZOMBIE"
      BY <1>6
    <3> QED BY <1>7, <1>8, <2>2, <3>1, <3>2, FamilyKeeps DEF IInv
  <2> QED BY <2>1, <2>2
<1>12. ASSUME NEW d \in Procs PROVE SlotOK(d)'
  <2>1. SlotOK(d) /\ UNCHANGED <<parent, pid, killed>>
    BY <1>2 DEF IInv, Core
  <2>2. parent[d] # None => parent[d] \in Procs \ {c}
    BY <1>1, <2>1 DEF SlotOK, IInv, Core, TypeOK, Alive
  <2>3. CASE d = c
    BY <1>1, <1>6, <2>1, <2>2, <2>3 DEF SlotOK
  <2>4. CASE d # c
    BY <1>6, <2>1, <2>2, <2>4 DEF SlotOK
  <2> QED BY <2>3, <2>4
<1>13. InitLives'
  BY <1>2, <1>3, <1>4, <1>6 DEF IInv, Core, InitLives, ExitPcs
<1>14. ChildrenDiffer'
  BY <1>4, <1>6, ChildrenKeep DEF IInv, ForkPcs
<1>15. ClockOK'
  <2>1. clk.over # c
    BY <1>1 DEF IInv, ClockOK
  <2> QED BY <1>2, <1>6, <2>1, ClockKeeps DEF IInv, locks
<1>16. ZombieIsSeen'
  <2>1. \A d \in Procs : state'[d] = "ZOMBIE" => state[d] = "ZOMBIE" /\ parent'[d] = parent[d]
    BY <1>2, <1>6
  <2>2. \A q \in Procs : At(q, "wake_init") => Stays(q)
    BY <1>2, <1>7 DEF At
  <2> QED BY <1>5, <1>8, <2>1, <2>2, ZombiesKeep DEF IInv
<1>17. TickIsSeen'
  BY <1>2, <1>6, SleepersKeep DEF IInv
<1> QED BY <1>5, <1>9, <1>10, <1>11, <1>12, <1>13, <1>14, <1>15, <1>16, <1>17 DEF IInv, Core

-----------------------------------------------------------------------------
(* Steps under wait_lock that change a family: a child goes to init, a     *)
(* process ends, a parent goes to sleep.                                   *)

(* Everybody but the holder of wait_lock has no part in it.                *)
LEMMA OthersUnlocked ==
  ASSUME Core, NEW p \in Procs, wait_lock = p
  PROVE  \A q \in Procs \ {p} : ~HoldsWaitLock(q)
BY DEF Core, SelfOK

LEMMA ReparentStep ==
  ASSUME IInv, NEW p \in Procs, OnHart(p), Reparent(p)
  PROVE  IInv'
<1> USE ProcsFacts
<1>1. PICK c \in Procs : parent[c] = p /\ parent' = [parent EXCEPT ![c] = initproc]
  BY DEF Reparent, Children
<1>2. /\ th[p].pc = "reparent" /\ state[p] = "RUNNING" /\ clk.over # p
      /\ GoTo(p, "wake_init", 0)
      /\ UNCHANGED <<state, chan, killed, pid, locks, clock>>
  BY DEF Reparent, At, OnHart, Running
<1>3. PICK t \in ThreadType : t = Thread("wake_init", 0) /\ t.pc = "wake_init" /\ t.j = 0
  BY ThreadFacts DEF Pcs
<1>4. th' = [th EXCEPT ![p] = t]
  BY <1>2, <1>3 DEF GoTo
<1>5. TypeOK'
  BY <1>1, <1>2, <1>4 DEF IInv, Core, TypeOK, ThreadType, locks, clock
<1>6. /\ th'[p] = t /\ \A q \in Procs \ {p} : th'[q] = th[q]
      /\ parent'[c] = initproc /\ \A q \in Procs \ {c} : parent'[q] = parent[q]
  BY <1>1, <1>4 DEF IInv, Core, TypeOK
<1>7. \A q \in Procs \ {p} : Stays(q)
  BY <1>2, <1>6 DEF Stays, locks
<1>8. wait_lock = p /\ wait_lock' = p /\ p # initproc /\ tickslock' # p
  BY <1>2 DEF IInv, Core, SelfOK, HoldsWaitLock, ExitPcs, At, InitLives, locks
<1>9. \A q \in Procs \ {p} : ~HoldsWaitLock(q)
  BY <1>8, OthersUnlocked DEF IInv
<1>10. ASSUME NEW q \in Procs PROVE SelfOK(q)'
  <2>1. CASE q = p
    <3>1. t.pc \in ExitPcs /\ t.pc \notin SleepPcs \cup {"kill", "user"}
      BY <1>3 DEF ExitPcs, SleepPcs
    <3>2. t.j < NPROC
      BY <1>3
    <3> QED BY <1>2, <1>3, <1>6, <1>8, <2>1, <3>1, <3>2 DEF SelfOK, HoldsWaitLock, At, Alive
  <2>2. CASE q # p
    BY <1>2, <1>7, <2>2, SelfKeeps DEF IInv, clock
  <2> QED BY <2>1, <2>2
<1>11. ASSUME NEW q \in Procs PROVE ForkOK(q)'
  <2>1. CASE q = p
    BY <1>3, <1>6, <2>1 DEF ForkOK, At, ForkPcs
  <2>2. CASE q # p
    <3>1. ForkOK(q) /\ th'[q] = th[q] /\ state' = state
      BY <1>2, <1>6, <2>2 DEF IInv, Core
    <3>2. At(q, "fork_run") => parent'[th[q].arg] = q
      <4>1. At(q, "fork_run") => th[q].arg \in Procs \ {c}
        BY <1>1, <2>2, <3>1 DEF ForkOK, ForkPcs, At
      <4> QED BY <1>6, <3>1, <4>1 DEF ForkOK
    <3> QED BY <3>1, <3>2 DEF ForkOK, At
  <2> QED BY <2>1, <2>2
<1>12. ASSUME NEW q \in Procs PROVE FamilyOK(q)'
  <2>1. CASE q = p
    BY <1>3, <1>6, <2>1 DEF FamilyOK, At
  <2>2. CASE q # p
    BY <1>6, <1>9, <2>2, FamilyUnlocked DEF HoldsWaitLock
  <2> QED BY <2>1, <2>2
<1>13. ASSUME NEW d \in Procs PROVE SlotOK(d)'
  <2>1. SlotOK(d) /\ UNCHANGED <<state, pid, killed>> /\ state[initproc] \in Alive
    BY <1>2 DEF IInv, Core, InitLives
  <2>2. parent'[d] = initproc \/ parent'[d] = parent[d]
    BY <1>6
  <2> QED BY <2>1, <2>2 DEF SlotOK
<1>14. InitLives'
  BY <1>2, <1>6, <1>8 DEF IInv, Core, InitLives
<1>15. ChildrenDiffer'
  BY <1>3, <1>6, ChildrenKeep DEF IInv, ForkPcs
<1>16. ClockOK'
  BY <1>2, ClockKeeps DEF IInv, locks
<1>17. ZombieIsSeen'
  <2> SUFFICES ASSUME NEW d \in Procs \ {initproc}, state'[d] = "ZOMBIE", parent'[d] # None,
                      AsleepInWait(parent[d])'
               PROVE  parent'[d] = initproc
    BY <1>3, <1>6, <1>8 DEF ZombieIsSeen, AsleepInWait, At, initproc
  <2> SUFFICES ASSUME d # c PROVE FALSE
    BY <1>6
  <2>1. state[d] = "ZOMBIE" /\ parent'[d] = parent[d] /\ parent[d] \in Procs
    BY <1>2, <1>6 DEF IInv, Core, TypeOK
  <2>2. AsleepInWait(parent[d])
    BY <1>2, <2>1 DEF AsleepInWait
  <2> QED BY <1>2, <1>8, <2>1, <2>2, NoneOverlooked DEF IInv, At
<1>18. TickIsSeen'
  BY <1>2, <1>6, SleepersKeep DEF IInv
<1> QED BY <1>5, <1>10, <1>11, <1>12, <1>13, <1>14, <1>15, <1>16, <1>17, <1>18 DEF IInv, Core

LEMMA ExitDoneStep ==
  ASSUME IInv, NEW p \in Procs, OnHart(p), ExitDone(p)
  PROVE  IInv'
<1> USE ProcsFacts
<1>1. /\ th[p].pc = "zombie" /\ state[p] = "RUNNING" /\ clk.over # p
      /\ state' = [state EXCEPT ![p] = "ZOMBIE"] /\ wait_lock' = None /\ Return(p)
      /\ UNCHANGED <<chan, killed, parent, pid, tickslock, clock>>
  BY DEF ExitDone, At, OnHart, Running
<1>2. PICK t \in ThreadType : t.pc = "user" /\ th' = [th EXCEPT ![p] = t]
  BY <1>1, UserFacts
<1>3. TypeOK'
  BY <1>1, <1>2 DEF IInv, Core, TypeOK, ThreadType, States, clock
<1>4. /\ th'[p] = t /\ \A q \in Procs \ {p} : th'[q] = th[q]
      /\ state'[p] = "ZOMBIE" /\ \A q \in Procs \ {p} : state'[q] = state[q]
  BY <1>1, <1>2 DEF IInv, Core, TypeOK
<1>5. wait_lock = p /\ p # initproc /\ tickslock # p
  BY <1>1 DEF IInv, Core, SelfOK, HoldsWaitLock, ExitPcs, At, InitLives
<1>6. \A q \in Procs \ {p} : Stays(q) /\ ~HoldsWaitLock(q)
  BY <1>1, <1>4, <1>5, OthersUnlocked DEF Stays, IInv
<1>7. /\ \A c \in Procs : parent[c] # p
      /\ \A q \in Procs : parent[p] = q => ~AsleepInWait(q)
  BY <1>1 DEF IInv, Core, FamilyOK, Children, At
<1>8. \A q \in Procs : AsleepInWait(q)' => AsleepInWait(q)
  BY <1>1, <1>4 DEF AsleepInWait
<1>9. ASSUME NEW q \in Procs PROVE SelfOK(q)'
  <2>1. CASE q = p
    <3>1. t.pc \notin ExitPcs \cup SleepPcs \cup {"wait_scan", "wait_sleep", "kill"}
      BY <1>2 DEF ExitPcs, SleepPcs
    <3> QED BY <1>1, <1>2, <1>4, <1>5, <2>1, <3>1 DEF SelfOK, HoldsWaitLock, At
  <2>2. CASE q # p
    BY <1>1, <1>4, <1>6, <2>2, SelfKeeps DEF IInv, clock
  <2> QED BY <2>1, <2>2
<1>10. ASSUME NEW q \in Procs PROVE ForkOK(q)'
  <2>1. CASE q = p
    BY <1>2, <1>4, <2>1 DEF ForkOK, At, ForkPcs
  <2>2. CASE q # p
    <3>1. th[q].pc \in ForkPcs => th[q].arg \in Procs \ {p}
      BY <1>1 DEF IInv, Core, ForkOK
    <3> QED BY <1>1, <1>4, <2>2, <3>1, ForkKeeps DEF IInv
  <2> QED BY <2>1, <2>2
<1>11. ASSUME NEW q \in Procs PROVE FamilyOK(q)'
  <2>1. CASE q = p
    BY <1>2, <1>4, <2>1, FamilyUnlocked DEF HoldsWaitLock, ExitPcs
  <2>2. CASE q # p
    BY <1>4, <1>6, <2>2, FamilyUnlocked DEF HoldsWaitLock
  <2> QED BY <2>1, <2>2
<1>12. ASSUME NEW d \in Procs PROVE SlotOK(d)'
  <2>1. SlotOK(d) /\ UNCHANGED <<parent, pid, killed>>
    BY <1>1 DEF IInv, Core
  <2>2. parent[d] # None => state'[parent[d]] = state[parent[d]]
    <3>1. parent[d] # None => parent[d] \in Procs \ {p}
      BY <1>7 DEF IInv, Core, TypeOK
    <3> QED BY <1>4, <3>1
  <2>3. CASE d = p
    <3>1. state'[d] = "ZOMBIE" /\ state[d] = "RUNNING"
      BY <1>1, <1>4, <2>3
    <3> QED BY <2>1, <2>2, <3>1 DEF SlotOK
  <2>4. CASE d # p
    <3>1. state'[d] = state[d]
      BY <1>4, <2>4
    <3> QED BY <2>1, <2>2, <3>1 DEF SlotOK
  <2> QED BY <2>3, <2>4
<1>13. InitLives'
  BY <1>1, <1>4, <1>5 DEF IInv, Core, InitLives
<1>14. ChildrenDiffer'
  BY <1>2, <1>4, ChildrenKeep DEF IInv, ForkPcs
<1>15. ClockOK'
  BY <1>1, <1>4, ClockKeeps DEF IInv
<1>16. ZombieIsSeen'
  <2> SUFFICES ASSUME NEW d \in Procs \ {initproc}, state'[d] = "ZOMBIE", parent'[d] # None,
                      AsleepInWait(parent[d])'
               PROVE  FALSE
    BY DEF ZombieIsSeen, AsleepInWait
  <2>1. parent'[d] = parent[d] /\ parent[d] \in Procs
    BY <1>1 DEF IInv, Core, TypeOK
  <2>2. AsleepInWait(parent[d])
    BY <1>8, <2>1, <1>1, <1>4 DEF AsleepInWait
  <2>3. d # p
    BY <1>7, <2>1, <2>2
  <2>4. state[d] = "ZOMBIE"
    BY <1>4, <2>3
  <2> QED BY <1>1, <1>5, <2>1, <2>2, <2>4, NoneOverlooked DEF IInv, At
<1>17. TickIsSeen'
  BY <1>1, <1>4, SleepersKeep DEF IInv
<1> QED BY <1>3, <1>9, <1>10, <1>11, <1>12, <1>13, <1>14, <1>15, <1>16, <1>17 DEF IInv, Core

(* A process that goes to sleep: what its thread and its slot rely on.     *)
LEMMA FallsAsleep ==
  ASSUME IInv, NEW p \in Procs, OnHart(p), NEW c \in Procs \cup {Ticks}, Sleep(p, c),
         th[p].pc \in {"wait_sleep", "ticks_sleep"},
         NEW t \in ThreadType, th' = [th EXCEPT ![p] = t],
         \/ c = p /\ t.pc = "wait"
         \/ c = Ticks /\ t.pc = "sleep_again" /\ t.arg \in SleepFor,
         UNCHANGED clock, wait_lock' # p, tickslock' # p,
         \A q \in Procs \ {p} : Stays(q),
         \A q \in Procs \ {p} : FamilyOK(q)',
         wait_lock' \in {None} \cup Procs, tickslock' \in {None, Ticks} \cup Procs,
         tickslock' = Ticks <=> tickslock = Ticks
  PROVE  Core' /\ ClockOK'
<1> USE ProcsFacts
<1>1. /\ state[p] = "RUNNING" /\ clk.over # p
      /\ state' = [state EXCEPT ![p] = "SLEEPING"] /\ chan' = [chan EXCEPT ![p] = c]
      /\ UNCHANGED <<killed, parent, pid>>
  BY DEF Sleep, OnHart, Running
<1>2. TypeOK'
  BY <1>1 DEF IInv, Core, TypeOK, ThreadType, States, clock
<1>3. /\ th'[p] = t /\ \A q \in Procs \ {p} : th'[q] = th[q]
      /\ state'[p] = "SLEEPING" /\ \A q \in Procs \ {p} : state'[q] = state[q]
      /\ chan'[p] = c /\ \A q \in Procs \ {p} : chan'[q] = chan[q]
  BY <1>1 DEF IInv, Core, TypeOK
<1>4. ASSUME NEW q \in Procs PROVE SelfOK(q)'
  <2>1. CASE q = p
    <3>1. t.pc \notin ExitPcs \cup {"wait_scan", "wait_sleep", "ticks_sleep", "kill"}
      BY DEF ExitPcs
    <3>2. t.pc \in SleepPcs => t.arg \in SleepFor
      BY DEF SleepPcs
    <3> QED BY <1>3, <2>1, <3>1, <3>2 DEF SelfOK, HoldsWaitLock, At, Alive
  <2>2. CASE q # p
    BY <1>3, <2>2, SelfKeeps DEF IInv, clock
  <2> QED BY <2>1, <2>2
<1>5. ASSUME NEW q \in Procs PROVE ForkOK(q)'
  <2>1. CASE q = p
    BY <1>3, <2>1 DEF ForkOK, At, ForkPcs
  <2>2. CASE q # p
    <3>1. th[q].pc \in ForkPcs => th[q].arg \in Procs \ {p}
      BY <1>1 DEF IInv, Core, ForkOK
    <3> QED BY <1>1, <1>3, <2>2, <3>1, ForkKeeps DEF IInv
  <2> QED BY <2>1, <2>2
<1>6. FamilyOK(p)'
  BY <1>3 DEF FamilyOK, At
<1>7. ASSUME NEW d \in Procs PROVE SlotOK(d)'
  <2>1. SlotOK(d) /\ UNCHANGED <<parent, pid, killed>>
    BY <1>1 DEF IInv, Core
  <2>2. parent[d] # None => parent[d] \in Procs
    BY DEF IInv, Core, TypeOK
  <2>3. \A q \in Procs : state[q] \in Alive => state'[q] \in Alive
    BY <1>3 DEF Alive
  <2>4. CASE d = p
    <3>1. state'[d] = "SLEEPING" /\ state[d] = "RUNNING"
      BY <1>1, <1>3, <2>4
    <3> QED BY <2>1, <2>2, <2>3, <3>1 DEF SlotOK
  <2>5. CASE d # p
    <3>1. state'[d] = state[d]
      BY <1>3, <2>5
    <3> QED BY <2>1, <2>2, <2>3, <3>1 DEF SlotOK
  <2> QED BY <2>4, <2>5
<1>8. InitLives'
  <2>1. state'[initproc] \in Alive
    BY <1>3 DEF IInv, Core, InitLives, Alive
  <2>2. th'[initproc].pc \notin ExitPcs \cup {"exit"}
    BY <1>3 DEF IInv, Core, InitLives, ExitPcs
  <2> QED BY <1>1, <2>1, <2>2 DEF IInv, Core, InitLives
<1>9. ChildrenDiffer'
  BY <1>3, ChildrenKeep DEF IInv, ForkPcs
<1>10. ClockOK'
  BY <1>3, <1>1, ClockKeeps DEF IInv
<1> QED BY <1>2, <1>4, <1>5, <1>6, <1>7, <1>8, <1>9, <1>10 DEF Core

(* wait() sleeps when no child of p is a zombie, and no child can become   *)
(* one before wait_lock is free.                                           *)
LEMMA WaitSleepStep ==
  ASSUME IInv, NEW p \in Procs, OnHart(p), WaitSleep(p)
  PROVE  IInv'
<1> USE ProcsFacts
<1>1. /\ th[p].pc = "wait_sleep" /\ Sleep(p, p) /\ wait_lock' = None
      /\ GoTo(p, "wait", 0) /\ UNCHANGED <<tickslock, clock>>
  BY DEF WaitSleep, At
<1>2. PICK t \in ThreadType : t = Thread("wait", 0) /\ t.pc = "wait"
  BY ThreadFacts DEF Pcs
<1>3. th' = [th EXCEPT ![p] = t]
  BY <1>1, <1>2 DEF GoTo
<1>4. /\ \A q \in Procs \ {p} : th'[q] = th[q] /\ state'[q] = state[q] /\ chan'[q] = chan[q]
      /\ UNCHANGED <<killed, parent, pid>> /\ chan'[p] = p /\ state'[p] = "SLEEPING"
  BY <1>1, <1>3 DEF Sleep, IInv, Core, TypeOK
<1>5. wait_lock = p /\ tickslock # p
  BY <1>1 DEF IInv, Core, SelfOK, HoldsWaitLock, At
<1>6. \A q \in Procs \ {p} : Stays(q) /\ ~HoldsWaitLock(q)
  BY <1>1, <1>4, <1>5, OthersUnlocked DEF Stays, IInv
<1>7. \A q \in Procs \ {p} : FamilyOK(q)'
  BY <1>4, <1>6, FamilyUnlocked DEF HoldsWaitLock
<1>8. Core' /\ ClockOK'
  <2>1. tickslock' \in {None, Ticks} \cup Procs
    BY <1>1 DEF IInv, Core, TypeOK
  <2>2. wait_lock' # p /\ tickslock' # p
    BY <1>1, <1>5
  <2> QED BY <1>1, <1>2, <1>3, <1>6, <1>7, <2>1, <2>2, FallsAsleep
<1>9. ZombieIsSeen'
  <2> SUFFICES ASSUME NEW d \in Procs \ {initproc}, state'[d] = "ZOMBIE", parent'[d] # None,
                      AsleepInWait(parent[d])'
               PROVE  FALSE
    BY DEF ZombieIsSeen, AsleepInWait
  <2>1. parent'[d] = parent[d] /\ parent[d] \in Procs /\ state[d] = "ZOMBIE"
    BY <1>4 DEF IInv, Core, TypeOK
  <2>2. parent[d] # p
    BY <1>1, <2>1 DEF IInv, Core, FamilyOK, Children, At
  <2>3. AsleepInWait(parent[d])
    BY <1>4, <2>1, <2>2 DEF AsleepInWait
  <2> QED BY <1>1, <1>5, <2>1, <2>3, NoneOverlooked DEF IInv, At
<1>10. TickIsSeen'
  BY <1>1, <1>4, SleepersKeep DEF IInv
<1> QED BY <1>8, <1>9, <1>10 DEF IInv

(* sys_sleep() sleeps when its time is not over, and the clock cannot go   *)
(* on before tickslock is free.                                            *)
LEMMA TicksSleepStep ==
  ASSUME IInv, NEW p \in Procs, OnHart(p), TicksSleep(p)
  PROVE  IInv'
<1> USE ProcsFacts
<1>1. /\ th[p].pc = "ticks_sleep" /\ Sleep(p, Ticks) /\ tickslock' = None
      /\ th' = [th EXCEPT ![p].pc = "sleep_again"] /\ UNCHANGED <<wait_lock, clock>>
      /\ state[p] = "RUNNING"
  BY DEF TicksSleep, At, OnHart, Running
<1>2. PICK t \in ThreadType : /\ t = [th[p] EXCEPT !.pc = "sleep_again"]
                              /\ t.pc = "sleep_again" /\ t.t0 = th[p].t0 /\ t.arg = th[p].arg
  <2>1. th[p] \in ThreadType
    BY CursorFacts
  <2>2. [th[p] EXCEPT !.pc = "sleep_again"] \in ThreadType
    BY <2>1 DEF ThreadType, Pcs
  <2> QED BY <2>1, <2>2 DEF ThreadType
<1>3. th' = [th EXCEPT ![p] = t]
  BY <1>1, <1>2
<1>4. /\ \A q \in Procs \ {p} : th'[q] = th[q] /\ state'[q] = state[q] /\ chan'[q] = chan[q]
      /\ UNCHANGED <<killed, parent, pid>> /\ chan'[p] = Ticks /\ state'[p] = "SLEEPING"
      /\ th'[p] = t
  BY <1>1, <1>3 DEF Sleep, IInv, Core, TypeOK
<1>5. wait_lock # p /\ tickslock = p /\ Elapsed(th[p].t0) < th[p].arg /\ th[p].arg \in SleepFor
  BY <1>1 DEF IInv, Core, SelfOK, HoldsWaitLock, At, ExitPcs, SleepPcs
<1>6. \A q \in Procs \ {p} : Stays(q)
  BY <1>1, <1>4, <1>5 DEF Stays
<1>7. \A q \in Procs : AsleepInWait(q)' => AsleepInWait(q)
  BY <1>4 DEF AsleepInWait
<1>8. \A d \in Procs : state'[d] = "ZOMBIE" => state[d] = "ZOMBIE" /\ parent'[d] = parent[d]
  BY <1>4
<1>9. ASSUME NEW q \in Procs \ {p} PROVE FamilyOK(q)'
  <2>1. Children(q)' = Children(q) /\ parent'[q] = parent[q]
    BY <1>4 DEF Children
  <2> QED BY <1>6, <1>7, <1>8, <2>1, FamilyKeeps DEF IInv
<1>10. Core' /\ ClockOK'
  <2>1. wait_lock' \in {None} \cup Procs /\ wait_lock' # p
    BY <1>1, <1>5 DEF IInv, Core, TypeOK
  <2>2. tickslock' # p /\ (tickslock' = Ticks <=> tickslock = Ticks)
    BY <1>1, <1>5
  <2> QED BY <1>1, <1>2, <1>3, <1>5, <1>6, <1>9, <2>1, <2>2, FallsAsleep
<1>11. ZombieIsSeen'
  <2>1. \A q \in Procs : At(q, "wake_init") => Stays(q)
    BY <1>1, <1>6 DEF At
  <2> QED BY <1>7, <1>8, <1>10, <2>1, ZombiesKeep DEF IInv, Core
<1>12. TickIsSeen'
  <2> SUFFICES ASSUME NEW q \in Procs, state'[q] = "SLEEPING", chan'[q] = Ticks,
                      Elapsed(th[q].t0)' >= th'[q].arg
               PROVE  clk'.on /\ clk'.j <= q
    BY DEF TickIsSeen
  <2>1. q # p
    <3>1. Elapsed(th[p].t0)' = Elapsed(th[p].t0) /\ th'[p].arg = th[p].arg
      BY <1>1, <1>2, <1>4 DEF Elapsed, clock
    <3>2. Elapsed(th[p].t0) \in Int /\ th[p].arg \in Int
      <4>1. ticks \in Int /\ th[p].t0 \in Int
        BY <1>2 DEF IInv, Core, TypeOK, ThreadType
      <4> QED BY <1>5, <4>1, TicksAssumption DEF Elapsed
    <3> QED BY <1>5, <3>1, <3>2
  <2>2. state[q] = "SLEEPING" /\ chan[q] = Ticks /\ Elapsed(th[q].t0) >= th[q].arg
    BY <1>1, <1>4, <2>1 DEF Elapsed, clock
  <2> QED BY <1>1, <2>2 DEF IInv, TickIsSeen, clock
<1> QED BY <1>10, <1>11, <1>12 DEF IInv

-----------------------------------------------------------------------------
LEMMA IInvInit == Init => IInv
<1> USE ProcsFacts
<1> SUFFICES ASSUME Init PROVE IInv
  OBVIOUS
<1>1. User \in ThreadType /\ User.pc = "user"
  BY UserFacts
<1>2. /\ \A p \in Procs : th[p] = User /\ parent[p] = None /\ chan[p] = None
      /\ \A p \in Procs : ~killed[p]
      /\ \A p \in Procs : state[p] = IF p = initproc THEN "RUNNABLE" ELSE "UNUSED"
      /\ \A p \in Procs : pid[p] = IF p = initproc THEN 1 ELSE 0
      /\ wait_lock = None /\ tickslock = None /\ clk.on = FALSE /\ clk.over = None
  BY DEF Init
<1>3. TypeOK
  <2>1. th \in [Procs -> ThreadType]
    BY <1>1 DEF Init
  <2>2. ticks \in 0..(Wrap - 1) /\ clk \in [on : BOOLEAN, over : {None} \cup Procs, j : 0..NPROC]
    BY TicksAssumption DEF Init
  <2>3. /\ state \in [Procs -> States] /\ chan \in [Procs -> {None, Ticks} \cup Procs]
        /\ killed \in [Procs -> BOOLEAN] /\ parent \in [Procs -> {None} \cup Procs]
        /\ pid \in [Procs -> {0} \cup Pids]
    BY DEF Init, States
  <2> QED BY <1>2, <2>1, <2>2, <2>3 DEF TypeOK, ThreadType
<1>4. ASSUME NEW p \in Procs PROVE SelfOK(p) /\ ForkOK(p) /\ FamilyOK(p) /\ SlotOK(p)
  <2>1. User.pc \notin ExitPcs \cup ForkPcs \cup SleepPcs \cup {"wait_scan", "wait_sleep", "kill"}
    BY <1>1 DEF ExitPcs, ForkPcs, SleepPcs
  <2>2. state[p] \in {"RUNNABLE", "UNUSED"} /\ At(p, "user")
    BY <1>1, <1>2 DEF At
  <2>3. SelfOK(p)
    BY <1>1, <1>2, <2>1, <2>2 DEF SelfOK, HoldsWaitLock, At
  <2>4. ForkOK(p)
    BY <1>1, <1>2 DEF ForkOK, ForkPcs, At
  <2>5. FamilyOK(p)
    BY <1>2, <2>2 DEF FamilyOK, At
  <2>6. SlotOK(p)
    BY <1>2 DEF SlotOK
  <2> QED BY <2>3, <2>4, <2>5, <2>6
<1>5. InitLives
  BY <1>1, <1>2 DEF InitLives, Alive, ExitPcs
<1>6. ChildrenDiffer
  BY <1>1, <1>2 DEF ChildrenDiffer, ForkPcs
<1>7. ClockOK /\ ZombieIsSeen /\ TickIsSeen
  BY <1>2 DEF ClockOK, ZombieIsSeen, TickIsSeen
<1> QED BY <1>3, <1>4, <1>5, <1>6, <1>7 DEF IInv, Core

LEMMA IInvNext ==
  ASSUME IInv, {0, 1} \cap KillPids = {}, [Next]_vars
  PROVE  IInv'
<1>1. CASE UNCHANGED vars
  BY <1>1 DEF vars, table, locks, clock, IInv, Core, TypeOK, SelfOK, ForkOK, FamilyOK, SlotOK,
              InitLives, ChildrenDiffer, ClockOK, ZombieIsSeen, TickIsSeen, HoldsWaitLock,
              AsleepInWait, Children, Elapsed, At
<1>2. ASSUME NEW p \in Procs, KernelStep(p) PROVE IInv'
  <2>1. ASSUME OnHart(p), ForkStep(p) PROVE IInv'
    BY <2>1, LookSteps, AllocprocStep, BareReturnSteps, FreeSteps, ForkBuiltStep,
       ForkParentStep, ForkRunStep DEF ForkStep
  <2>2. ASSUME OnHart(p), ExitStep(p) PROVE IInv'
    BY <2>2, TakeWaitLockSteps, ReparentStep, ReparentDoneStep, ExitWakesStep, ExitDoneStep
       DEF ExitStep
  <2>3. ASSUME OnHart(p), WaitStep(p) PROVE IInv'
    BY <2>3, TakeWaitLockSteps, WaitSkipStep, FreeSteps, GiveUpWaitLockSteps, WaitDecidesStep,
       WaitSleepStep DEF WaitStep
  <2>4. ASSUME OnHart(p), SleepStep(p) PROVE IInv'
    <3>1. ticks \in 0..(Wrap - 1) /\ th[p].t0 \in 0..(Wrap - 1)
      BY DEF IInv, Core, TypeOK
    <3> QED BY <2>4, <3>1, SleepTestStep, TicksSleepStep DEF SleepStep, At
  <2>5. ASSUME OnHart(p), KillStep(p) PROVE IInv'
    BY <2>5, LookSteps, KillStepStep, BareReturnSteps DEF KillStep
  <2> QED BY <1>2, <2>1, <2>2, <2>3, <2>4, <2>5, TrapKilledStep, LookSteps DEF KernelStep
<1>3. ASSUME ClockStep PROVE IInv'
  BY <1>3, ClockWakesStep, ClockDoneStep, ClockStartStep DEF ClockStep
<1> QED BY <1>1, <1>2, <1>3, RunStep, YieldStep, CallsStep DEF Next

-----------------------------------------------------------------------------
(* The inductive invariant holds in every reachable state.                 *)
THEOREM Invariance == {0, 1} \cap KillPids = {} => (Spec => []IInv)
<1> SUFFICES ASSUME {0, 1} \cap KillPids = {} PROVE Spec => []IInv
  OBVIOUS
<1>1. IInv /\ [Next]_vars => IInv'
  BY IInvNext
<1> QED BY <1>1, IInvInit, PTL DEF Spec

(* fork, exit, wait and kill keep the table in order: every process but    *)
(* init has a living parent, and only a process is marked as killed.       *)
THEOREM TableInOrder == {0, 1} \cap KillPids = {} => (Spec => []TableInv)
<1> SUFFICES ASSUME {0, 1} \cap KillPids = {} PROVE Spec => []TableInv
  OBVIOUS
<1>1. IInv => TableInv
  <2> SUFFICES ASSUME IInv PROVE TableInv
    OBVIOUS
  <2>1. ParentIsAlive
    BY DEF ParentIsAlive, IInv, Core, SlotOK, Alive
  <2>2. OnlyProcessesKilled
    BY DEF OnlyProcessesKilled, IInv, Core, SlotOK
  <2> QED BY <2>1, <2>2 DEF TableInv, IInv, Core
<1> QED BY <1>1, Invariance, PTL

(* No wakeup of wait() is lost.                                            *)
THEOREM NoZombieOverlooked == {0, 1} \cap KillPids = {} => (Spec => []ZombieIsSeen)
<1> SUFFICES ASSUME {0, 1} \cap KillPids = {} PROVE Spec => []ZombieIsSeen
  OBVIOUS
<1>1. IInv => ZombieIsSeen
  BY DEF IInv
<1> QED BY <1>1, Invariance, PTL

(* No wakeup of sys_sleep() is lost.                                       *)
THEOREM NoTickOverlooked == {0, 1} \cap KillPids = {} => (Spec => []TickIsSeen)
<1> SUFFICES ASSUME {0, 1} \cap KillPids = {} PROVE Spec => []TickIsSeen
  OBVIOUS
<1>1. IInv => TickIsSeen
  BY DEF IInv
<1> QED BY <1>1, Invariance, PTL
=============================================================================
