----------------------------- MODULE AlarmProofs -----------------------------
(***************************************************************************)
(* Proofs about Alarm, for any number of processes, any intervals and any  *)
(* registers, of programs whose handlers neither fork nor exit (a handler  *)
(* that exits leaves a guard behind: run alarm_stale_guard).               *)
(***************************************************************************)
EXTENDS Alarm, TLAPS

(* What the guard, the count and the saved registers have to do with one   *)
(* another, also in a slot that holds no process: the next one in the slot *)
(* begins with the guard, the count and the registers it finds there.      *)
GuardExact == \A p \in Procs : guard[p] = 1 <=> InHandler(p)

FreeSlots == \A p \in Procs \ used : frame[p] = Start

(* The handler runs on a count of 0 and will restore what it interrupted.  *)
HandlerFrame ==
  \A p \in Procs :
    InHandler(p) =>
      /\ elapsed[p] = 0
      /\ saved[p] = interrupted[p]
      /\ saved[p].epc \in Main

(* Outside the handler the count is the user time, and it is not yet due.  *)
CountExact ==
  \A p \in used :
    Armed(p) /\ ~InHandler(p) => elapsed[p] = spent[p] /\ spent[p] < Period(p)

IInv ==
  /\ TypeOK
  /\ GuardExact
  /\ FreeSlots
  /\ HandlerFrame
  /\ CountExact

-----------------------------------------------------------------------------
(* The places in the program.                                              *)
LEMMA AfterFacts ==
  /\ \A m \in Main : After(m) \in Main
  /\ \A h \in Handlers : After(h) = h /\ h \notin Main
  /\ Start \in Registers /\ Start.epc \in Main /\ Start.a0 = 0 /\ Start.rest = 0
<1>1. \A m \in Main : \E n \in Main : n # m
  BY DEF Main
<1>2. ASSUME NEW h \in Handlers PROVE h \notin Main
  BY DEF Main, Handlers
<1> QED BY <1>1, <1>2, ValuesAssumption DEF After, Start, Registers, Main

(* The ecall leaves a process where it is, in its handler or out of it.    *)
LEMMA EcallFacts ==
  ASSUME IInv, NEW p \in Procs, NEW value \in Results
  PROVE  /\ [Ecall(p) EXCEPT !.a0 = value] \in Registers
         /\ [Ecall(p) EXCEPT !.a0 = value].epc \in Handlers <=> InHandler(p)
<1>1. /\ frame[p] \in Registers
      /\ frame[p].epc \in Main \cup Handlers
      /\ frame[p].a0 \in Results /\ frame[p].rest \in Values
  BY DEF IInv, TypeOK, Registers
<1>2. /\ After(frame[p].epc) \in Main \cup Handlers
      /\ After(frame[p].epc) \in Handlers <=> frame[p].epc \in Handlers
  BY <1>1, AfterFacts
<1>3. Ecall(p) = [epc |-> After(frame[p].epc), a0 |-> frame[p].a0, rest |-> frame[p].rest]
  BY <1>1 DEF Ecall, Registers
<1>4. [Ecall(p) EXCEPT !.a0 = value]
        = [epc |-> After(frame[p].epc), a0 |-> value, rest |-> frame[p].rest]
  BY <1>3
<1> QED BY <1>1, <1>2, <1>4 DEF Registers, InHandler

LEMMA IInvInit == Init => IInv
<1> SUFFICES ASSUME Init PROVE IInv
  OBVIOUS
<1> USE AfterFacts
<1>1. TypeOK
  BY DEF Init, TypeOK, Handlers
<1>2. \A p \in Procs : ~InHandler(p) /\ ~Armed(p)
  BY DEF Init, InHandler, Armed
<1>3. GuardExact /\ FreeSlots
  BY <1>2 DEF Init, GuardExact, FreeSlots
<1>4. HandlerFrame /\ CountExact
  BY <1>1, <1>2 DEF TypeOK, HandlerFrame, CountExact
<1> QED BY <1>1, <1>3, <1>4 DEF IInv

-----------------------------------------------------------------------------
(* One lemma for each action.                                              *)
LEMMA ComputeStep ==
  ASSUME IInv, NEW p \in Procs, Compute(p)
  PROVE  IInv'
<1> USE AfterFacts
<1>1. PICK a \in Scratch \cup {frame[p].a0}, r \in Values :
        frame' = [frame EXCEPT ![p] = [epc |-> After(frame[p].epc), a0 |-> a, rest |-> r]]
  BY DEF Compute
<1>2. p \in used /\ UNCHANGED <<used, alarm, history>>
  BY DEF Compute
<1>3. frame[p].epc \in Main \cup Handlers /\ a \in Results
  BY ValuesAssumption DEF IInv, TypeOK, Registers
<1>4. \A q \in Procs : InHandler(q)' <=> InHandler(q)
  BY <1>1, <1>3 DEF InHandler, IInv, TypeOK
<1>5. TypeOK'
  <2>1. [epc |-> After(frame[p].epc), a0 |-> a, rest |-> r] \in Registers
    BY <1>3 DEF Registers
  <2> QED BY <1>1, <1>2, <2>1 DEF IInv, TypeOK, alarm, history
<1>6. GuardExact' /\ HandlerFrame'
  BY <1>2, <1>4 DEF IInv, GuardExact, HandlerFrame, alarm, history
<1>7. FreeSlots'
  BY <1>1, <1>2 DEF IInv, TypeOK, FreeSlots
<1>8. CountExact'
  <2>1. \A q \in Procs : Armed(q)' = Armed(q) /\ Period(q)' = Period(q)
    BY <1>2 DEF Armed, Period, alarm
  <2>2. ASSUME NEW q \in used', Armed(q)', ~InHandler(q)'
        PROVE  (elapsed[q] = spent[q] /\ spent[q] < Period(q))'
    BY <1>2, <1>4, <2>1, <2>2 DEF IInv, TypeOK, CountExact, alarm, history
  <2> QED BY <2>2 DEF CountExact
<1> QED BY <1>5, <1>6, <1>7, <1>8 DEF IInv

LEMMA FireStep ==
  ASSUME IInv, NEW p \in Procs, TickInUser(p), Counting(p), Fire(p)
  PROVE  IInv'
<1> USE AfterFacts
<1>1. /\ guard' = [guard EXCEPT ![p] = 1]
      /\ elapsed' = [elapsed EXCEPT ![p] = 0]
      /\ saved' = [saved EXCEPT ![p] = frame[p]]
      /\ frame' = [frame EXCEPT ![p].epc = handler[p]]
      /\ spent' = [spent EXCEPT ![p] = 0]
      /\ p \in used /\ UNCHANGED <<used, ticks, handler>>
  BY DEF TickInUser, Fire, Restart
<1>2. ~InHandler(p)
  BY DEF IInv, GuardExact, Counting
<1>3. interrupted' = [interrupted EXCEPT ![p] = frame[p]]
  BY <1>2 DEF Fire
<1>4. frame[p].epc \in Main /\ handler[p] \in Handlers
  BY <1>2 DEF IInv, TypeOK, Registers, InHandler
<1>5. frame'[p].epc = handler[p] /\ \A q \in Procs \ {p} : frame'[q] = frame[q]
  BY <1>1 DEF IInv, TypeOK, Registers
<1>6. InHandler(p)' /\ \A q \in Procs \ {p} : InHandler(q)' <=> InHandler(q)
  BY <1>4, <1>5 DEF InHandler
<1>7. TypeOK'
  <2>1. [frame[p] EXCEPT !.epc = handler[p]] \in Registers
    BY ZenonT(60), <1>4 DEF IInv, TypeOK, Registers
  <2> QED BY <1>1, <1>3, <2>1 DEF IInv, TypeOK
<1>8. GuardExact' /\ FreeSlots'
  BY <1>1, <1>5, <1>6 DEF IInv, TypeOK, GuardExact, FreeSlots
<1>9. HandlerFrame'
  BY <1>1, <1>3, <1>4, <1>6 DEF IInv, TypeOK, HandlerFrame
<1>10. CountExact'
  <2>1. \A q \in Procs : Armed(q)' = Armed(q) /\ Period(q)' = Period(q)
    BY <1>1 DEF Armed, Period
  <2>2. ASSUME NEW q \in used', Armed(q)', ~InHandler(q)'
        PROVE  (elapsed[q] = spent[q] /\ spent[q] < Period(q))'
    <3>1. q # p /\ q \in used /\ q \in Procs
      BY <1>1, <1>6, <2>2 DEF IInv, TypeOK
    <3> QED BY <1>1, <1>6, <2>1, <2>2, <3>1 DEF IInv, TypeOK, CountExact
  <2> QED BY <2>2 DEF CountExact
<1> QED BY <1>7, <1>8, <1>9, <1>10 DEF IInv

LEMMA CountStep ==
  ASSUME IInv, NEW p \in Procs, TickInUser(p), Counting(p), ~Due(p), Count(p)
  PROVE  IInv'
<1>1. /\ elapsed' = [elapsed EXCEPT ![p] = elapsed[p] + 1]
      /\ spent' = [spent EXCEPT ![p] = spent[p] + 1]
      /\ UNCHANGED <<used, frame, guard, ticks, handler, saved, interrupted>>
      /\ p \in used
  BY DEF TickInUser, Count
<1>2. ~InHandler(p) /\ Armed(p)
  BY DEF IInv, GuardExact, Counting
<1>3. \A q \in Procs : /\ Armed(q)' = Armed(q) /\ Period(q)' = Period(q)
                       /\ InHandler(q)' = InHandler(q)
  BY <1>1 DEF Armed, Period, InHandler
<1>4. TypeOK'
  BY <1>1 DEF IInv, TypeOK
<1>5. GuardExact' /\ FreeSlots'
  BY <1>1, <1>3 DEF IInv, GuardExact, FreeSlots
<1>6. HandlerFrame'
  BY <1>1, <1>2, <1>3 DEF IInv, TypeOK, HandlerFrame
<1>7. CountExact'
  <2>1. ticks[p] \in Int /\ elapsed[p] \in Nat /\ spent[p] \in Nat
    <3>1. ticks[p] \in Intervals \cup {0} /\ elapsed[p] \in Nat /\ spent[p] \in Nat
      BY DEF IInv, TypeOK
    <3>2. Intervals \cup {0} \subseteq Int
      BY ValuesAssumption
    <3> QED BY <3>1, <3>2, Zenon
  <2>2. elapsed[p] = spent[p] /\ elapsed[p] + 1 < ticks[p]
    BY <1>1, <1>2, <2>1 DEF IInv, CountExact, Due
  <2>3. (elapsed[p] = spent[p] /\ spent[p] < Period(p))'
    BY <1>1, <2>1, <2>2 DEF Period, IInv, TypeOK
  <2>4. ASSUME NEW q \in used', q # p, Armed(q)', ~InHandler(q)'
        PROVE  (elapsed[q] = spent[q] /\ spent[q] < Period(q))'
    <3>1. q \in used /\ q \in Procs
      BY <1>1 DEF IInv, TypeOK
    <3> QED BY <1>1, <1>3, <2>4, <3>1 DEF IInv, TypeOK, CountExact
  <2> QED BY <2>3, <2>4 DEF CountExact
<1> QED BY <1>4, <1>5, <1>6, <1>7 DEF IInv

LEMMA IgnoreStep ==
  ASSUME IInv, NEW p \in Procs, TickInUser(p), ~Counting(p), Ignore(p)
  PROVE  IInv'
<1>1. /\ elapsed' = [elapsed EXCEPT ![p] = 0]
      /\ UNCHANGED <<used, frame, guard, ticks, handler, saved, interrupted>>
      /\ p \in used
  BY DEF TickInUser, Ignore
<1>2. Armed(p) => InHandler(p)
  BY DEF IInv, TypeOK, GuardExact, Counting
<1>3. spent' = spent
  BY <1>2 DEF Ignore, IInv, TypeOK
<1>4. \A q \in Procs : /\ Armed(q)' = Armed(q) /\ Period(q)' = Period(q)
                       /\ InHandler(q)' = InHandler(q)
  BY <1>1 DEF Armed, Period, InHandler
<1>5. TypeOK'
  BY <1>1, <1>3 DEF IInv, TypeOK
<1>6. GuardExact' /\ FreeSlots'
  BY <1>1, <1>4 DEF IInv, GuardExact, FreeSlots
<1>7. HandlerFrame'
  BY <1>1, <1>4 DEF IInv, TypeOK, HandlerFrame
<1>8. CountExact'
  <2>1. ASSUME NEW q \in used', Armed(q)', ~InHandler(q)'
        PROVE  (elapsed[q] = spent[q] /\ spent[q] < Period(q))'
    <3>1. q \in used /\ q \in Procs /\ q # p
      BY <1>1, <1>2, <1>4, <2>1 DEF IInv, TypeOK
    <3> QED BY <1>1, <1>3, <1>4, <2>1, <3>1 DEF IInv, TypeOK, CountExact
  <2> QED BY <2>1 DEF CountExact
<1> QED BY <1>5, <1>6, <1>7, <1>8 DEF IInv

LEMMA SysSigalarmStep ==
  ASSUME IInv, NEW p \in Procs, NEW n \in Intervals, NEW fn \in Handlers,
         SysSigalarm(p, n, fn)
  PROVE  IInv'
<1> USE AfterFacts
<1>1. /\ ticks' = [ticks EXCEPT ![p] = n]
      /\ handler' = [handler EXCEPT ![p] = fn]
      /\ elapsed' = [elapsed EXCEPT ![p] = 0]
      /\ spent' = [spent EXCEPT ![p] = 0]
      /\ frame' = [frame EXCEPT ![p] = [Ecall(p) EXCEPT !.a0 = 0]]
      /\ p \in used
      /\ UNCHANGED <<used, guard, saved, interrupted>>
  BY DEF SysSigalarm, Returns, Restart
<1>2. /\ [Ecall(p) EXCEPT !.a0 = 0] \in Registers
      /\ [Ecall(p) EXCEPT !.a0 = 0].epc \in Handlers <=> InHandler(p)
  BY EcallFacts, ValuesAssumption
<1>3. \A q \in Procs : InHandler(q)' <=> InHandler(q)
  BY <1>1, <1>2 DEF IInv, TypeOK, InHandler
<1>4. TypeOK'
  BY <1>1, <1>2 DEF IInv, TypeOK
<1>5. GuardExact' /\ FreeSlots'
  BY <1>1, <1>3 DEF IInv, TypeOK, GuardExact, FreeSlots
<1>6. HandlerFrame'
  BY <1>1, <1>3 DEF IInv, TypeOK, HandlerFrame
<1>7. CountExact'
  <2>1. (elapsed[p] = spent[p] /\ spent[p] < Period(p))'
    <3>1. elapsed'[p] = 0 /\ spent'[p] = 0 /\ ticks'[p] = n /\ n \in Int
      BY <1>1, <1>2, ValuesAssumption DEF IInv, TypeOK
    <3> QED BY <3>1 DEF Period
  <2>2. ASSUME NEW q \in used', q # p, Armed(q)', ~InHandler(q)'
        PROVE  (elapsed[q] = spent[q] /\ spent[q] < Period(q))'
    <3>1. q \in used /\ q \in Procs
      BY <1>1 DEF IInv, TypeOK
    <3>2. Armed(q) /\ Period(q)' = Period(q)
      BY <1>1, <2>2, <3>1 DEF Armed, Period, IInv, TypeOK
    <3> QED BY <1>1, <1>3, <2>2, <3>1, <3>2 DEF IInv, TypeOK, CountExact
  <2> QED BY <2>1, <2>2 DEF CountExact
<1> QED BY <1>4, <1>5, <1>6, <1>7 DEF IInv

LEMMA SysSigreturnStep ==
  ASSUME IInv, NEW p \in Procs, SysSigreturn(p)
  PROVE  IInv'
<1> USE AfterFacts
<1>1. /\ guard' = [guard EXCEPT ![p] = 0]
      /\ frame' = [frame EXCEPT ![p] = [saved[p] EXCEPT !.a0 = 0]]
      /\ interrupted' = [interrupted EXCEPT ![p] = Start]
      /\ spent' = [spent EXCEPT ![p] = 0]
      /\ p \in used /\ InHandler(p)
      /\ UNCHANGED <<used, ticks, elapsed, handler, saved>>
  BY DEF SysSigreturn, Returns, Restart
<1>2. InHandler(p) /\ elapsed[p] = 0 /\ saved[p].epc \in Main
  BY <1>1 DEF IInv, HandlerFrame
<1>3. ~InHandler(p)' /\ \A q \in Procs \ {p} : InHandler(q)' <=> InHandler(q)
  BY <1>1, <1>2 DEF IInv, TypeOK, Registers, InHandler
<1>4. TypeOK'
  <2>1. [saved[p] EXCEPT !.a0 = 0] \in Registers
    BY ZenonT(60), ValuesAssumption DEF IInv, TypeOK, Registers
  <2> QED BY <1>1, <2>1 DEF IInv, TypeOK
<1>5. GuardExact' /\ FreeSlots'
  BY <1>1, <1>3 DEF IInv, TypeOK, GuardExact, FreeSlots
<1>6. HandlerFrame'
  BY <1>1, <1>3 DEF IInv, TypeOK, HandlerFrame
<1>7. CountExact'
  <2>1. \A q \in Procs : Armed(q)' = Armed(q) /\ Period(q)' = Period(q)
    BY <1>1 DEF Armed, Period
  <2>2. (elapsed[p] = spent[p] /\ spent[p] < Period(p))'
    <3>1. elapsed'[p] = 0 /\ spent'[p] = 0 /\ ticks'[p] \in Int
      BY <1>1, <1>2, <1>4, ValuesAssumption DEF IInv, TypeOK
    <3> QED BY <3>1 DEF Period
  <2>3. ASSUME NEW q \in used', q # p, Armed(q)', ~InHandler(q)'
        PROVE  (elapsed[q] = spent[q] /\ spent[q] < Period(q))'
    <3>1. q \in used /\ q \in Procs
      BY <1>1 DEF IInv, TypeOK
    <3> QED BY <1>1, <1>3, <2>1, <2>3, <3>1 DEF IInv, TypeOK, CountExact
  <2> QED BY <2>2, <2>3 DEF CountExact
<1> QED BY <1>4, <1>5, <1>6, <1>7 DEF IInv

(* The slot that allocproc() takes, whatever process gets it: its alarm is *)
(* off, and its guard says what the frame it is given says.                *)
LEMMA AllocprocStep ==
  ASSUME IInv, NEW c \in Procs, Allocproc(c), frame'[c].epc \in Main,
         \A q \in Procs \ {c} : InHandler(q)' <=> InHandler(q),
         \A q \in Procs \ {c} : interrupted'[q] = interrupted[q],
         frame' \in [Procs -> Registers],
         interrupted' \in [Procs -> Registers],
         \A q \in Procs \ used' : frame'[q] = frame[q]
  PROVE  IInv'
<1> USE AfterFacts
<1>1. /\ c \notin used /\ used' = used \cup {c}
      /\ ticks' = [ticks EXCEPT ![c] = 0]
      /\ handler' = [handler EXCEPT ![c] = "zero"]
      /\ spent' = [spent EXCEPT ![c] = 0]
      /\ UNCHANGED <<guard, elapsed, saved>>
  BY DEF Allocproc, Restart
<1>2. ~InHandler(c)
  BY <1>1 DEF IInv, FreeSlots, InHandler
<1>3. ~InHandler(c)' /\ ~Armed(c)'
  BY <1>1 DEF IInv, TypeOK, InHandler, Armed
<1>4. TypeOK'
  BY <1>1 DEF IInv, TypeOK, Handlers
<1>5. GuardExact'
  BY <1>1, <1>2, <1>3 DEF IInv, GuardExact
<1>6. FreeSlots'
  BY <1>1, <1>2 DEF IInv, FreeSlots
<1>7. HandlerFrame'
  BY <1>1, <1>3 DEF IInv, HandlerFrame
<1>8. CountExact'
  <2>1. ASSUME NEW q \in used', Armed(q)', ~InHandler(q)'
        PROVE  (elapsed[q] = spent[q] /\ spent[q] < Period(q))'
    <3>1. q \in used /\ q \in Procs \ {c}
      BY <1>1, <1>3, <2>1 DEF IInv, TypeOK
    <3>2. Armed(q) /\ Period(q)' = Period(q)
      BY <1>1, <2>1, <3>1 DEF Armed, Period, IInv, TypeOK
    <3> QED BY <1>1, <2>1, <3>1, <3>2 DEF IInv, TypeOK, CountExact
  <2> QED BY <2>1 DEF CountExact
<1> QED BY <1>4, <1>5, <1>6, <1>7, <1>8 DEF IInv

LEMMA SysForkStep ==
  ASSUME IInv, HandlerMay = {}, NEW p \in Procs, NEW c \in Procs, SysFork(p, c)
  PROVE  IInv'
<1> USE AfterFacts
<1>1. PICK pid \in Results \ {0} :
        frame' = [frame EXCEPT ![p] = [Ecall(p) EXCEPT !.a0 = pid],
                               ![c] = [Ecall(p) EXCEPT !.a0 = 0]]
  BY DEF SysFork
<1>2. /\ interrupted' = [interrupted EXCEPT ![c] = interrupted[p]]
      /\ p \in used /\ ~InHandler(p) /\ Allocproc(c)
  BY DEF SysFork, MayCall
<1>3. c \notin used /\ used' = used \cup {c} /\ p # c
  BY <1>2 DEF Allocproc
<1>4. /\ [Ecall(p) EXCEPT !.a0 = pid] \in Registers
      /\ [Ecall(p) EXCEPT !.a0 = pid].epc \notin Handlers
  BY <1>2, EcallFacts
<1>5. /\ [Ecall(p) EXCEPT !.a0 = 0] \in Registers
      /\ [Ecall(p) EXCEPT !.a0 = 0].epc \notin Handlers
  BY <1>2, EcallFacts, ValuesAssumption
<1>6. /\ frame' \in [Procs -> Registers]
      /\ frame'[p].epc \notin Handlers /\ frame'[c].epc \notin Handlers
      /\ \A q \in Procs \ {p, c} : frame'[q] = frame[q]
  BY <1>1, <1>3, <1>4, <1>5 DEF IInv, TypeOK
<1>7. frame'[c].epc \in Main
  BY <1>6 DEF Registers
<1>8. \A q \in Procs \ {c} : InHandler(q)' <=> InHandler(q)
  BY <1>2, <1>6 DEF InHandler
<1>9. /\ \A q \in Procs \ {c} : interrupted'[q] = interrupted[q]
      /\ interrupted' \in [Procs -> Registers]
  BY <1>2 DEF IInv, TypeOK
<1>10. \A q \in Procs \ used' : frame'[q] = frame[q]
  BY <1>2, <1>3, <1>6
<1> QED BY <1>2, <1>6, <1>7, <1>8, <1>9, <1>10, AllocprocStep

LEMMA NewProgramStep ==
  ASSUME IInv, NEW c \in Procs, NewProgram(c)
  PROVE  IInv'
<1> USE AfterFacts
<1>1. /\ Allocproc(c) /\ frame' = [frame EXCEPT ![c] = Start]
      /\ UNCHANGED interrupted
  BY DEF NewProgram
<1>2. /\ frame' \in [Procs -> Registers] /\ frame'[c].epc \in Main
      /\ \A q \in Procs \ {c} : frame'[q] = frame[q]
  BY <1>1 DEF IInv, TypeOK
<1>3. c \in used'
  BY <1>1 DEF Allocproc
<1>4. \A q \in Procs \ {c} : InHandler(q)' <=> InHandler(q)
  BY <1>2 DEF InHandler
<1>5. /\ interrupted' \in [Procs -> Registers]
      /\ \A q \in Procs \ {c} : interrupted'[q] = interrupted[q]
  BY <1>1 DEF IInv, TypeOK
<1> QED BY <1>1, <1>2, <1>3, <1>4, <1>5, AllocprocStep

LEMMA SysForkFailsStep ==
  ASSUME IInv, NEW p \in Procs, SysForkFails(p)
  PROVE  IInv'
<1> USE AfterFacts
<1>1. PICK error \in Results : frame' = [frame EXCEPT ![p] = [Ecall(p) EXCEPT !.a0 = error]]
  BY DEF SysForkFails, Returns
<1>2. p \in used /\ UNCHANGED <<used, alarm, history>>
  BY DEF SysForkFails, MayCall
<1>3. /\ [Ecall(p) EXCEPT !.a0 = error] \in Registers
      /\ \A q \in Procs : InHandler(q)' <=> InHandler(q)
  BY <1>1, EcallFacts DEF IInv, TypeOK, InHandler
<1>4. TypeOK'
  BY <1>1, <1>2, <1>3 DEF IInv, TypeOK, alarm, history
<1>5. GuardExact' /\ FreeSlots'
  BY <1>1, <1>2, <1>3 DEF IInv, TypeOK, GuardExact, FreeSlots, alarm
<1>6. HandlerFrame'
  BY <1>2, <1>3 DEF IInv, HandlerFrame, alarm, history
<1>7. CountExact'
  <2>1. \A q \in Procs : Armed(q)' = Armed(q) /\ Period(q)' = Period(q)
    BY <1>2 DEF Armed, Period, alarm
  <2>2. ASSUME NEW q \in used', Armed(q)', ~InHandler(q)'
        PROVE  (elapsed[q] = spent[q] /\ spent[q] < Period(q))'
    BY <1>2, <1>3, <2>1, <2>2 DEF IInv, TypeOK, CountExact, alarm, history
  <2> QED BY <2>2 DEF CountExact
<1> QED BY <1>4, <1>5, <1>6, <1>7 DEF IInv

LEMMA SysExitStep ==
  ASSUME IInv, HandlerMay = {}, NEW p \in Procs, SysExit(p)
  PROVE  IInv'
<1> USE AfterFacts
<1>1. /\ used' = used \ {p} /\ frame' = [frame EXCEPT ![p] = Start]
      /\ interrupted' = [interrupted EXCEPT ![p] = Start]
      /\ spent' = [spent EXCEPT ![p] = 0]
      /\ UNCHANGED alarm
  BY DEF SysExit, Restart
<1>2. ~InHandler(p)
  BY DEF SysExit, MayCall
<1>3. \A q \in Procs : InHandler(q)' <=> InHandler(q)
  BY <1>1, <1>2 DEF IInv, TypeOK, InHandler
<1>4. TypeOK'
  BY <1>1 DEF IInv, TypeOK, alarm
<1>5. GuardExact' /\ FreeSlots'
  BY <1>1, <1>3 DEF IInv, TypeOK, GuardExact, FreeSlots, alarm
<1>6. HandlerFrame'
  BY <1>1, <1>2, <1>3 DEF IInv, TypeOK, HandlerFrame, alarm
<1>7. CountExact'
  <2>1. \A q \in Procs : Armed(q)' = Armed(q) /\ Period(q)' = Period(q)
    BY <1>1 DEF Armed, Period, alarm
  <2>2. ASSUME NEW q \in used', Armed(q)', ~InHandler(q)'
        PROVE  (elapsed[q] = spent[q] /\ spent[q] < Period(q))'
    <3>1. q \in used /\ q \in Procs /\ q # p
      BY <1>1, <2>2 DEF IInv, TypeOK
    <3> QED BY <1>1, <1>3, <2>1, <2>2, <3>1 DEF IInv, TypeOK, CountExact, alarm
  <2> QED BY <2>2 DEF CountExact
<1> QED BY <1>4, <1>5, <1>6, <1>7 DEF IInv

LEMMA IInvNext ==
  ASSUME IInv, HandlerMay = {}, [Next]_vars
  PROVE  IInv'
<1>1. CASE UNCHANGED vars
  BY <1>1 DEF vars, alarm, history, IInv, TypeOK, GuardExact, FreeSlots,
              HandlerFrame, CountExact, InHandler, Armed, Period
<1>2. ASSUME NEW p \in Procs, TickInUser(p) PROVE IInv'
  BY <1>2, FireStep, CountStep, IgnoreStep DEF TickInUser
<1>3. ASSUME NEW p \in Procs, Step(p) PROVE IInv'
  BY <1>2, <1>3, ComputeStep, SysSigalarmStep, SysSigreturnStep, SysForkStep,
     SysForkFailsStep, SysExitStep DEF Step
<1> QED BY <1>1, <1>3, NewProgramStep DEF Next

-----------------------------------------------------------------------------
(* The inductive invariant holds in every reachable state.                 *)
THEOREM Invariance == HandlerMay = {} => (Spec => []IInv)
<1> SUFFICES ASSUME HandlerMay = {} PROVE Spec => []IInv
  OBVIOUS
<1>1. IInv /\ [Next]_vars => IInv'
  BY IInvNext
<1> QED BY <1>1, IInvInit, PTL DEF Spec

(* The guard says whether the handler of a process runs: what usertrap()   *)
(* reads in it when the next tick comes.                                   *)
THEOREM GuardIsExact == HandlerMay = {} => (Spec => []AlarmInv)
<1> SUFFICES ASSUME HandlerMay = {} PROVE Spec => []AlarmInv
  OBVIOUS
<1>1. IInv => AlarmInv
  BY DEF IInv, GuardExact, AlarmInv, GuardIsHandler, TypeOK
<1> QED BY <1>1, Invariance, PTL

(* Outside the handler the user time is less than the interval.            *)
THEOREM NeverLate == HandlerMay = {} => (Spec => []FiresOnTime)
<1> SUFFICES ASSUME HandlerMay = {} PROVE Spec => []FiresOnTime
  OBVIOUS
<1>1. IInv => FiresOnTime
  BY DEF IInv, CountExact, FiresOnTime
<1> QED BY <1>1, Invariance, PTL

(* A handler is entered from the main program only when the interval that  *)
(* sigalarm asked for is over, counted in user time.                       *)
THEOREM NotBeforeTime == HandlerMay = {} => (Spec => NeverEarly)
<1> SUFFICES ASSUME HandlerMay = {} PROVE Spec => NeverEarly
  OBVIOUS
<1> DEFINE Early(p) == p \in used /\ ~InHandler(p) /\ frame'[p].epc \in Handlers
           Over(p) == Armed(p) /\ spent[p] + 1 >= Period(p)
<1>1. ASSUME IInv, Next, NEW p \in Procs, Early(p) PROVE Over(p)
  <2> USE AfterFacts
  <2>1. frame \in [Procs -> Registers] /\ frame[p].epc \in Main /\ p \in used
    BY <1>1 DEF IInv, TypeOK, Registers, InHandler
  <2>2. frame'[p].epc \notin Main /\ frame'[p].epc \in Handlers /\ ~InHandler(p)
    BY <1>1
  <2>3. PICK q \in Procs : Step(q) \/ NewProgram(q)
    BY <1>1 DEF Next
  <2>4. ASSUME Compute(q) PROVE FALSE
    BY <2>1, <2>2, <2>4 DEF Compute
  <2>5. ASSUME TickInUser(q) PROVE Over(p)
    <3>1. Counting(q) /\ Due(q) /\ Fire(q) /\ q = p
      BY <2>1, <2>2, <2>5 DEF TickInUser, Count, Ignore, Fire
    <3>2. Armed(p) /\ elapsed[p] + 1 >= ticks[p]
      BY <3>1 DEF Counting, Due
    <3>3. elapsed[p] = spent[p] /\ elapsed[p] \in Nat
      BY <1>1, <2>1, <3>2 DEF IInv, CountExact, TypeOK
    <3> QED BY <3>2, <3>3 DEF Period
  <2>6. ASSUME NEW value \in Results, Returns(q, Ecall(q), value) PROVE FALSE
    <3>1. frame'[p].epc \in Handlers <=> InHandler(p)
      BY <1>1, <2>1, <2>6, EcallFacts DEF Returns, InHandler
    <3> QED BY <2>2, <3>1
  <2>7. ASSUME NEW n \in Intervals, NEW fn \in Handlers, SysSigalarm(q, n, fn) PROVE FALSE
    BY <2>6, <2>7, ValuesAssumption DEF SysSigalarm
  <2>8. ASSUME SysForkFails(q) PROVE FALSE
    BY <2>6, <2>8 DEF SysForkFails
  <2>9. ASSUME SysSigreturn(q) PROVE FALSE
    <3>1. InHandler(q) /\ saved[q].epc \in Main /\ Returns(q, saved[q], 0)
      BY <1>1, <2>9 DEF SysSigreturn, IInv, HandlerFrame
    <3>2. q # p
      BY <2>2, <3>1
    <3> QED BY <2>1, <2>2, <3>1, <3>2 DEF Returns
  <2>10. ASSUME SysExit(q) PROVE FALSE
    BY <2>1, <2>2, <2>10 DEF SysExit
  <2>11. ASSUME NEW c \in Procs, SysFork(q, c) PROVE FALSE
    <3>1. p # c
      BY <2>1, <2>11 DEF SysFork, Allocproc
    <3>2. PICK pid \in Results :
            frame' = [frame EXCEPT ![q] = [Ecall(q) EXCEPT !.a0 = pid],
                                   ![c] = [Ecall(q) EXCEPT !.a0 = 0]]
      BY <2>11 DEF SysFork
    <3>3. frame'[p] = IF p = q THEN [Ecall(q) EXCEPT !.a0 = pid] ELSE frame[p]
      BY <2>1, <3>1, <3>2
    <3>4. frame'[p].epc \in Handlers <=> InHandler(p)
      BY <1>1, <3>3, EcallFacts DEF InHandler
    <3> QED BY <2>2, <3>4
  <2>12. ASSUME NewProgram(q) PROVE FALSE
    <3>1. p # q
      BY <2>1, <2>12 DEF NewProgram, Allocproc
    <3> QED BY <2>1, <2>2, <2>12, <3>1 DEF NewProgram
  <2> QED BY <2>3, <2>4, <2>5, <2>7, <2>8, <2>9, <2>10, <2>11, <2>12 DEF Step
<1>2. IInv /\ [Next]_vars => [\A p \in Procs : Early(p) => Over(p)]_vars
  BY <1>1
<1>3. IInv /\ [Next]_vars =>
        [\A p \in Procs : p \in used /\ ~InHandler(p) /\ frame'[p].epc \in Handlers
                            => Armed(p) /\ spent[p] + 1 >= Period(p)]_vars
  BY <1>2
<1> QED BY <1>3, Invariance, PTL DEF Spec, NeverEarly

(* sigreturn() resumes what the handler interrupted, whatever the handler  *)
(* has called and however many ticks came while it ran: every register is  *)
(* as it was, but a0 is 0, what syscall() stores there after the call.     *)
THEOREM SigreturnRestores == HandlerMay = {} => (Spec => ResumesRegisters)
<1> SUFFICES ASSUME HandlerMay = {} PROVE Spec => ResumesRegisters
  OBVIOUS
<1>1. ASSUME IInv, NEW p \in Procs, SysSigreturn(p)
      PROVE  frame'[p] = [interrupted[p] EXCEPT !.a0 = 0]
  <2>1. saved[p] = interrupted[p]
    BY <1>1 DEF SysSigreturn, IInv, HandlerFrame
  <2> QED BY <1>1, <2>1 DEF SysSigreturn, Returns, IInv, TypeOK
<1>2. IInv /\ [Next]_vars =>
        [\A p \in Procs :
           SysSigreturn(p) => frame'[p] = [interrupted[p] EXCEPT !.a0 = 0]]_vars
  BY <1>1
<1> QED BY <1>2, Invariance, PTL DEF Spec, ResumesRegisters
=============================================================================
