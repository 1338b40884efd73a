---------------------------- MODULE ConsoleProofs ----------------------------
(***************************************************************************)
(* Proofs about Console, for any number of threads, any calls of printf    *)
(* whose arguments are what the format asks for, any messages and any      *)
(* stacks: printf takes and gives back its lock in every interleaving with *)
(* panics, lines stay whole, and backtrace prints the kernel's frames.     *)
(***************************************************************************)
EXTENDS Console, FiniteSetTheorems, SequenceTheorems, WellFoundedInduction, TLAPS

Fields == {"pc", "call", "todo", "locked", "in", "rest", "fp", "stack", "found"}

Printing == {"enter", "acquire", "begin", "body"}
Inside == {"begin", "body"}

(* Where a thread is, and what it is in printf for.                        *)
PlaceOK(t) ==
  /\ DOMAIN th[t] = Fields
  /\ th[t].pc \in Pcs /\ th[t].locked \in {0, 1}
  /\ th[t].in \in {"kernel", "backtrace", "panic"}
  /\ At(t, "idle") => th[t] = Idle
  /\ At(t, "walk") => th[t].in = "backtrace"
  /\ th[t].pc \in {"freeze", "spin"} => th[t].in = "panic"

(* What it prints.                                                         *)
CallOK(t) ==
  /\ At(t, "body") => th[t].call.fmt # Null
  /\ th[t].pc \in Printing /\ th[t].in # "panic" =>
       /\ th[t].call.fmt # Null => Prints(th[t].call.fmt, th[t].call.args)
       /\ th[t].in = "backtrace" => th[t].call.fmt # Null
       /\ At(t, "body") => th[t].todo \in Seq(STRING)

(* A thread that does not panic has the lock exactly inside a printf that  *)
(* has taken it, and takes it unless there has been a panic; one that      *)
(* panics prints without it, whether it still has it or not.               *)
LockOK(t) ==
  /\ th[t].in = "panic" => locking = 0
  /\ th[t].in = "panic" /\ th[t].pc \in Inside => th[t].locked = 0
  /\ th[t].in # "panic" => (lock = t <=> th[t].pc \in Inside /\ th[t].locked = 1)
  /\ At(t, "acquire") => th[t].locked = 1 /\ th[t].in # "panic"
  /\ th[t].pc \in Inside /\ th[t].locked = 0 => locking = 0

(* backtrace stands at a frame and has found those below.                  *)
Frames(stack) == DOMAIN stack \ {PGROUNDUP(Inner(stack))}
Below(stack, fp) == {other \in Frames(stack) : other < fp}
UpTo(stack, fp) == {other \in Frames(stack) : other <= fp}
AllRa(stack) == {stack[fp].ra : fp \in DOMAIN stack}

FoundOK(t) ==
  LET stack == th[t].stack
  IN /\ th[t].in = "backtrace" <=> stack \in Stacks
     /\ th[t].in = "backtrace" =>
          /\ th[t].fp \in DOMAIN stack
          /\ th[t].found \in Seq(AllRa(stack))
          /\ Len(th[t].found) = Cardinality(Below(stack, th[t].fp))
          /\ \A fp \in Below(stack, th[t].fp) :
               th[t].found[Cardinality(UpTo(stack, fp))] = stack[fp].ra

ThreadOK(t) == PlaceOK(t) /\ CallOK(t) /\ LockOK(t) /\ FoundOK(t)

(* What is on the line, as long as nobody has panicked.                    *)
LineOK ==
  /\ line \in Seq(Threads \X STRING)
  /\ locking = 1 => \A t \in Threads : At(t, "begin") => line = <<>>
  /\ LinesWhole

IInv ==
  /\ lock \in Threads \cup {Nobody}
  /\ locking \in {0, 1} /\ panicked \in {0, 1}
  /\ th = [t \in Threads |-> th[t]]
  /\ \A t \in Threads : ThreadOK(t)
  /\ LineOK

-----------------------------------------------------------------------------
LEMMA IdleFacts ==
  /\ DOMAIN Idle = Fields
  /\ Idle.pc = "idle" /\ Idle.locked = 0 /\ Idle.in = "kernel" /\ Idle.stack = Null
BY DEF Idle, Fields

(* A step of thread t and of no other.                                     *)
Moves(t, r) == th' = [th EXCEPT ![t] = r]

LEMMA OneThread ==
  ASSUME IInv, NEW t \in Threads, NEW r, Moves(t, r)
  PROVE  /\ th' = [u \in Threads |-> th'[u]]
         /\ th'[t] = r
         /\ \A u \in Threads : u # t => th'[u] = th[u]
<1>1. th = [u \in Threads |-> th[u]]
  BY DEF IInv
<1>2. th' = [u \in Threads |-> IF u = t THEN r ELSE th[u]]
  BY <1>1 DEF Moves
<1> QED BY <1>2

(* What the other threads know stays true, whoever takes the lock, gives   *)
(* it back or panics.                                                      *)
LEMMA OthersKeep ==
  ASSUME IInv, NEW t \in Threads, NEW u \in Threads, u # t, th'[u] = th[u],
         locking' \in {locking, 0},
         \/ lock' = lock
         \/ lock = Nobody /\ lock' = t
         \/ lock = t /\ lock' = Nobody
  PROVE  ThreadOK(u)'
<1>1. ThreadOK(u) /\ u # Nobody /\ t # Nobody
  BY SizesAssumption DEF IInv
<1>2. lock' = u <=> lock = u
  BY <1>1
<1>3. PlaceOK(u)' /\ CallOK(u)' /\ FoundOK(u)'
  BY <1>1 DEF ThreadOK, PlaceOK, CallOK, FoundOK, At
<1>4. LockOK(u)'
  BY <1>1, <1>2 DEF ThreadOK, LockOK, At
<1> QED BY <1>3, <1>4 DEF ThreadOK

(* The line stays as it is through a step that does not end inside printf. *)
LEMMA LineKeeps ==
  ASSUME IInv, NEW t \in Threads, NEW r, Moves(t, r), r.pc \notin Inside,
         line' = line, locking' \in {locking, 0}
  PROVE  LineOK'
<1>1. th'[t] = r /\ \A u \in Threads : u # t => th'[u] = th[u]
  BY OneThread
<1>2. locking' = 1 => locking = 1
  BY DEF IInv
<1>3. r.pc # "begin" /\ r.pc # "body"
  BY DEF Inside
<1>4. locking' = 1 => \A u \in Threads : At(u, "begin")' => line' = <<>>
  BY <1>1, <1>2, <1>3 DEF IInv, LineOK, At
<1>5. LinesWhole'
  BY <1>1, <1>2, <1>3 DEF IInv, LineOK, LinesWhole, At
<1> QED BY <1>4, <1>5 DEF IInv, LineOK

(* A step of one thread: what is to be shown.                              *)
LEMMA ThreadStep ==
  ASSUME IInv, NEW t \in Threads, NEW r, Moves(t, r),
         locking' \in {locking, 0}, panicked' \in {0, 1},
         \/ lock' = lock
         \/ lock = Nobody /\ lock' = t
         \/ lock = t /\ lock' = Nobody,
         ThreadOK(t)', LineOK'
  PROVE  IInv'
<1>1. th' = [u \in Threads |-> th'[u]] /\ th'[t] = r /\ \A u \in Threads : u # t => th'[u] = th[u]
  BY OneThread
<1>2. ASSUME NEW u \in Threads PROVE ThreadOK(u)'
  <2>1. CASE u = t
    BY <2>1
  <2>2. CASE u # t
    BY <1>1, <2>2, OthersKeep
  <2> QED BY <2>1, <2>2
<1>3. lock' \in Threads \cup {Nobody} /\ locking' \in {0, 1}
  BY DEF IInv
<1> QED BY <1>1, <1>2, <1>3 DEF IInv

-----------------------------------------------------------------------------
(* The ways into printf.                                                   *)
LEMMA CallingFacts ==
  ASSUME NEW r, DOMAIN r = Fields, NEW fmt, NEW args
  PROVE  /\ DOMAIN Calling(r, fmt, args) = Fields
         /\ Calling(r, fmt, args).pc = "enter"
         /\ Calling(r, fmt, args).call.fmt = fmt /\ Calling(r, fmt, args).call.args = args
         /\ Calling(r, fmt, args).locked = r.locked
         /\ Calling(r, fmt, args).in = r.in
         /\ Calling(r, fmt, args).fp = r.fp
         /\ Calling(r, fmt, args).stack = r.stack
         /\ Calling(r, fmt, args).found = r.found
BY DEF Calling, Fields

LEMMA PrintfStep ==
  ASSUME IInv, NEW t \in Threads, Printf(t)
  PROVE  IInv'
<1>1. PICK call \in Calls : th' = [th EXCEPT ![t] = Calling(@, call.fmt, call.args)]
  BY DEF Printf
<1>2. PICK r : r = Calling(th[t], call.fmt, call.args)
  OBVIOUS
<1>3. th[t] = Idle /\ ThreadOK(t) /\ At(t, "idle")
  BY DEF Printf, IInv, ThreadOK, PlaceOK
<1>4. /\ DOMAIN r = Fields /\ r.pc = "enter" /\ r.locked = 0 /\ r.in = "kernel" /\ r.stack = Null
      /\ r.call.fmt = call.fmt /\ r.call.args = call.args
  BY <1>2, <1>3, IdleFacts, CallingFacts
<1>5. Moves(t, r)
  <2>1. th = [u \in Threads |-> th[u]]
    BY DEF IInv
  <2> QED BY <1>1, <1>2, <2>1 DEF Moves
<1>6. th'[t] = r
  BY <1>5, OneThread
<1>7. UNCHANGED <<lock, locking, panicked, line, shown>>
  BY DEF Printf
<1>8. PlaceOK(t)'
  BY <1>4, <1>6 DEF PlaceOK, At, Pcs
<1>9. CallOK(t)'
  BY <1>4, <1>6, CallsAssumption DEF CallOK, At
<1>10. LockOK(t)'
  BY <1>3, <1>4, <1>6, <1>7, IdleFacts DEF ThreadOK, LockOK, At, Inside
<1>11. FoundOK(t)'
  BY <1>4, <1>6, StacksAssumption DEF FoundOK
<1>12. LineOK'
  BY <1>4, <1>5, <1>7, LineKeeps DEF Inside
<1> QED BY <1>5, <1>7, <1>8, <1>9, <1>10, <1>11, <1>12, ThreadStep DEF ThreadOK, IInv

(* panic() from the kernel, or from the printf of a null pointer.          *)
LEMMA PanicStep ==
  ASSUME IInv, NEW t \in Threads, NEW s, Panic(t, s),
         th[t].in = "kernel" \/ th[t].in = "panic"
  PROVE  IInv'
<1>1. PICK r : r = Panicking(th[t], s)
  OBVIOUS
<1>2. ThreadOK(t) /\ DOMAIN th[t] = Fields
  BY DEF IInv, ThreadOK, PlaceOK
<1>3. DOMAIN r = Fields /\ r.pc = "enter" /\ r.in = "panic" /\ r.locked = th[t].locked
      /\ r.stack = th[t].stack
  <2> DEFINE c == Calling(th[t], <<"p", "a", "n", "i", "c", ":">>, <<>>)
  <2>1. DOMAIN c = Fields /\ c.pc = "enter" /\ c.locked = th[t].locked /\ c.stack = th[t].stack
    BY <1>2, CallingFacts
  <2>2. r = [c EXCEPT !.in = "panic", !.rest = <<s, <<"\n">>>>]
    BY <1>1 DEF Panicking
  <2> HIDE DEF c
  <2> QED BY <2>1, <2>2 DEF Fields
<1>4. Moves(t, r)
  <2>1. th = [u \in Threads |-> th[u]]
    BY DEF IInv
  <2> QED BY <1>1, <2>1 DEF Moves, Panic
<1>5. th'[t] = r
  BY <1>4, OneThread
<1>6. UNCHANGED <<lock, panicked, line>> /\ locking' = 0
  BY DEF Panic
<1>7. PlaceOK(t)' /\ CallOK(t)'
  BY <1>2, <1>3, <1>5 DEF ThreadOK, PlaceOK, CallOK, At, Pcs
<1>8. LockOK(t)'
  BY <1>3, <1>5, <1>6 DEF LockOK, At, Inside
<1>9. FoundOK(t)'
  BY <1>2, <1>3, <1>5 DEF ThreadOK, FoundOK
<1>10. LineOK'
  BY <1>3, <1>4, <1>6, LineKeeps DEF Inside
<1> QED BY <1>4, <1>6, <1>7, <1>8, <1>9, <1>10, ThreadStep DEF ThreadOK, IInv

LEMMA PanicSteps ==
  ASSUME IInv, NEW t \in Threads, KernelPanics(t) \/ NullFmt(t)
  PROVE  IInv'
<1>1. CASE KernelPanics(t)
  <2>1. th[t].in = "kernel"
    BY <1>1, IdleFacts DEF KernelPanics, IInv, ThreadOK, PlaceOK
  <2> QED BY <1>1, <2>1, PanicStep DEF KernelPanics
<1>2. CASE NullFmt(t)
  <2>1. th[t].in \in {"kernel", "backtrace", "panic"} /\ th[t].in # "backtrace"
    BY <1>2 DEF NullFmt, IInv, ThreadOK, PlaceOK, CallOK, Printing, At
  <2> QED BY <1>2, <2>1, PanicStep DEF NullFmt
<1> QED BY <1>1, <1>2

-----------------------------------------------------------------------------
(* printf.                                                                 *)
LEMMA ReadLockingStep ==
  ASSUME IInv, NEW t \in Threads, ReadLocking(t)
  PROVE  IInv'
<1>1. PICK r : r = [th[t] EXCEPT !.locked = locking,
                                 !.pc = IF locking = 1 THEN "acquire" ELSE "begin"]
  OBVIOUS
<1>2. ThreadOK(t) /\ DOMAIN th[t] = Fields /\ th[t].pc = "enter" /\ locking \in {0, 1}
  BY DEF IInv, ThreadOK, PlaceOK, ReadLocking, At
<1>3. /\ DOMAIN r = Fields /\ r.locked = locking
      /\ r.pc = (IF locking = 1 THEN "acquire" ELSE "begin")
      /\ r.call = th[t].call /\ r.in = th[t].in /\ r.fp = th[t].fp /\ r.stack = th[t].stack
      /\ r.found = th[t].found
  BY <1>1, <1>2 DEF Fields
<1>4. Moves(t, r)
  <2>1. th = [u \in Threads |-> th[u]]
    BY DEF IInv
  <2> QED BY <1>1, <2>1 DEF Moves, ReadLocking
<1>5. th'[t] = r /\ \A u \in Threads : u # t => th'[u] = th[u]
  BY <1>4, OneThread
<1>6. UNCHANGED <<lock, locking, panicked, line, shown>>
  BY DEF ReadLocking
<1>7. PlaceOK(t)' /\ CallOK(t)' /\ FoundOK(t)'
  BY <1>2, <1>3, <1>5 DEF ThreadOK, PlaceOK, CallOK, FoundOK, At, Pcs, Printing
<1>8. LockOK(t)'
  BY <1>2, <1>3, <1>5, <1>6 DEF ThreadOK, LockOK, At, Inside
<1>9. LineOK'
  <2>1. CASE locking = 1
    BY <1>3, <1>4, <1>6, <2>1, LineKeeps DEF Inside
  <2>2. CASE locking = 0
    BY <1>6, <2>2 DEF IInv, LineOK, LinesWhole
  <2> QED BY <1>2, <2>1, <2>2
<1> QED BY <1>4, <1>6, <1>7, <1>8, <1>9, ThreadStep DEF ThreadOK, IInv

LEMMA AcquireStep ==
  ASSUME IInv, NEW t \in Threads, Acquire(t)
  PROVE  IInv'
<1>1. PICK r : r = [th[t] EXCEPT !.pc = "begin"]
  OBVIOUS
<1>2. ThreadOK(t) /\ DOMAIN th[t] = Fields /\ th[t].pc = "acquire" /\ lock = Nobody
      /\ th[t].locked = 1 /\ th[t].in # "panic"
  BY DEF IInv, ThreadOK, PlaceOK, LockOK, Acquire, At
<1>3. /\ DOMAIN r = Fields /\ r.locked = 1 /\ r.pc = "begin"
      /\ r.call = th[t].call /\ r.in = th[t].in /\ r.fp = th[t].fp /\ r.stack = th[t].stack
      /\ r.found = th[t].found
  BY <1>1, <1>2 DEF Fields
<1>4. Moves(t, r)
  <2>1. th = [u \in Threads |-> th[u]]
    BY DEF IInv
  <2> QED BY <1>1, <2>1 DEF Moves, Acquire
<1>5. th'[t] = r /\ \A u \in Threads : u # t => th'[u] = th[u]
  BY <1>4, OneThread
<1>6. UNCHANGED <<locking, panicked, shown>> /\ lock' = t /\ line' = <<>>
  BY DEF Acquire
<1>7. PlaceOK(t)' /\ CallOK(t)' /\ FoundOK(t)'
  BY <1>2, <1>3, <1>5 DEF ThreadOK, PlaceOK, CallOK, FoundOK, At, Pcs, Printing
<1>8. LockOK(t)'
  BY <1>2, <1>3, <1>5, <1>6 DEF ThreadOK, LockOK, At, Inside
<1>9. LineOK'
  <2>1. line' \in Seq(Threads \X STRING)
    BY <1>6
  <2>2. ASSUME NEW u \in Threads, locking = 1, u # t PROVE th[u].pc \notin Inside
    <3>1. ThreadOK(u) /\ u # Nobody
      BY SizesAssumption DEF IInv
    <3> QED BY <1>2, <2>2, <3>1 DEF ThreadOK, LockOK, PlaceOK
  <2>3. LinesWhole'
    BY <1>3, <1>5, <1>6, <2>2 DEF LinesWhole, At, Inside
  <2> QED BY <1>6, <2>1, <2>3 DEF LineOK
<1>10. locking' \in {locking, 0} /\ panicked' \in {0, 1}
  BY <1>6 DEF IInv
<1> QED BY <1>2, <1>4, <1>6, <1>7, <1>8, <1>9, <1>10, ThreadStep DEF ThreadOK

LEMMA BeginStep ==
  ASSUME IInv, NEW t \in Threads, Begin(t)
  PROVE  IInv'
<1>1. PICK r : r = [th[t] EXCEPT !.pc = "body", !.todo = Output(th[t].call.fmt, th[t].call.args)]
  OBVIOUS
<1>2. ThreadOK(t) /\ DOMAIN th[t] = Fields /\ th[t].pc = "begin" /\ th[t].call.fmt # Null
  BY DEF IInv, ThreadOK, PlaceOK, Begin, At
<1>3. /\ DOMAIN r = Fields /\ r.locked = th[t].locked /\ r.pc = "body"
      /\ r.todo = Output(r.call.fmt, r.call.args)
      /\ r.call = th[t].call /\ r.in = th[t].in /\ r.fp = th[t].fp /\ r.stack = th[t].stack
      /\ r.found = th[t].found
  BY <1>1, <1>2 DEF Fields
<1>4. Moves(t, r)
  <2>1. th = [u \in Threads |-> th[u]]
    BY DEF IInv
  <2> QED BY <1>1, <2>1 DEF Moves, Begin
<1>5. th'[t] = r /\ \A u \in Threads : u # t => th'[u] = th[u]
  BY <1>4, OneThread
<1>6. UNCHANGED <<lock, locking, panicked, line, shown>>
  BY DEF Begin
<1>7. PlaceOK(t)' /\ FoundOK(t)'
  BY <1>2, <1>3, <1>5 DEF ThreadOK, PlaceOK, FoundOK, At, Pcs
<1>8. th[t].in # "panic" => r.todo \in Seq(STRING)
  BY <1>2, <1>3 DEF ThreadOK, CallOK, Printing, Prints
<1>9. CallOK(t)'
  BY <1>2, <1>3, <1>5, <1>8 DEF ThreadOK, CallOK, At, Printing
<1>10. LockOK(t)'
  BY <1>2, <1>3, <1>5, <1>6 DEF ThreadOK, LockOK, At, Inside
<1>11. LineOK'
  <2>1. CASE locking # 1
    BY <1>6, <2>1 DEF IInv, LineOK, LinesWhole
  <2>2. CASE locking = 1
    <3>1. line = <<>>
      BY <1>2, <2>2 DEF IInv, LineOK, At
    <3>2. r.todo \in Seq(STRING)
      BY <1>2, <1>8, <2>2 DEF ThreadOK, LockOK
    <3>3. DOMAIN <<>> = {} /\ [i \in DOMAIN <<>> |-> <<>>[i][2]] = <<>>
      OBVIOUS
    <3>4. [i \in DOMAIN line |-> line[i][2]] = <<>>
      BY <3>1
    <3>5. [i \in DOMAIN line |-> line[i][2]] \o r.todo = r.todo
      BY <3>2, <3>4
    <3>6. LinesWhole'
      <4>1. ASSUME NEW u \in Threads, th'[u].pc = "body"
            PROVE  /\ \A i \in DOMAIN line : line[i][1] = u
                   /\ [i \in DOMAIN line |-> line[i][2]] \o th'[u].todo
                        = Output(th'[u].call.fmt, th'[u].call.args)
        <5>1. CASE u = t
          BY <1>3, <1>5, <3>1, <3>5, <5>1
        <5>2. CASE u # t
          BY <1>5, <2>2, <4>1, <5>2 DEF IInv, LineOK, LinesWhole, At
        <5> QED BY <5>1, <5>2
      <4> QED BY <1>6, <4>1 DEF LinesWhole, At
    <3> QED BY <1>6, <3>1, <3>6 DEF IInv, LineOK
  <2> QED BY <2>1, <2>2
<1> QED BY <1>4, <1>6, <1>7, <1>9, <1>10, <1>11, ThreadStep DEF ThreadOK, IInv

(* A character moves from what is to come to the line.                     *)
LEMMA MoveOne ==
  ASSUME NEW l \in Seq(Threads \X STRING), NEW todo \in Seq(STRING), todo # <<>>, NEW t \in Threads
  PROVE  LET m == Append(l, <<t, Head(todo)>>)
         IN /\ m \in Seq(Threads \X STRING)
            /\ (\A i \in DOMAIN l : l[i][1] = t) => \A i \in DOMAIN m : m[i][1] = t
            /\ [i \in DOMAIN m |-> m[i][2]] \o Tail(todo) = [i \in DOMAIN l |-> l[i][2]] \o todo
<1> DEFINE m == Append(l, <<t, Head(todo)>>)
           s == [i \in DOMAIN l |-> l[i][2]]
           q == [i \in DOMAIN m |-> m[i][2]]
<1>1. Head(todo) \in STRING /\ Tail(todo) \in Seq(STRING) /\ Head(todo) = todo[1]
      /\ Len(todo) \in Nat \ {0} /\ Len(Tail(todo)) = Len(todo) - 1
      /\ \A i \in 1..(Len(todo) - 1) : Tail(todo)[i] = todo[i + 1]
  OBVIOUS
<1>2. m \in Seq(Threads \X STRING) /\ Len(m) = Len(l) + 1 /\ Len(l) \in Nat
      /\ DOMAIN l = 1..Len(l) /\ DOMAIN m = 1..(Len(l) + 1)
      /\ (\A i \in 1..Len(l) : m[i] = l[i]) /\ m[Len(l) + 1] = <<t, Head(todo)>>
  BY <1>1
<1>3. \A i \in 1..Len(l) : l[i][2] \in STRING
  OBVIOUS
<1> HIDE DEF m
<1>4. s \in Seq(STRING) /\ Len(s) = Len(l)
  BY <1>2, <1>3
<1>5. \A i \in 1..(Len(l) + 1) : m[i][2] \in STRING
  BY <1>1, <1>2, <1>3
<1>6. q \in Seq(STRING) /\ Len(q) = Len(l) + 1
  BY <1>2, <1>5
<1>7. \A i \in 1..Len(l) : q[i] = s[i]
  BY <1>2
<1>8. q[Len(l) + 1] = Head(todo)
  BY <1>2
<1> HIDE DEF q, s
<1>9. q \o Tail(todo) = s \o todo
  <2> DEFINE a == q \o Tail(todo)
             b == s \o todo
  <2>1. /\ a \in Seq(STRING) /\ Len(a) = Len(q) + Len(Tail(todo))
        /\ \A i \in 1..(Len(q) + Len(Tail(todo))) :
             a[i] = IF i <= Len(q) THEN q[i] ELSE Tail(todo)[i - Len(q)]
    BY <1>1, <1>6, ConcatProperties
  <2>2. /\ b \in Seq(STRING) /\ Len(b) = Len(s) + Len(todo)
        /\ \A i \in 1..(Len(s) + Len(todo)) :
             b[i] = IF i <= Len(s) THEN s[i] ELSE todo[i - Len(s)]
    BY <1>4, ConcatProperties
  <2>3. Len(a) = Len(l) + Len(todo) /\ Len(b) = Len(l) + Len(todo)
    BY <1>1, <1>2, <1>4, <1>6, <2>1, <2>2
  <2> HIDE DEF a, b
  <2>6. Len(q) + Len(Tail(todo)) = Len(l) + Len(todo) /\ Len(s) + Len(todo) = Len(l) + Len(todo)
    BY <1>1, <1>2, <1>4, <1>6
  <2>7. \A i \in 1..(Len(l) + Len(todo)) :
          /\ a[i] = IF i <= Len(l) + 1 THEN q[i] ELSE Tail(todo)[i - (Len(l) + 1)]
          /\ b[i] = IF i <= Len(l) THEN s[i] ELSE todo[i - Len(l)]
    BY <1>4, <1>6, <2>1, <2>2, <2>6
  <2>4. ASSUME NEW i \in 1..(Len(l) + Len(todo)) PROVE a[i] = b[i]
    <3>0. i \in Nat /\ Len(l) \in Nat
      BY <1>1, <1>2
    <3>1. CASE i <= Len(l)
      <4>1. i \in 1..Len(l) /\ i <= Len(l) + 1
        BY <3>0, <3>1
      <4> QED BY <1>7, <2>7, <3>1, <4>1
    <3>2. CASE i = Len(l) + 1
      <4>1. i - Len(l) = 1 /\ ~(i <= Len(l)) /\ i <= Len(l) + 1
        BY <3>0, <3>2
      <4>2. a[i] = q[i] /\ b[i] = todo[1]
        BY <2>7, <4>1
      <4> QED BY <1>1, <1>8, <3>2, <4>2
    <3>3. CASE i > Len(l) + 1
      <4>1. i - (Len(l) + 1) \in 1..(Len(todo) - 1) /\ (i - (Len(l) + 1)) + 1 = i - Len(l)
        BY <1>1, <3>0, <3>3
      <4>2. a[i] = Tail(todo)[i - (Len(l) + 1)] /\ b[i] = todo[i - Len(l)]
        BY <2>7, <3>0, <3>3
      <4> QED BY <1>1, <4>1, <4>2
    <3>4. i <= Len(l) \/ i = Len(l) + 1 \/ i > Len(l) + 1
      BY <3>0
    <3> QED BY <3>1, <3>2, <3>3, <3>4
  <2>5. a = b
    BY <2>1, <2>2, <2>3, <2>4, SeqEqual
  <2> QED BY <2>5 DEF a, b
<1>10. (\A i \in DOMAIN l : l[i][1] = t) => \A i \in DOMAIN m : m[i][1] = t
  BY <1>2
<1> QED BY <1>2, <1>9, <1>10 DEF m, q, s

LEMMA ConsputcStep ==
  ASSUME IInv, NEW t \in Threads, Consputc(t)
  PROVE  IInv'
<1>1. PICK r : r = [th[t] EXCEPT !.todo = Tail(@)]
  OBVIOUS
<1>2. ThreadOK(t) /\ DOMAIN th[t] = Fields /\ th[t].pc = "body" /\ th[t].todo # <<>>
  BY DEF IInv, ThreadOK, PlaceOK, Consputc, At
<1>3. /\ DOMAIN r = Fields /\ r.locked = th[t].locked /\ r.pc = "body" /\ r.todo = Tail(th[t].todo)
      /\ r.call = th[t].call /\ r.in = th[t].in /\ r.fp = th[t].fp /\ r.stack = th[t].stack
      /\ r.found = th[t].found
  BY <1>1, <1>2 DEF Fields
<1>4. Moves(t, r)
  <2>1. th = [u \in Threads |-> th[u]]
    BY DEF IInv
  <2> QED BY <1>1, <2>1 DEF Moves, Consputc
<1>5. th'[t] = r /\ \A u \in Threads : u # t => th'[u] = th[u]
  BY <1>4, OneThread
<1>6. UNCHANGED <<lock, locking, panicked>>
      /\ line' = IF locking = 1 THEN Append(line, <<t, Head(th[t].todo)>>) ELSE <<>>
  BY DEF Consputc
<1>7. PlaceOK(t)' /\ FoundOK(t)'
  BY <1>2, <1>3, <1>5 DEF ThreadOK, PlaceOK, FoundOK, At, Pcs
<1>8. th[t].in # "panic" => th[t].todo \in Seq(STRING) /\ r.todo \in Seq(STRING)
  <2>1. th[t].in # "panic" => th[t].todo \in Seq(STRING)
    BY <1>2 DEF ThreadOK, CallOK, Printing, At
  <2>2. ASSUME NEW todo \in Seq(STRING), todo # <<>> PROVE Tail(todo) \in Seq(STRING)
    BY <2>2
  <2> QED BY <1>2, <1>3, <2>1, <2>2
<1>9. CallOK(t)'
  BY <1>2, <1>3, <1>5, <1>8 DEF ThreadOK, CallOK, At, Printing
<1>10. LockOK(t)'
  BY <1>2, <1>3, <1>5, <1>6 DEF ThreadOK, LockOK, At, Inside
<1>11. LineOK'
  <2>1. CASE locking # 1
    BY <1>6, <2>1 DEF IInv, LineOK, LinesWhole
  <2>2. CASE locking = 1
    <3>1. th[t].in # "panic" /\ th[t].locked = 1 /\ lock = t
      <4>1. th[t].pc \in Inside /\ th[t].locked \in {0, 1}
        BY <1>2 DEF ThreadOK, PlaceOK, Inside
      <4>2. LockOK(t)
        BY <1>2 DEF ThreadOK
      <4>3. th[t].in # "panic" /\ th[t].locked = 1
        BY <2>2, <4>1, <4>2 DEF LockOK
      <4> QED BY <4>1, <4>2, <4>3 DEF LockOK
    <3>2. ASSUME NEW u \in Threads, u # t PROVE th[u].pc \notin Inside
      <4>1. ThreadOK(u)
        BY DEF IInv
      <4> QED BY <2>2, <3>1, <3>2, <4>1 DEF ThreadOK, LockOK, PlaceOK
    <3>3. line \in Seq(Threads \X STRING) /\ line' = Append(line, <<t, Head(th[t].todo)>>)
      BY <1>6, <2>2 DEF IInv, LineOK
    <3>4. /\ \A i \in DOMAIN line : line[i][1] = t
          /\ [i \in DOMAIN line |-> line[i][2]] \o th[t].todo
               = Output(th[t].call.fmt, th[t].call.args)
      BY <1>2, <2>2 DEF IInv, LineOK, LinesWhole, At
    <3>5. /\ line' \in Seq(Threads \X STRING)
          /\ \A i \in DOMAIN line' : line'[i][1] = t
          /\ [i \in DOMAIN line' |-> line'[i][2]] \o r.todo
               = [i \in DOMAIN line |-> line[i][2]] \o th[t].todo
      <4>1. PICK todo : todo = th[t].todo
        OBVIOUS
      <4>2. todo \in Seq(STRING) /\ todo # <<>> /\ r.todo = Tail(todo)
            /\ line' = Append(line, <<t, Head(todo)>>)
        BY <1>2, <1>3, <1>8, <3>1, <3>3, <4>1
      <4>3. /\ Append(line, <<t, Head(todo)>>) \in Seq(Threads \X STRING)
            /\ (\A i \in DOMAIN line : line[i][1] = t) =>
                 \A i \in DOMAIN Append(line, <<t, Head(todo)>>) :
                   Append(line, <<t, Head(todo)>>)[i][1] = t
            /\ [i \in DOMAIN Append(line, <<t, Head(todo)>>) |->
                   Append(line, <<t, Head(todo)>>)[i][2]] \o Tail(todo)
                 = [i \in DOMAIN line |-> line[i][2]] \o todo
        BY <3>3, <4>2, MoveOne
      <4> QED BY <3>4, <4>1, <4>2, <4>3
    <3>6. LinesWhole'
      <4>1. ASSUME NEW u \in Threads, th'[u].pc = "body"
            PROVE  /\ \A i \in DOMAIN line' : line'[i][1] = u
                   /\ [i \in DOMAIN line' |-> line'[i][2]] \o th'[u].todo
                        = Output(th'[u].call.fmt, th'[u].call.args)
        <5>1. u = t
          BY <1>5, <3>2, <4>1 DEF Inside
        <5> QED BY <1>3, <1>5, <3>4, <3>5, <5>1
      <4> QED BY <4>1 DEF LinesWhole, At
    <3>7. \A u \in Threads : ~At(u, "begin")'
      BY <1>3, <1>5, <3>2 DEF At, Inside
    <3> QED BY <3>5, <3>6, <3>7 DEF LineOK
  <2> QED BY <2>1, <2>2
<1>12. lock' = lock /\ locking' \in {locking, 0} /\ panicked' \in {0, 1}
  BY <1>6 DEF IInv
<1> QED BY <1>4, <1>7, <1>9, <1>10, <1>11, <1>12, ThreadStep DEF ThreadOK

(* What printf returns to, in the kernel, in backtrace or in panic.        *)
LEMMA ReturnedFacts ==
  ASSUME NEW r, DOMAIN r = Fields, r.in \in {"kernel", "backtrace", "panic"}
  PROVE  LET b == Returned(r)
         IN /\ DOMAIN b = Fields /\ b.in = r.in
            /\ r.in = "kernel" => b = Idle
            /\ r.in = "backtrace" =>
                 /\ b.pc = "walk" /\ b.locked = 0
                 /\ b.fp = r.fp /\ b.stack = r.stack /\ b.found = r.found
            /\ r.in = "panic" => b.pc \in {"enter", "freeze"} /\ b.stack = r.stack /\ b.locked = 0
<1> DEFINE back == [r EXCEPT !.call = Null, !.locked = 0]
<1>1. /\ DOMAIN back = Fields /\ back.locked = 0 /\ back.in = r.in
      /\ back.fp = r.fp /\ back.stack = r.stack /\ back.found = r.found
  BY DEF Fields
<1> HIDE DEF back
<1>2. Returned(r) = CASE r.in = "kernel" -> Idle
         [] r.in = "backtrace" -> [back EXCEPT !.pc = "walk"]
         [] r.in = "panic" /\ r.rest # <<>> ->
              [Calling(back, Head(r.rest), <<>>) EXCEPT !.rest = Tail(@)]
         [] r.in = "panic" /\ r.rest = <<>> -> [back EXCEPT !.pc = "freeze"]
  BY DEF Returned, back
<1>3. CASE r.in = "kernel"
  <2>1. Returned(r) = Idle
    BY <1>2, <1>3
  <2> QED BY <1>3, <2>1, IdleFacts
<1>4. CASE r.in = "backtrace"
  <2>1. Returned(r) = [back EXCEPT !.pc = "walk"]
    BY <1>2, <1>4
  <2> QED BY <1>1, <1>4, <2>1 DEF Fields
<1>5. CASE r.in = "panic" /\ r.rest = <<>>
  <2>1. Returned(r) = [back EXCEPT !.pc = "freeze"]
    BY <1>2, <1>5
  <2> QED BY <1>1, <1>5, <2>1 DEF Fields
<1>6. CASE r.in = "panic" /\ r.rest # <<>>
  <2>1. PICK c : c = Calling(back, Head(r.rest), <<>>)
    OBVIOUS
  <2>2. Returned(r) = [c EXCEPT !.rest = Tail(@)]
    BY <1>2, <1>6, <2>1
  <2>3. DOMAIN c = Fields /\ c.pc = "enter" /\ c.locked = 0 /\ c.in = r.in /\ c.stack = r.stack
    BY <1>1, <2>1, CallingFacts
  <2> QED BY <1>6, <2>2, <2>3 DEF Fields
<1> QED BY <1>3, <1>4, <1>5, <1>6

LEMMA ReturnStep ==
  ASSUME IInv, NEW t \in Threads, Return(t)
  PROVE  IInv'
<1>1. PICK r : r = Returned(th[t])
  OBVIOUS
<1>2. ThreadOK(t) /\ DOMAIN th[t] = Fields /\ th[t].pc = "body"
      /\ th[t].in \in {"kernel", "backtrace", "panic"} /\ th[t].locked \in {0, 1} /\ t # Nobody
  BY SizesAssumption DEF IInv, ThreadOK, PlaceOK, Return, Done, At
<1>3. /\ DOMAIN r = Fields /\ r.in = th[t].in /\ r.locked = 0
      /\ r.in = "kernel" => r = Idle
      /\ r.in = "backtrace" =>
           /\ r.pc = "walk"
           /\ r.fp = th[t].fp /\ r.stack = th[t].stack /\ r.found = th[t].found
      /\ r.in = "panic" => r.pc \in {"enter", "freeze"} /\ r.stack = th[t].stack
  BY <1>1, <1>2, ReturnedFacts, IdleFacts
<1>4. r.pc \in {"idle", "walk", "enter", "freeze"} /\ (r.in # "panic" => r.pc \in {"idle", "walk"})
  BY <1>2, <1>3, IdleFacts
<1>5. Moves(t, r)
  <2>1. th = [u \in Threads |-> th[u]]
    BY DEF IInv
  <2> QED BY <1>1, <2>1 DEF Moves, Return
<1>6. th'[t] = r
  BY <1>5, OneThread
<1>7. UNCHANGED <<locking, panicked, line, shown>>
      /\ lock' = IF th[t].locked = 1 THEN Nobody ELSE lock
  BY DEF Return
<1>8. (th[t].locked = 1 => lock = t) /\ (th[t].in = "panic" => locking = 0)
      /\ (th[t].in # "panic" => lock' # t)
  BY <1>2, <1>7 DEF ThreadOK, LockOK, Inside
<1>9. PlaceOK(t)'
  BY <1>2, <1>3, <1>4, <1>6, IdleFacts DEF PlaceOK, At, Pcs
<1>10. CallOK(t)'
  BY <1>4, <1>3, <1>6 DEF CallOK, At, Printing
<1>11. LockOK(t)'
  BY <1>3, <1>4, <1>6, <1>7, <1>8 DEF LockOK, At, Inside
<1>12. FoundOK(t)'
  BY <1>2, <1>3, <1>6, IdleFacts, StacksAssumption DEF ThreadOK, FoundOK
<1>13. LineOK'
  BY <1>4, <1>5, <1>7, LineKeeps DEF Inside
<1>14. lock' = lock \/ (lock = t /\ lock' = Nobody)
  BY <1>7, <1>8
<1> QED BY <1>5, <1>7, <1>9, <1>10, <1>11, <1>12, <1>13, <1>14, ThreadStep DEF ThreadOK, IInv

LEMMA FreezeStep ==
  ASSUME IInv, NEW t \in Threads, Freeze(t)
  PROVE  IInv'
<1>1. PICK r : r = [th[t] EXCEPT !.pc = "spin"]
  OBVIOUS
<1>2. ThreadOK(t) /\ DOMAIN th[t] = Fields /\ th[t].pc = "freeze" /\ th[t].in = "panic"
  BY DEF IInv, ThreadOK, PlaceOK, Freeze, At
<1>3. /\ DOMAIN r = Fields /\ r.locked = th[t].locked /\ r.pc = "spin"
      /\ r.in = "panic" /\ r.stack = th[t].stack
  BY <1>1, <1>2 DEF Fields
<1>4. Moves(t, r)
  <2>1. th = [u \in Threads |-> th[u]]
    BY DEF IInv
  <2> QED BY <1>1, <2>1 DEF Moves, Freeze
<1>5. th'[t] = r
  BY <1>4, OneThread
<1>6. UNCHANGED <<lock, locking, line, shown>> /\ panicked' = 1
  BY DEF Freeze
<1>7. PlaceOK(t)' /\ CallOK(t)' /\ LockOK(t)'
  BY <1>2, <1>3, <1>5, <1>6 DEF ThreadOK, PlaceOK, CallOK, LockOK, At, Pcs, Inside, Printing
<1>8. FoundOK(t)'
  BY <1>2, <1>3, <1>5 DEF ThreadOK, FoundOK
<1>9. LineOK'
  BY <1>3, <1>4, <1>6, LineKeeps DEF Inside
<1>10. lock' = lock /\ locking' \in {locking, 0} /\ panicked' \in {0, 1}
  BY <1>6
<1> QED BY <1>4, <1>7, <1>8, <1>9, <1>10, ThreadStep DEF ThreadOK

-----------------------------------------------------------------------------
(* backtrace.                                                              *)

(* Every set of numbers has a least one.                                   *)
LEMMA LeastNumber ==
  ASSUME NEW S \in SUBSET Nat, S # {}
  PROVE  \E n \in S : \A m \in S : n <= m
<1>1. PICK n \in S : \A m \in S : ~(<<m, n>> \in OpToRel(<, Nat))
  BY WFMin, NatLessThanWellFounded
<1>2. ASSUME NEW m \in S PROVE n <= m
  <2>1. <<m, n>> \in Nat \X Nat /\ <<m, n>>[1] = m /\ <<m, n>>[2] = n
    OBVIOUS
  <2>2. <<m, n>> \notin OpToRel(<, Nat)
    BY <1>1
  <2>3. ~(m < n)
    BY <2>1, <2>2 DEF OpToRel
  <2>4. m \in Nat /\ n \in Nat
    OBVIOUS
  <2> QED BY <2>3, <2>4
<1> QED BY <1>2

LEMMA StackFacts ==
  ASSUME NEW stack \in Stacks
  PROVE  /\ DOMAIN stack \subseteq Nat /\ IsFiniteSet(DOMAIN stack) /\ IsFiniteSet(Frames(stack))
         /\ Inner(stack) \in DOMAIN stack /\ \A fp \in DOMAIN stack : Inner(stack) <= fp
         /\ PGROUNDUP(Inner(stack)) \in DOMAIN stack
         /\ PGROUNDDOWN(Inner(stack)) \in Int
         /\ \A fp \in Frames(stack) :
              /\ PGROUNDDOWN(Inner(stack)) < fp /\ fp < PGROUNDUP(Inner(stack))
              /\ stack[fp].fp \in DOMAIN stack /\ fp < stack[fp].fp
              /\ \A other \in DOMAIN stack : other <= fp \/ stack[fp].fp <= other
<1> DEFINE top == PGROUNDUP(Inner(stack))
           bottom == PGROUNDDOWN(Inner(stack))
<1>1. /\ DOMAIN stack \subseteq Nat /\ IsFiniteSet(DOMAIN stack) /\ top \in DOMAIN stack
      /\ \A fp \in DOMAIN stack \ {top} :
           /\ bottom < fp /\ fp < top
           /\ stack[fp].fp \in DOMAIN stack /\ fp < stack[fp].fp
           /\ \A other \in DOMAIN stack : other <= fp \/ stack[fp].fp <= other
  BY StacksAssumption
<1>2. \E fp \in DOMAIN stack : \A other \in DOMAIN stack : fp <= other
  BY <1>1, LeastNumber
<1>3. Inner(stack) \in DOMAIN stack /\ \A fp \in DOMAIN stack : Inner(stack) <= fp
  BY <1>2 DEF Inner
<1>4. bottom \in Int
  <2>1. Inner(stack) \in Nat /\ PGSIZE \in Nat \ {0}
    BY <1>1, <1>3, SizesAssumption
  <2>2. (Inner(stack) \div PGSIZE) \in Int
    BY <2>1
  <2> QED BY <2>1, <2>2 DEF PGROUNDDOWN
<1>5. Frames(stack) = DOMAIN stack \ {top} /\ Frames(stack) \in SUBSET DOMAIN stack
  BY DEF Frames
<1>6. IsFiniteSet(Frames(stack))
  BY <1>1, <1>5, FS_Subset
<1> HIDE DEF top, bottom
<1>7. \A fp \in Frames(stack) :
           /\ bottom < fp /\ fp < top
           /\ stack[fp].fp \in DOMAIN stack /\ fp < stack[fp].fp
           /\ \A other \in DOMAIN stack : other <= fp \/ stack[fp].fp <= other
  BY <1>1, <1>5
<1> QED BY <1>1, <1>3, <1>4, <1>6, <1>7 DEF top, bottom

LEMMA OnStackFacts ==
  ASSUME NEW r, r.stack \in Stacks, r.fp \in DOMAIN r.stack
  PROVE  OnStack(r) <=> r.fp \in Frames(r.stack)
<1> DEFINE top == PGROUNDUP(Inner(r.stack))
           bottom == PGROUNDDOWN(Inner(r.stack))
<1>1. /\ r.fp \in Nat /\ top \in Nat /\ bottom \in Int
      /\ r.fp \in Frames(r.stack) => bottom < r.fp /\ r.fp < top
  BY StackFacts
<1>2. r.fp \in Frames(r.stack) <=> r.fp # top
  BY DEF Frames
<1>3. OnStack(r) <=> r.fp >= bottom /\ r.fp < top
  BY DEF OnStack
<1> HIDE DEF top, bottom
<1> QED BY <1>1, <1>2, <1>3

(* One frame more has been found.                                          *)
LEMMA FrameFacts ==
  ASSUME NEW stack \in Stacks, NEW fp \in Frames(stack)
  PROVE  /\ Below(stack, stack[fp].fp) = UpTo(stack, fp)
         /\ Cardinality(UpTo(stack, fp)) = Cardinality(Below(stack, fp)) + 1
         /\ Cardinality(Below(stack, fp)) \in Nat
         /\ \A k \in Below(stack, fp) :
              Cardinality(UpTo(stack, k)) \in 1..Cardinality(Below(stack, fp))
         /\ \A k \in UpTo(stack, fp) : k \in Below(stack, fp) \/ k = fp
<1>1. /\ Frames(stack) \subseteq Nat /\ IsFiniteSet(Frames(stack)) /\ fp \in Nat
      /\ stack[fp].fp \in Nat /\ fp < stack[fp].fp
      /\ \A other \in Frames(stack) : other <= fp \/ stack[fp].fp <= other
  BY StackFacts DEF Frames
<1>2. Below(stack, stack[fp].fp) = UpTo(stack, fp)
  BY <1>1 DEF Below, UpTo
<1>3. UpTo(stack, fp) = Below(stack, fp) \cup {fp} /\ fp \notin Below(stack, fp)
  BY <1>1 DEF Below, UpTo
<1>4. IsFiniteSet(Below(stack, fp)) /\ Cardinality(Below(stack, fp)) \in Nat
  <2>1. Below(stack, fp) \in SUBSET Frames(stack)
    BY DEF Below
  <2> QED BY <1>1, <2>1, FS_Subset, FS_CardinalityType
<1>5. Cardinality(UpTo(stack, fp)) = Cardinality(Below(stack, fp)) + 1
  BY <1>3, <1>4, FS_AddElement
<1>6. ASSUME NEW k \in Below(stack, fp)
      PROVE  Cardinality(UpTo(stack, k)) \in 1..Cardinality(Below(stack, fp))
  <2>1. k \in UpTo(stack, k)
    BY <1>1, <1>6 DEF Below, UpTo
  <2>2. UpTo(stack, k) \in SUBSET Below(stack, fp)
    BY <1>1, <1>6 DEF Below, UpTo
  <2>3. IsFiniteSet(UpTo(stack, k)) /\ Cardinality(UpTo(stack, k)) <= Cardinality(Below(stack, fp))
    BY <1>4, <2>2, FS_Subset
  <2>4. Cardinality(UpTo(stack, k)) \in Nat /\ Cardinality(UpTo(stack, k)) # 0
    BY <2>1, <2>3, FS_CardinalityType, FS_EmptySet
  <2> QED BY <1>4, <2>3, <2>4
<1> QED BY <1>2, <1>3, <1>4, <1>5, <1>6

LEMMA BacktraceStep ==
  ASSUME IInv, NEW t \in Threads, Backtrace(t)
  PROVE  IInv'
<1>1. PICK stack \in Stacks :
        th' = [th EXCEPT ![t] = [Calling(@, <<"b", "\n">>, <<>>) EXCEPT
                                   !.in = "backtrace", !.fp = Inner(stack), !.stack = stack]]
  BY DEF Backtrace
<1>2. PICK c : c = Calling(th[t], <<"b", "\n">>, <<>>)
  OBVIOUS
<1>3. PICK r : r = [c EXCEPT !.in = "backtrace", !.fp = Inner(stack), !.stack = stack]
  OBVIOUS
<1>4. th[t] = Idle /\ ThreadOK(t) /\ At(t, "idle")
  BY DEF Backtrace, IInv, ThreadOK, PlaceOK
<1>5. /\ DOMAIN c = Fields /\ c.pc = "enter" /\ c.locked = 0 /\ c.found = <<>>
      /\ c.call.fmt = <<"b", "\n">> /\ c.call.args = <<>>
  <2>1. Idle.found = <<>>
    BY DEF Idle
  <2> QED BY <1>2, <1>4, <2>1, IdleFacts, CallingFacts
<1>6. /\ DOMAIN r = Fields /\ r.pc = "enter" /\ r.locked = 0 /\ r.in = "backtrace"
      /\ r.fp = Inner(stack) /\ r.stack = stack /\ r.found = <<>>
      /\ r.call.fmt = <<"b", "\n">> /\ r.call.args = <<>>
  BY <1>3, <1>5 DEF Fields
<1>7. Moves(t, r)
  <2>1. th = [u \in Threads |-> th[u]]
    BY DEF IInv
  <2> QED BY <1>1, <1>2, <1>3, <2>1 DEF Moves
<1>8. th'[t] = r
  BY <1>7, OneThread
<1>9. UNCHANGED <<lock, locking, panicked, line, shown>>
  BY DEF Backtrace
<1>10. PlaceOK(t)'
  BY <1>6, <1>8 DEF PlaceOK, At, Pcs
<1>11. CallOK(t)'
  <2>1. Prints(r.call.fmt, r.call.args) /\ r.call.fmt # Null
    BY <1>6, CallsAssumption, StacksAssumption
  <2> QED BY <1>6, <1>8, <2>1 DEF CallOK, At
<1>12. LockOK(t)'
  BY <1>4, <1>6, <1>8, <1>9, IdleFacts DEF ThreadOK, LockOK, At, Inside
<1>13. FoundOK(t)'
  <2>1. Inner(stack) \in DOMAIN stack
    BY StackFacts
  <2>2. Below(stack, Inner(stack)) = {}
    <3>1. ASSUME NEW fp \in Frames(stack) PROVE ~(fp < Inner(stack))
      <4>1. fp \in Nat /\ Inner(stack) \in Nat /\ Inner(stack) <= fp
        BY StackFacts DEF Frames
      <4> QED BY <4>1
    <3> QED BY <3>1 DEF Below
  <2>3. <<>> \in Seq(AllRa(stack)) /\ Len(<<>>) = Cardinality({})
    BY FS_EmptySet
  <2> QED BY <1>6, <1>8, <2>1, <2>2, <2>3 DEF FoundOK
<1>14. LineOK'
  BY <1>6, <1>7, <1>9, LineKeeps DEF Inside
<1> QED BY <1>7, <1>9, <1>10, <1>11, <1>12, <1>13, <1>14, ThreadStep DEF ThreadOK, IInv

LEMMA BacktraceFrameStep ==
  ASSUME IInv, NEW t \in Threads, BacktraceFrame(t)
  PROVE  IInv'
<1>1. PICK stack : stack = th[t].stack
  OBVIOUS
<1>2. PICK fp : fp = th[t].fp
  OBVIOUS
<1>3. PICK found : found = th[t].found
  OBVIOUS
<1>4. ThreadOK(t) /\ DOMAIN th[t] = Fields /\ th[t].pc = "walk" /\ th[t].in = "backtrace"
  BY DEF IInv, ThreadOK, PlaceOK, BacktraceFrame, At
<1>5. /\ stack \in Stacks /\ fp \in DOMAIN stack
      /\ found \in Seq(AllRa(stack)) /\ Len(found) = Cardinality(Below(stack, fp))
      /\ \A k \in Below(stack, fp) : found[Cardinality(UpTo(stack, k))] = stack[k].ra
  BY <1>1, <1>2, <1>3, <1>4 DEF ThreadOK, FoundOK
<1>6. fp \in Frames(stack)
  BY <1>1, <1>2, <1>5, OnStackFacts DEF BacktraceFrame
<1>7. PICK c : c = Calling(th[t], <<"%", "p", "\n">>, <<stack[fp].ra>>)
  OBVIOUS
<1>8. PICK r : r = [c EXCEPT !.fp = stack[fp].fp, !.found = Append(@, stack[fp].ra)]
  OBVIOUS
<1>9. /\ DOMAIN c = Fields /\ c.pc = "enter" /\ c.locked = th[t].locked /\ c.found = found
      /\ c.in = "backtrace" /\ c.stack = stack
      /\ c.call.fmt = <<"%", "p", "\n">> /\ c.call.args = <<stack[fp].ra>>
  BY SMTT(30), <1>1, <1>3, <1>4, <1>7, CallingFacts
<1>10. /\ DOMAIN r = Fields /\ r.pc = "enter" /\ r.locked = th[t].locked /\ r.in = "backtrace"
       /\ r.fp = stack[fp].fp /\ r.stack = stack /\ r.found = Append(found, stack[fp].ra)
       /\ r.call.fmt = <<"%", "p", "\n">> /\ r.call.args = <<stack[fp].ra>>
  BY <1>8, <1>9 DEF Fields
<1>11. Moves(t, r)
  <2>1. th = [u \in Threads |-> th[u]]
    BY DEF IInv
  <2>2. th' = [th EXCEPT ![t] = [c EXCEPT !.fp = stack[fp].fp,
                                          !.found = Append(found, stack[fp].ra)]]
    BY <1>1, <1>2, <1>3, <1>7, Zenon DEF BacktraceFrame
  <2> QED BY <1>8, <1>9, <2>1, <2>2 DEF Moves
<1>12. th'[t] = r
  BY <1>11, OneThread
<1>13. UNCHANGED <<lock, locking, panicked, line, shown>>
  BY DEF BacktraceFrame
<1>14. PlaceOK(t)'
  BY <1>4, <1>10, <1>12 DEF ThreadOK, PlaceOK, At, Pcs
<1>15. CallOK(t)'
  <2>1. Prints(r.call.fmt, r.call.args) /\ r.call.fmt # Null
    BY <1>5, <1>10, CallsAssumption, StacksAssumption
  <2> QED BY <1>10, <1>12, <2>1 DEF CallOK, At
<1>16. LockOK(t)'
  BY <1>4, <1>10, <1>12, <1>13 DEF ThreadOK, LockOK, At, Inside
<1>17. FoundOK(t)'
  <2>1. /\ r.fp \in DOMAIN stack /\ stack[fp].ra \in AllRa(stack)
    BY <1>5, <1>6, <1>10, StackFacts DEF AllRa
  <2>2. /\ Below(stack, r.fp) = UpTo(stack, fp)
        /\ Cardinality(UpTo(stack, fp)) = Cardinality(Below(stack, fp)) + 1
        /\ \A k \in Below(stack, fp) :
             Cardinality(UpTo(stack, k)) \in 1..Cardinality(Below(stack, fp))
        /\ \A k \in UpTo(stack, fp) : k \in Below(stack, fp) \/ k = fp
    BY <1>5, <1>6, <1>10, FrameFacts
  <2>3. /\ r.found \in Seq(AllRa(stack)) /\ Len(r.found) = Len(found) + 1
        /\ \A i \in 1..Len(found) : r.found[i] = found[i]
        /\ r.found[Len(found) + 1] = stack[fp].ra
    BY <1>5, <1>10, <2>1
  <2>4. ASSUME NEW k \in Below(stack, r.fp)
        PROVE  r.found[Cardinality(UpTo(stack, k))] = stack[k].ra
    <3>1. CASE k = fp
      BY <1>5, <2>2, <2>3, <3>1
    <3>2. CASE k \in Below(stack, fp)
      BY <1>5, <2>2, <2>3, <3>2
    <3> QED BY <2>2, <2>4, <3>1, <3>2
  <2> QED BY <1>5, <1>10, <1>12, <2>1, <2>2, <2>3, <2>4 DEF FoundOK
<1>18. LineOK'
  BY <1>10, <1>11, <1>13, LineKeeps DEF Inside
<1> QED BY <1>11, <1>13, <1>14, <1>15, <1>16, <1>17, <1>18, ThreadStep DEF ThreadOK, IInv

LEMMA BacktraceDoneStep ==
  ASSUME IInv, NEW t \in Threads, BacktraceDone(t)
  PROVE  IInv'
<1>1. ThreadOK(t) /\ th[t].pc = "walk" /\ th[t].in = "backtrace"
  BY DEF IInv, ThreadOK, PlaceOK, BacktraceDone, At
<1>2. Moves(t, Idle)
  BY DEF BacktraceDone, Moves
<1>3. th'[t] = Idle
  BY <1>2, OneThread
<1>4. UNCHANGED <<lock, locking, panicked, line, shown>>
  BY DEF BacktraceDone
<1>5. PlaceOK(t)' /\ CallOK(t)'
  BY <1>3, IdleFacts DEF PlaceOK, CallOK, At, Pcs, Printing
<1>6. LockOK(t)'
  BY <1>1, <1>3, <1>4, IdleFacts DEF ThreadOK, LockOK, At, Inside
<1>7. FoundOK(t)'
  BY <1>3, IdleFacts, StacksAssumption DEF FoundOK
<1>8. LineOK'
  BY <1>2, <1>4, IdleFacts, LineKeeps DEF Inside
<1> QED BY <1>2, <1>4, <1>5, <1>6, <1>7, <1>8, ThreadStep DEF ThreadOK, IInv

(* The frames of the kernel are the ones below the top of the stack.       *)
LEMMA Multiples ==
  ASSUME NEW P \in Nat \ {0}, NEW k \in Nat, NEW q \in Nat
  PROVE  /\ (k * P) % P = 0
         /\ ~(q * P < k * P /\ k * P < (q + 1) * P)
<1>1. (k * P) % P = 0
  OBVIOUS
<1>2. ASSUME q * P < k * P, k * P < (q + 1) * P PROVE FALSE
  <2>1. CASE k <= q
    <3>1. k * P <= q * P
      BY <2>1
    <3> QED BY <1>2, <3>1
  <2>2. CASE k >= q + 1
    <3>1. k * P >= (q + 1) * P
      BY <2>2
    <3> QED BY <1>2, <3>1
  <2> QED BY <2>1, <2>2
<1> QED BY <1>1, <1>2

LEMMA Quotient ==
  ASSUME NEW P \in Nat \ {0}, NEW a \in Nat
  PROVE  /\ a \div P \in Nat /\ a % P \in 0..(P - 1)
         /\ a = (a \div P) * P + (a % P)
<1>1. a \div P \in Nat
  OBVIOUS
<1>2. a % P \in 0..(P - 1)
  OBVIOUS
<1>3. a = (a \div P) * P + (a % P)
  OBVIOUS
<1> QED BY <1>1, <1>2, <1>3

LEMMA KernelFrames ==
  ASSUME NEW stack \in Stacks
  PROVE  {fp \in DOMAIN stack : fp % PGSIZE # 0} = Frames(stack)
<1> DEFINE a == Inner(stack)
           P == PGSIZE
           q == a \div P
           u == (a + P - 1) \div P
<1>1. P \in Nat \ {0} /\ a \in Nat /\ DOMAIN stack \subseteq Nat /\ a + P - 1 \in Nat
  BY SizesAssumption, StackFacts
<1>2. /\ q \in Nat /\ a % P \in 0..(P - 1) /\ a = q * P + (a % P)
      /\ u \in Nat /\ (a + P - 1) % P \in 0..(P - 1) /\ a + P - 1 = u * P + ((a + P - 1) % P)
  BY <1>1, Quotient
<1>3. PGROUNDUP(a) = u * P /\ PGROUNDDOWN(a) = q * P
  BY DEF PGROUNDUP, PGROUNDDOWN
<1> HIDE DEF a, P, q, u
<1>4. u <= q + 1
  <2>1. CASE u >= q + 2
    <3>1. u * P >= (q + 2) * P /\ (q + 2) * P = q * P + 2 * P
      BY <1>1, <1>2, <2>1
    <3>2. q * P \in Nat /\ u * P \in Nat
      BY <1>1, <1>2
    <3>3. u * P <= a + P - 1 /\ a < q * P + P
      BY <1>1, <1>2, <3>2
    <3> QED BY <1>1, <3>1, <3>2, <3>3
  <2> QED BY <1>2, <2>1
<1>5. ASSUME NEW fp \in DOMAIN stack PROVE fp % P # 0 <=> fp \in Frames(stack)
  <2>1. CASE fp \in Frames(stack)
    <3>1. fp \in Nat /\ q * P < fp /\ fp < u * P
      BY <1>1, <1>3, <2>1, StackFacts DEF a
    <3>2. u * P <= (q + 1) * P
      BY <1>1, <1>2, <1>4
    <3>3. fp < (q + 1) * P
      <4>1. q * P \in Nat /\ u * P \in Nat /\ (q + 1) * P \in Nat
        BY <1>1, <1>2
      <4> QED BY <3>1, <3>2, <4>1
    <3>4. ASSUME fp % P = 0 PROVE FALSE
      <4>1. fp \div P \in Nat /\ fp = (fp \div P) * P + (fp % P)
        BY <1>1, <3>1, Quotient
      <4>2. fp = (fp \div P) * P
        <5>1. (fp \div P) * P \in Nat
          BY <1>1, <4>1
        <5> QED BY <3>4, <4>1, <5>1
      <4>3. PICK k \in Nat : fp = k * P
        BY <4>1, <4>2
      <4> QED BY <1>1, <1>2, <3>1, <3>3, <4>3, Multiples
    <3> QED BY <2>1, <3>4
  <2>2. CASE fp \notin Frames(stack)
    <3>1. fp = u * P
      BY <1>3, <2>2 DEF Frames, a
    <3> QED BY <1>1, <1>2, <2>2, <3>1, Multiples
  <2> QED BY <2>1, <2>2
<1>6. Frames(stack) \subseteq DOMAIN stack
  BY DEF Frames
<1> QED BY <1>5, <1>6 DEF P

-----------------------------------------------------------------------------
LEMMA IInvInit == Init => IInv
<1> SUFFICES ASSUME Init PROVE IInv
  OBVIOUS
<1>1. th = [t \in Threads |-> th[t]] /\ \A t \in Threads : th[t] = Idle /\ t # Nobody
  BY SizesAssumption DEF Init
<1>2. lock = Nobody /\ locking = 1 /\ panicked = 0 /\ line = <<>>
  BY DEF Init
<1>3. ASSUME NEW t \in Threads PROVE ThreadOK(t)
  <2>1. PlaceOK(t) /\ CallOK(t)
    BY <1>1, IdleFacts DEF PlaceOK, CallOK, At, Pcs, Printing
  <2>2. LockOK(t)
    BY <1>1, <1>2, IdleFacts DEF LockOK, At, Inside
  <2>3. FoundOK(t)
    BY <1>1, IdleFacts, StacksAssumption DEF FoundOK
  <2> QED BY <2>1, <2>2, <2>3 DEF ThreadOK
<1>4. LineOK
  BY <1>1, <1>2, IdleFacts DEF LineOK, LinesWhole, At
<1> QED BY <1>1, <1>2, <1>3, <1>4 DEF IInv

LEMMA IInvNext == IInv /\ [Next]_vars => IInv'
<1> SUFFICES ASSUME IInv, [Next]_vars PROVE IInv'
  OBVIOUS
<1>1. CASE UNCHANGED vars
  <2>1. ASSUME NEW t \in Threads PROVE ThreadOK(t)'
    BY <1>1 DEF vars, IInv, ThreadOK, PlaceOK, CallOK, LockOK, FoundOK, At
  <2>2. LineOK'
    BY <1>1 DEF vars, IInv, LineOK, LinesWhole, At
  <2> QED BY <1>1, <2>1, <2>2 DEF vars, IInv
<1>2. ASSUME NEW t \in Threads, Go(t) PROVE IInv'
  BY <1>2, ReadLockingStep, AcquireStep, BeginStep, PanicSteps, ConsputcStep, ReturnStep,
     FreezeStep, BacktraceFrameStep, BacktraceDoneStep DEF Go
<1> QED BY <1>1, <1>2, PrintfStep, PanicSteps, BacktraceStep DEF Next

-----------------------------------------------------------------------------
(* The inductive invariant holds in every reachable state.                 *)
THEOREM Invariance == Spec => []IInv
BY IInvInit, IInvNext, PTL DEF Spec

(* Every printf that has taken pr.lock gives it back, and no other does,   *)
(* though a panic on another hart clears pr.locking in between.            *)
THEOREM LockIsGivenBack == Spec => []LockInv
<1>1. IInv => LockInv
  <2> SUFFICES ASSUME IInv PROVE LockInv
    OBVIOUS
  <2>1. TypeOK
    BY DEF IInv, ThreadOK, PlaceOK, CallOK, LockOK, FoundOK, TypeOK
  <2>2. LockGivenBack
    <3>1. ASSUME NEW t \in Threads, th[t].pc \in {"idle", "walk"} PROVE lock # t
      <4>1. th[t].in # "panic" /\ th[t].pc \notin Inside
        BY <3>1, IdleFacts DEF IInv, ThreadOK, PlaceOK, At, Inside
      <4>2. LockOK(t)
        BY DEF IInv, ThreadOK
      <4> QED BY <4>1, <4>2 DEF LockOK
    <3>2. ASSUME NEW t \in Threads, th[t].pc \in {"begin", "body"}, th[t].locked = 1
          PROVE  lock = t
      <4>1. LockOK(t) /\ th[t].pc \in Inside
        BY <3>2 DEF IInv, ThreadOK, Inside
      <4> QED BY <3>2, <4>1 DEF LockOK
    <3> QED BY <3>1, <3>2 DEF LockGivenBack
  <2> QED BY <2>1, <2>2 DEF LockInv
<1> QED BY <1>1, Invariance, PTL

(* The lines of concurrent printfs are not mixed until somebody panics.    *)
THEOREM LinesAreWhole == Spec => []LinesWhole
<1>1. IInv => LinesWhole
  BY DEF IInv, LineOK
<1> QED BY <1>1, Invariance, PTL

(* backtrace() prints the return address of every frame of the kernel, in  *)
(* order, and none besides.                                                *)
THEOREM BacktraceIsExact == Spec => []BacktraceExact
<1>1. IInv => BacktraceExact
  <2> SUFFICES ASSUME IInv, NEW t \in Threads, At(t, "walk"), ~OnStack(th[t])
               PROVE  LET stack == th[t].stack
                          kernel == {fp \in DOMAIN stack : fp % PGSIZE # 0}
                      IN /\ Len(th[t].found) = Cardinality(kernel)
                         /\ \A fp \in kernel :
                              th[t].found[Cardinality({other \in kernel : other <= fp})]
                                = stack[fp].ra
    BY DEF BacktraceExact
  <2>1. PICK stack : stack = th[t].stack
    OBVIOUS
  <2>2. /\ stack \in Stacks /\ th[t].fp \in DOMAIN stack
        /\ Len(th[t].found) = Cardinality(Below(stack, th[t].fp))
        /\ \A fp \in Below(stack, th[t].fp) :
             th[t].found[Cardinality(UpTo(stack, fp))] = stack[fp].ra
    BY <2>1 DEF IInv, ThreadOK, PlaceOK, FoundOK
  <2>3. th[t].fp = PGROUNDUP(Inner(stack))
    <3>1. th[t].fp \notin Frames(stack)
      BY <2>1, <2>2, OnStackFacts
    <3> QED BY <2>2, <3>1 DEF Frames
  <2>4. Below(stack, th[t].fp) = Frames(stack)
    BY <2>2, <2>3, StackFacts DEF Below
  <2>5. {fp \in DOMAIN stack : fp % PGSIZE # 0} = Frames(stack)
    BY <2>2, KernelFrames
  <2> QED BY <2>1, <2>2, <2>4, <2>5 DEF UpTo
<1> QED BY <1>1, Invariance, PTL

-----------------------------------------------------------------------------
(* printint() and printptr(): the digits are those of the number.          *)

(* Induction, over the set of the numbers that have a property.            *)
LEMMA SetInduction ==
  ASSUME NEW S, 0 \in S, \A n \in Nat : n \in S => n + 1 \in S
  PROVE  \A n \in Nat : n \in S
<1> SUFFICES ASSUME Nat \ S # {} PROVE FALSE
  OBVIOUS
<1>1. PICK n \in Nat \ S : \A k \in Nat \ S : n <= k
  BY LeastNumber
<1>2. n # 0 /\ n - 1 \in Nat
  BY <1>1
<1>3. n - 1 \in S
  BY <1>1, <1>2
<1>4. (n - 1) + 1 = n
  BY <1>1
<1> QED BY <1>1, <1>2, <1>3, <1>4

(* ... that every number has if all the smaller ones have it.              *)
LEMMA StrongInduction ==
  ASSUME NEW S, \A n \in Nat : (\A k \in 0..(n - 1) : k \in S) => n \in S
  PROVE  \A n \in Nat : n \in S
<1> SUFFICES ASSUME Nat \ S # {} PROVE FALSE
  OBVIOUS
<1>1. PICK n \in Nat \ S : \A k \in Nat \ S : n <= k
  BY LeastNumber
<1>2. \A k \in 0..(n - 1) : k \in S
  BY <1>1
<1> QED BY <1>1, <1>2

Bases == {10, 16}

LEMMA Divided ==
  ASSUME NEW x \in Nat, NEW b \in Bases
  PROVE  /\ x \div b \in Nat /\ x % b \in 0..(b - 1) /\ x = b * (x \div b) + (x % b)
         /\ x # 0 => x \div b < x
         /\ x >= b => x \div b # 0
<1>1. CASE b = 10
  BY <1>1
<1>2. CASE b = 16
  BY <1>2
<1> QED BY <1>1, <1>2 DEF Bases

(* Powers of two, as the numbers of subsets.                               *)
LEMMA PowerIs ==
  ASSUME NEW n \in Nat
  PROVE  2^n \in Nat /\ 2^n = Cardinality(SUBSET (1..n)) /\ IsFiniteSet(SUBSET (1..n))
<1>1. 1 \in Int /\ n \in Int
  OBVIOUS
<1>2. IsFiniteSet(1..n) /\ Cardinality(1..n) = IF 1 > n THEN 0 ELSE n - 1 + 1
  BY <1>1, FS_Interval
<1>3. Cardinality(1..n) = n
  BY <1>2
<1>4. IsFiniteSet(SUBSET (1..n)) /\ Cardinality(SUBSET (1..n)) = 2^Cardinality(1..n)
  BY <1>2, FS_SUBSET
<1>5. Cardinality(SUBSET (1..n)) \in Nat
  BY <1>4, FS_CardinalityType
<1> QED BY <1>3, <1>4, <1>5

LEMMA Doubled ==
  ASSUME NEW n \in Nat
  PROVE  2^(n + 1) = 2 * 2^n
<1> DEFINE S == 1..n
           A == SUBSET S
           B == {X \cup {n + 1} : X \in A}
<1>1. 2^n = Cardinality(A) /\ IsFiniteSet(A) /\ 2^n \in Nat
  BY PowerIs
<1>2. 2^(n + 1) = Cardinality(SUBSET (1..(n + 1)))
  <2>1. n + 1 \in Nat
    OBVIOUS
  <2> QED BY <2>1, PowerIs
<1>3. n + 1 \notin S /\ 1..(n + 1) = S \cup {n + 1}
  OBVIOUS
<1> HIDE DEF S
<1>4. SUBSET (S \cup {n + 1}) = A \cup B
  <2>1. ASSUME NEW Y \in SUBSET (S \cup {n + 1}) PROVE Y \in A \cup B
    <3>1. CASE n + 1 \in Y
      <4>1. Y \ {n + 1} \in A /\ Y = (Y \ {n + 1}) \cup {n + 1}
        BY <3>1
      <4> QED BY <4>1
    <3>2. CASE n + 1 \notin Y
      BY <3>2
    <3> QED BY <3>1, <3>2
  <2>2. ASSUME NEW Y \in A \cup B PROVE Y \in SUBSET (S \cup {n + 1})
    OBVIOUS
  <2> QED BY <2>1, <2>2
<1>5. A \cap B = {}
  BY <1>3
<1>6. IsFiniteSet(B) /\ Cardinality(B) = Cardinality(A)
  <2> DEFINE f == [X \in A |-> X \cup {n + 1}]
  <2>1. f \in Surjection(A, B)
    BY DEF Surjection
  <2>2. f \in Injection(A, B)
    <3>1. ASSUME NEW X \in A, NEW Y \in A, f[X] = f[Y] PROVE X = Y
      <4>1. X \cup {n + 1} = Y \cup {n + 1} /\ n + 1 \notin X /\ n + 1 \notin Y
        BY <1>3, <3>1
      <4> QED BY <4>1
    <3>2. f \in [A -> B]
      OBVIOUS
    <3> HIDE DEF f, A, B
    <3> QED BY <3>1, <3>2 DEF Injection, IsInjective
  <2> HIDE DEF f, A, B
  <2> QED BY <1>1, <2>1, <2>2, FS_Surjection
<1>7. Cardinality(A \cup B) = Cardinality(A) + Cardinality(B) - Cardinality(A \cap B)
  <2> HIDE DEF A, B
  <2> QED BY <1>1, <1>6, FS_Union
<1>8. Cardinality(A \cap B) = 0
  <2> HIDE DEF A, B
  <2> QED BY <1>5, FS_EmptySet
<1>9. PICK c \in Nat : c = 2^n
  BY <1>1
<1>10. Cardinality(A) = c /\ Cardinality(B) = c
  BY <1>1, <1>6, <1>9
<1>11. Cardinality(A \cup B) = 2 * c
  <2> HIDE DEF A, B
  <2> QED BY <1>7, <1>8, <1>10
<1>12. 2^(n + 1) = 2 * c
  BY <1>2, <1>3, <1>4, <1>11
<1> QED BY <1>9, <1>12

Chars == {digits[d] : d \in 1..16} \cup {"-", "0", "x", "\n"}

(* Each digit has its own character.                                       *)
LEMMA DigitIs ==
  ASSUME NEW d \in 0..15, NEW text, NEW i, text[i] = digits[d + 1]
  PROVE  DigitAt(text, i) = d
<1>1. \A a, b \in 1..16 : digits[a] = digits[b] => a = b
  BY DEF digits
<1>2. d + 1 \in 1..16 /\ d \in Int
  OBVIOUS
<1> DEFINE c == CHOOSE e \in 1..16 : digits[e] = text[i]
<1>3. c \in 1..16 /\ digits[c] = digits[d + 1]
  BY <1>2
<1> HIDE DEF c
<1>4. c = d + 1
  BY <1>1, <1>2, <1>3
<1>5. DigitAt(text, i) = c - 1
  BY DEF DigitAt, c
<1> QED BY <1>2, <1>4, <1>5

LEMMA DigitsAre ==
  ASSUME NEW d \in 0..15
  PROVE  /\ digits[d + 1] \in Chars /\ digits[d + 1] # "-"
         /\ digits[d + 1] = "0" => d = 0
<1>1. ASSUME NEW e \in 1..16
      PROVE  digits[e] \in Chars /\ digits[e] # "-" /\ (digits[e] = "0" => e = 1)
  <2>1. digits[e] \in Chars
    BY DEF Chars
  <2>2. digits[e] # "-"
    BY DEF digits
  <2>3. digits[e] = "0" => e = 1
    BY DEF digits
  <2> QED BY <2>1, <2>2, <2>3
<1>2. d + 1 \in 1..16 /\ d \in Int
  OBVIOUS
<1> QED BY <1>1, <1>2

(* The numbers that are read on the way through the digits of text.        *)
Values(text, base, v) ==
  v = [i \in 0..Len(text) |-> IF i = 0 THEN 0 ELSE base * v[i - 1] + DigitAt(text, i)]

Reads(text, base, n) == \E v : Values(text, base, v) /\ v[Len(text)] = n

LEMMA ReadIs ==
  ASSUME NEW text, Len(text) \in Nat, NEW base, NEW n, Reads(text, base, n)
  PROVE  ReadBack(text, base) = n
<1>1. PICK v : Values(text, base, v) /\ v[Len(text)] = n
  BY DEF Reads
<1> DEFINE u == CHOOSE w : Values(text, base, w)
<1>2. Values(text, base, u)
  BY <1>1
<1>3. ReadBack(text, base) = u[Len(text)]
  BY DEF ReadBack, Values
<1> HIDE DEF u
<1> DEFINE Turn(a, i) == base * a + DigitAt(text, i)
           S == {i \in Nat : i <= Len(text) => u[i] = v[i]}
<1>4. u = [i \in 0..Len(text) |-> IF i = 0 THEN 0 ELSE Turn(u[i - 1], i)]
  BY <1>2 DEF Values
<1>5. v = [i \in 0..Len(text) |-> IF i = 0 THEN 0 ELSE Turn(v[i - 1], i)]
  BY <1>1 DEF Values
<1> HIDE DEF Turn
<1>6. 0 \in S
  BY <1>4, <1>5
<1>7. ASSUME NEW i \in Nat, i \in S PROVE i + 1 \in S
  <2> SUFFICES ASSUME i + 1 <= Len(text) PROVE u[i + 1] = v[i + 1]
    OBVIOUS
  <2>1. u[i] = v[i] /\ i + 1 \in 0..Len(text) /\ i + 1 # 0 /\ (i + 1) - 1 = i
    BY <1>7
  <2>2. u[i + 1] = Turn(u[i], i + 1) /\ v[i + 1] = Turn(v[i], i + 1)
    BY <1>4, <1>5, <2>1
  <2> QED BY <2>1, <2>2
<1> HIDE DEF S
<1>8. Len(text) \in S
  BY <1>6, <1>7, SetInduction
<1> QED BY <1>1, <1>3, <1>8 DEF S

(* One more digit.                                                         *)
LEMMA ReadsAppend ==
  ASSUME NEW text \in Seq(Chars), NEW base, NEW n, Reads(text, base, n), NEW d \in 0..15
  PROVE  Reads(Append(text, digits[d + 1]), base, base * n + d)
<1> DEFINE long == Append(text, digits[d + 1])
           N == Len(text)
<1>1. PICK v : Values(text, base, v) /\ v[N] = n
  BY DEF Reads
<1>2. N \in Nat /\ Len(long) = N + 1 /\ long[N + 1] = digits[d + 1]
      /\ \A i \in 1..N : long[i] = text[i]
  <2>1. digits[d + 1] \in Chars
    BY DigitsAre
  <2> HIDE DEF Reads
  <2> QED BY <2>1
<1> HIDE DEF long, N
<1>3. DigitAt(long, N + 1) = d
  BY <1>2, DigitIs
<1>4. ASSUME NEW i \in 1..N PROVE DigitAt(long, i) = DigitAt(text, i)
  BY <1>2, <1>4 DEF DigitAt
<1> DEFINE Turn(a, i) == base * a + DigitAt(text, i)
           Turn2(a, i) == base * a + DigitAt(long, i)
           last == base * n + d
           w == [i \in 0..(N + 1) |-> IF i = N + 1 THEN last ELSE v[i]]
<1>5. v = [i \in 0..N |-> IF i = 0 THEN 0 ELSE Turn(v[i - 1], i)]
  BY <1>1 DEF Values, N
<1>6. \A i \in 1..N : \A a : Turn2(a, i) = Turn(a, i)
  BY <1>4
<1>7. Turn2(n, N + 1) = last
  BY <1>3
<1> HIDE DEF Turn, Turn2, last
<1>8. w = [i \in 0..(N + 1) |-> IF i = 0 THEN 0 ELSE Turn2(w[i - 1], i)]
  <2>1. ASSUME NEW i \in 0..(N + 1) PROVE w[i] = IF i = 0 THEN 0 ELSE Turn2(w[i - 1], i)
    <3>1. CASE i = 0
      BY <1>2, <1>5, <3>1
    <3>2. CASE i \in 1..N
      <4>1. w[i] = v[i] /\ w[i - 1] = v[i - 1] /\ i # 0
        BY <1>2, <3>2
      <4>2. v[i] = Turn(v[i - 1], i)
        BY <1>2, <1>5, <3>2
      <4> QED BY <1>6, <3>2, <4>1, <4>2
    <3>3. CASE i = N + 1
      <4>1. w[i] = last /\ w[i - 1] = v[N] /\ i # 0
        BY <1>2, <3>3
      <4> QED BY <1>1, <1>7, <3>3, <4>1
    <3> QED BY <1>2, <3>1, <3>2, <3>3
  <2> QED BY <2>1
<1>9. w[N + 1] = last
  BY <1>2
<1> HIDE DEF w
<1>10. Values(long, base, w)
  BY <1>2, <1>8 DEF Values, Turn2
<1>11. Reads(long, base, last)
  BY <1>2, <1>9, <1>10 DEF Reads
<1> QED BY <1>11 DEF long, last

(* A numeral of n: it has a digit, and no leading zero.                    *)
NumeralOf(text, base, n) ==
  /\ text \in Seq(Chars) /\ text # <<>>
  /\ Head(text) # "-" /\ (Head(text) = "0" => n = 0)
  /\ Reads(text, base, n)

LEMMA OneDigit ==
  ASSUME NEW d \in 0..15, NEW base \in Nat
  PROVE  NumeralOf(<<digits[d + 1]>>, base, d)
<1> DEFINE text == <<digits[d + 1]>>
           v == [i \in 0..1 |-> IF i = 0 THEN 0 ELSE d]
<1>1. digits[d + 1] \in Chars /\ digits[d + 1] # "-" /\ (digits[d + 1] = "0" => d = 0)
  BY DigitsAre
<1>2. Len(text) = 1 /\ text[1] = digits[d + 1] /\ text \in Seq(Chars) /\ text # <<>>
      /\ Head(text) = digits[d + 1]
  BY <1>1
<1> HIDE DEF text
<1>3. DigitAt(text, 1) = d
  BY <1>2, DigitIs
<1>4. Values(text, base, v)
  BY <1>2, <1>3 DEF Values
<1>5. v[1] = d
  OBVIOUS
<1> HIDE DEF v
<1>6. Reads(text, base, d)
  BY <1>2, <1>4, <1>5 DEF Reads
<1>7. NumeralOf(text, base, d)
  BY <1>1, <1>2, <1>6 DEF NumeralOf
<1> QED BY <1>7 DEF text

LEMMA AnotherDigit ==
  ASSUME NEW text, NEW base \in Nat, NEW n \in Nat \ {0}, NumeralOf(text, base, n), NEW d \in 0..15
  PROVE  NumeralOf(Append(text, digits[d + 1]), base, base * n + d)
<1> DEFINE long == Append(text, digits[d + 1])
<1>1. digits[d + 1] \in Chars
  BY DigitsAre
<1>2. text \in Seq(Chars) /\ text # <<>> /\ Head(text) # "-" /\ Head(text) # "0"
  BY DEF NumeralOf
<1>3. long \in Seq(Chars) /\ long # <<>> /\ Head(long) = Head(text)
  BY <1>1, <1>2
<1>4. Reads(long, base, base * n + d)
  BY <1>2, ReadsAppend DEF NumeralOf
<1> HIDE DEF long
<1>5. NumeralOf(long, base, base * n + d)
  BY <1>2, <1>3, <1>4 DEF NumeralOf
<1> QED BY <1>5 DEF long

(* printint's loop.                                                        *)
Digits(f, x, base) ==
  f = [n \in 0..x |-> IF n < base THEN <<digits[n + 1]>>
                      ELSE Append(f[n \div base], digits[(n % base) + 1])]

LEMMA InBaseRun ==
  ASSUME NEW x \in Nat, NEW base \in Bases
  PROVE  \E f : Digits(f, x, base) /\ InBase(x, base) = f[x]
<1> DEFINE First(n) == <<digits[n + 1]>>
           Turn(a, n) == Append(a, digits[(n % base) + 1])
           Run(f, N) == f = [n \in 0..N |-> IF n < base THEN First(n) ELSE Turn(f[n \div base], n)]
<1> HIDE DEF First, Turn
<1>1. \A N \in Nat : \E f : Run(f, N)
  <2> DEFINE S == {N \in Nat : \E f : Run(f, N)}
  <2>0. base \in Nat /\ base > 1
    BY DEF Bases
  <2>1. 0 \in S
    <3>1. Run([n \in 0..0 |-> First(n)], 0)
      BY <2>0
    <3> QED BY <3>1
  <2>2. ASSUME NEW N \in Nat, N \in S PROVE N + 1 \in S
    <3>1. PICK f : Run(f, N)
      BY <2>2
    <3> DEFINE g == [n \in 0..(N + 1) |->
                       IF n = N + 1 THEN IF N + 1 < base THEN First(N + 1)
                                         ELSE Turn(f[(N + 1) \div base], N + 1)
                       ELSE f[n]]
    <3>2. ASSUME NEW n \in 0..(N + 1), n >= base PROVE n \div base \in 0..N /\ n \div base < n
      <4>1. n \div base \in Nat /\ n \div base < n
        BY <2>0, <3>2, Divided
      <4> QED BY <4>1
    <3>3. ASSUME NEW n \in 0..(N + 1)
          PROVE  g[n] = IF n < base THEN First(n) ELSE Turn(g[n \div base], n)
      <4>1. CASE n < base
        BY <3>1, <4>1
      <4>2. CASE n >= base
        <5>1. PICK q \in 0..N : q = n \div base /\ q < n
          BY <3>2, <4>2
        <5>2. g[q] = f[q]
          BY <5>1
        <5>3. CASE n = N + 1
          BY <4>2, <5>1, <5>2, <5>3, <2>0
        <5>4. CASE n \in 0..N
          <6>1. g[n] = f[n] /\ ~(n < base)
            BY <5>4, <4>2, <2>0
          <6>2. f[n] = Turn(f[q], n)
            BY <3>1, <5>1, <5>4, <6>1
          <6> QED BY <5>1, <5>2, <6>1, <6>2
        <5> QED BY <5>3, <5>4
      <4> QED BY <2>0, <4>1, <4>2
    <3>4. Run(g, N + 1)
      BY <3>3
    <3> HIDE DEF g, Run
    <3> QED BY <3>4
  <2> HIDE DEF S
  <2>3. \A N \in Nat : N \in S
    BY <2>1, <2>2, SetInduction
  <2> QED BY <2>3 DEF S
<1> DEFINE F == CHOOSE f : Run(f, x)
<1>2. Run(F, x)
  BY <1>1
<1>3. InBase(x, base) = F[x]
  BY DEF InBase, First, Turn
<1> HIDE DEF F
<1>4. Digits(F, x, base)
  BY <1>2 DEF Digits, First, Turn
<1> QED BY <1>3, <1>4

(* One number of the loop from a smaller one.                              *)
FromSmaller(f, x, base, n) ==
  \E q \in 1..x, d \in 0..15 :
    q < n /\ n = base * q + d /\ f[n] = Append(f[q], digits[d + 1])

LEMMA DigitsStep ==
  ASSUME NEW x \in Nat, NEW base \in Bases, NEW f, Digits(f, x, base), NEW n \in 0..x
  PROVE  /\ n < base => f[n] = <<digits[n + 1]>> /\ n \in 0..15
         /\ n >= base => FromSmaller(f, x, base, n)
<1> DEFINE First(k) == <<digits[k + 1]>>
           Turn(a, e) == Append(a, digits[e + 1])
<1>1. f = [k \in 0..x |-> IF k < base THEN First(k) ELSE Turn(f[k \div base], k % base)]
  BY DEF Digits
<1>2. base \in Nat /\ base > 1 /\ base <= 16
  BY DEF Bases
<1> HIDE DEF First, Turn
<1>3. ASSUME n < base PROVE f[n] = First(n) /\ n \in 0..15
  BY <1>1, <1>2, <1>3
<1>4. ASSUME n >= base
      PROVE  \E q \in 1..x, d \in 0..15 :
               q < n /\ n = base * q + d /\ f[n] = Turn(f[q], d)
  <2>1. PICK q, d : q = n \div base /\ d = n % base
    OBVIOUS
  <2>2. q \in Nat /\ d \in 0..(base - 1) /\ n = base * q + d /\ q < n /\ q # 0
    <3>1. n \in Nat /\ n # 0
      BY <1>2, <1>4
    <3> QED BY <1>4, <2>1, <3>1, Divided
  <2>3. q \in 1..x /\ d \in 0..15
    BY <1>2, <2>2
  <2>4. f[n] = Turn(f[q], d)
    BY <1>1, <1>2, <1>4, <2>1
  <2> QED BY <2>1, <2>2, <2>3, <2>4
<1> QED BY <1>3, <1>4 DEF First, Turn, FromSmaller

(* printint() shows the number ...                                         *)
LEMMA InBaseReads ==
  ASSUME NEW x \in Nat, NEW base \in Bases
  PROVE  NumeralOf(InBase(x, base), base, x)
<1>1. PICK f : Digits(f, x, base) /\ InBase(x, base) = f[x]
  BY InBaseRun
<1>2. base \in Nat
  BY DEF Bases
<1> DEFINE S == {n \in Nat : n <= x => NumeralOf(f[n], base, n)}
<1>3. ASSUME NEW n \in Nat, \A k \in 0..(n - 1) : k \in S PROVE n \in S
  <2> SUFFICES ASSUME n \in 0..x PROVE NumeralOf(f[n], base, n)
    OBVIOUS
  <2>1. CASE n < base
    <3>1. f[n] = <<digits[n + 1]>> /\ n \in 0..15
      BY <1>1, <2>1, DigitsStep
    <3>2. NumeralOf(<<digits[n + 1]>>, base, n)
      BY <1>2, <3>1, OneDigit
    <3> QED BY <3>1, <3>2
  <2>2. CASE n >= base
    <3> HIDE DEF S
    <3>0. FromSmaller(f, x, base, n)
      BY <1>1, <2>2, DigitsStep
    <3>1. PICK q \in 1..x, d \in 0..15 :
            q < n /\ n = base * q + d /\ f[n] = Append(f[q], digits[d + 1])
      BY <3>0 DEF FromSmaller
    <3>2. q \in Nat \ {0} /\ q \in 0..(n - 1)
      BY <3>1
    <3>3. NumeralOf(f[q], base, q)
      BY <1>3, <3>2 DEF S
    <3>4. NumeralOf(Append(f[q], digits[d + 1]), base, base * q + d)
      BY <1>2, <3>2, <3>3, AnotherDigit
    <3> QED BY <3>1, <3>4
  <2> QED BY <1>2, <2>1, <2>2
<1> HIDE DEF S
<1>4. x \in S
  BY <1>3, StrongInduction
<1> QED BY <1>1, <1>4 DEF S

(* ... and has room for it in buf.                                         *)
Within(f, x, bound, n) ==
  \A k \in 0..x : k < bound => f[k] \in Seq(Chars) /\ Len(f[k]) <= n

LEMMA WithinStep ==
  ASSUME NEW x \in Nat, NEW base \in Bases, NEW f, Digits(f, x, base),
         NEW bound \in Nat, NEW n \in Nat, bound >= 1, n >= 1, Within(f, x, bound, n)
  PROVE  Within(f, x, 10 * bound, n + 1)
<1>1. base \in Nat /\ base >= 10
  BY DEF Bases
<1>2. ASSUME NEW k \in 0..x, k < 10 * bound
      PROVE  f[k] \in Seq(Chars) /\ Len(f[k]) <= n + 1
  <2>1. CASE k < base
    <3>1. f[k] = <<digits[k + 1]>> /\ k \in 0..15
      BY <2>1, DigitsStep
    <3>2. digits[k + 1] \in Chars
      BY <3>1, DigitsAre
    <3> HIDE DEF Within
    <3> QED BY <3>1, <3>2
  <2>2. CASE k >= base
    <3>0. FromSmaller(f, x, base, k)
      BY <2>2, DigitsStep
    <3>1. PICK q \in 1..x, d \in 0..15 :
            q < k /\ k = base * q + d /\ f[k] = Append(f[q], digits[d + 1])
      BY <3>0 DEF FromSmaller
    <3>2. q < bound
      BY <1>2, <3>1 DEF Bases
    <3>3. f[q] \in Seq(Chars) /\ Len(f[q]) <= n
      <4>1. q \in 0..x
        BY <3>1
      <4> QED BY <3>2, <4>1 DEF Within
    <3>4. digits[d + 1] \in Chars
      BY DigitsAre
    <3> HIDE DEF Within
    <3> QED BY <3>1, <3>3, <3>4
  <2> QED BY <1>1, <2>1, <2>2
<1> QED BY <1>2 DEF Within

LEMMA InBaseFits ==
  ASSUME NEW x \in Nat, NEW base \in Bases, x < 10000000000
  PROVE  InBase(x, base) \in Seq(Chars) /\ Len(InBase(x, base)) <= 11
<1>1. PICK f : Digits(f, x, base) /\ InBase(x, base) = f[x]
  BY InBaseRun
<1>2. base \in Nat /\ base >= 10
  BY DEF Bases
<1>3. Within(f, x, 1, 1)
  <2>1. ASSUME NEW k \in 0..x, k < 1 PROVE f[k] \in Seq(Chars) /\ Len(f[k]) <= 1
    <3>1. f[k] = <<digits[k + 1]>> /\ k \in 0..15
      BY <1>1, <1>2, <2>1, DigitsStep
    <3>2. digits[k + 1] \in Chars
      BY <3>1, DigitsAre
    <3> QED BY <3>1, <3>2
  <2> QED BY <2>1 DEF Within
<1>4. \A c, n \in Nat : c >= 1 /\ n >= 1 /\ Within(f, x, c, n) => Within(f, x, 10 * c, n + 1)
  BY <1>1, WithinStep
<1> HIDE DEF Within
<1>5. Within(f, x, 1000, 4)
  <2>1. Within(f, x, 10, 2)
    BY <1>3, <1>4
  <2>2. Within(f, x, 100, 3)
    BY <2>1, <1>4
  <2> QED BY <2>2, <1>4
<1>6. Within(f, x, 1000000, 7)
  <2>1. Within(f, x, 10000, 5)
    BY <1>5, <1>4
  <2>2. Within(f, x, 100000, 6)
    BY <2>1, <1>4
  <2> QED BY <2>2, <1>4
<1>7. Within(f, x, 10000000000, 11)
  <2>1. Within(f, x, 10000000, 8)
    BY <1>6, <1>4
  <2>2. Within(f, x, 100000000, 9)
    BY <2>1, <1>4
  <2>3. Within(f, x, 1000000000, 10)
    BY <2>2, <1>4
  <2> QED BY <2>3, <1>4
<1> QED BY <1>1, <1>7 DEF Within

LEMMA PowersGrow ==
  /\ \A n \in Nat : 2^n \in Nat \ {0}
  /\ \A n \in 0..32 : 2^n <= 2^32
<1>0. \A n \in Nat : 2^n \in Nat /\ 2^(n + 1) = 2 * 2^n
  BY PowerIs, Doubled
<1>1. \A n \in Nat : 2^n \in Nat \ {0}
  <2> DEFINE S == {n \in Nat : 2^n \in Nat \ {0}}
  <2>1. 0 \in S
    <3>1. 2^0 = 1
      OBVIOUS
    <3> QED BY <3>1
  <2>2. ASSUME NEW n \in Nat, n \in S PROVE n + 1 \in S
    <3>1. PICK c \in Nat \ {0} : c = 2^n
      BY <2>2
    <3>2. 2^(n + 1) = 2 * c
      BY <1>0, <3>1
    <3>3. 2 * c \in Nat \ {0}
      BY <3>1
    <3> QED BY <3>2, <3>3
  <2> HIDE DEF S
  <2>3. \A n \in Nat : n \in S
    BY <2>1, <2>2, SetInduction
  <2> QED BY <2>3 DEF S
<1>2. \A n \in 0..32 : 2^n <= 2^32
  <2> DEFINE S == {k \in Nat : k <= 32 => 2^(32 - k) <= 2^32}
  <2>1. 0 \in S
    <3>1. PICK c \in Nat : c = 2^32
      BY <1>0
    <3>2. 2^(32 - 0) = c
      BY <3>1
    <3> QED BY <3>1, <3>2
  <2>2. ASSUME NEW k \in Nat, k \in S PROVE k + 1 \in S
    <3> SUFFICES ASSUME k + 1 <= 32 PROVE 2^(32 - (k + 1)) <= 2^32
      OBVIOUS
    <3>1. PICK n \in Nat : n = 32 - (k + 1) /\ n + 1 = 32 - k
      OBVIOUS
    <3>2. PICK a, b, c : a = 2^n /\ b = 2^(n + 1) /\ c = 2^32
      OBVIOUS
    <3>3. a \in Nat /\ b = 2 * a /\ c \in Nat
      <4>1. 32 \in Nat
        OBVIOUS
      <4> QED BY <1>0, <3>1, <3>2, <4>1
    <3>4. b <= c
      BY <2>2, <3>1, <3>2
    <3>5. a <= c
      BY <3>3, <3>4
    <3> QED BY <3>1, <3>2, <3>5
  <2> HIDE DEF S
  <2>3. \A k \in Nat : k \in S
    BY <2>1, <2>2, SetInduction
  <2>4. ASSUME NEW n \in 0..32 PROVE 2^n <= 2^32
    <3>1. 32 - n \in Nat /\ 32 - n <= 32 /\ 32 - (32 - n) = n
      OBVIOUS
    <3>2. 32 - n \in S
      BY <2>3, <3>1
    <3>3. 2^(32 - (32 - n)) <= 2^32
      BY <3>1, <3>2 DEF S
    <3> QED BY <3>1, <3>3
  <2> QED BY <2>4
<1> QED BY <1>1, <1>2

(* The ints.                                                               *)
LEMMA IntsAre ==
  \E h \in Nat : /\ h >= 1 /\ h <= 2147483648
                 /\ 2^Bits = 2 * h /\ Ints = -h .. h - 1
<1>1. Bits \in Nat /\ Bits - 1 \in Nat /\ Bits \in 0..32 /\ (Bits - 1) + 1 = Bits
  BY SizesAssumption
<1>2. PICK h : h = 2^(Bits - 1)
  OBVIOUS
<1>3. h \in Nat \ {0}
  BY <1>1, <1>2, PowersGrow
<1>4. 2^Bits = 2 * h
  <2>1. 2^((Bits - 1) + 1) = 2 * 2^(Bits - 1)
    BY <1>1, Doubled
  <2> QED BY <1>1, <1>2, <2>1
<1>5. 2 * h <= 2^32
  <2>1. 2^Bits <= 2^32
    BY <1>1, PowersGrow
  <2> QED BY <1>4, <2>1
<1>6. 2^32 = 4294967296
  OBVIOUS
<1>7. h <= 2147483648
  BY <1>3, <1>5, <1>6
<1>8. Ints = -h .. h - 1
  BY <1>2 DEF Ints
<1> QED BY <1>3, <1>4, <1>7, <1>8

(* What printint() prints.                                                 *)
Readable(text, base, x) ==
  /\ text \in Seq(Chars) /\ text # <<>> /\ Len(text) <= 16
  /\ Numeral(text, base) = x
  /\ Head(text) = "0" => x = 0

LEMMA InBaseReadable ==
  ASSUME NEW x \in Nat, NEW base \in Bases, x < 10000000000
  PROVE  /\ Readable(InBase(x, base), base, x)
         /\ InBase(x, base) \in Seq(Chars) /\ Len(InBase(x, base)) <= 11
         /\ ReadBack(InBase(x, base), base) = x
<1>1. PICK text : text = InBase(x, base)
  OBVIOUS
<1>2. text \in Seq(Chars) /\ text # <<>> /\ Head(text) # "-" /\ (Head(text) = "0" => x = 0)
      /\ Reads(text, base, x)
  BY <1>1, InBaseReads DEF NumeralOf
<1>3. Len(text) <= 11 /\ Len(text) \in Nat
  BY <1>1, <1>2, InBaseFits
<1>4. ReadBack(text, base) = x
  BY <1>2, <1>3, ReadIs
<1>5. Numeral(text, base) = x
  BY <1>2, <1>4 DEF Numeral
<1>6. Len(text) <= 16
  BY <1>3
<1> QED BY <1>1, <1>2, <1>3, <1>4, <1>5, <1>6 DEF Readable

LEMMA PrintintReadable ==
  ASSUME NEW x \in Ints, NEW base \in Bases
  PROVE  Readable(Printint(x, base), base, x)
<1>1. PICK h \in Nat : h >= 1 /\ h <= 2147483648 /\ 2^Bits = 2 * h /\ Ints = -h .. h - 1
  BY IntsAre
<1>2. x \in Int /\ -h <= x /\ x <= h - 1
  BY <1>1
<1>3. CASE x >= 0
  <2>1. x \in Nat /\ x < 10000000000 /\ ~(x < 0)
    BY <1>1, <1>2, <1>3
  <2>2. Printint(x, base) = InBase(x, base)
    BY <2>1 DEF Printint
  <2> QED BY <2>1, <2>2, InBaseReadable
<1>4. CASE x < 0
  <2>1. PICK y : y = -x
    OBVIOUS
  <2>2. y \in Nat /\ y > 0 /\ y < 10000000000 /\ y < 2 * h /\ x = -y
    BY <1>1, <1>2, <1>4, <2>1
  <2>3. y % (2 * h) = y
    BY <1>1, <2>2
  <2>4. PICK digs : digs = InBase(y, base)
    OBVIOUS
  <2>5. digs \in Seq(Chars) /\ Len(digs) <= 11 /\ ReadBack(digs, base) = y
    BY <2>2, <2>4, InBaseReadable
  <2>6. Printint(x, base) = <<"-">> \o digs
    BY <1>1, <1>4, <2>1, <2>3, <2>4 DEF Printint
  <2>7. PICK text : text = <<"-">> \o digs
    OBVIOUS
  <2>8. "-" \in Chars
    BY DEF Chars
  <2>9. /\ text \in Seq(Chars) /\ text # <<>> /\ Head(text) = "-"
        /\ Len(text) <= 16 /\ Len(text) = Len(digs) + 1
    BY <2>5, <2>7, <2>8
  <2>10. Tail(text) = digs
    <3>1. Tail(text) \in Seq(Chars) /\ Len(Tail(text)) = Len(digs)
      BY <2>5, <2>9
    <3>2. \A i \in 1..Len(digs) : Tail(text)[i] = digs[i]
      <4>1. ASSUME NEW i \in 1..Len(digs) PROVE Tail(text)[i] = digs[i]
        <5>1. Tail(text)[i] = text[i + 1]
          BY <2>5, <2>9
        <5>2. text[i + 1] = digs[i]
          BY <2>5, <2>7
        <5> QED BY <5>1, <5>2
      <4> QED BY <4>1
    <3> QED BY <2>5, <3>1, <3>2, SeqEqual
  <2>11. Numeral(text, base) = x
    <3>1. Numeral(text, base) = -ReadBack(Tail(text), base)
      BY <2>9, Zenon DEF Numeral
    <3>2. ReadBack(Tail(text), base) = y
      BY <2>5, <2>10
    <3>3. PICK z : z = ReadBack(Tail(text), base)
      OBVIOUS
    <3> QED BY <2>2, <3>1, <3>2, <3>3
  <2>12. "-" # "0"
    OBVIOUS
  <2> QED BY <2>6, <2>7, <2>9, <2>11, <2>12 DEF Readable
<1> QED BY <1>2, <1>3, <1>4

(* printptr() prints the digits of an address from the top.                *)
LEMMA DivUnique ==
  ASSUME NEW c \in Nat \ {0}, NEW q \in Nat, NEW r \in Nat, r < c, NEW x, x = c * q + r
  PROVE  x \div c = q
<1>1. x \in Nat
  OBVIOUS
<1>2. PICK p, s : p = x \div c /\ s = x % c
  OBVIOUS
<1>3. p \in Nat /\ s \in Nat /\ s < c /\ x = c * p + s
  BY <1>1, <1>2
<1>4. ASSUME NEW a \in Nat, NEW b \in Nat, a < b PROVE c * b >= c * a + c
  <2>1. PICK d \in Nat : b = a + 1 + d
    <3>1. b - a - 1 \in Nat /\ b = a + 1 + (b - a - 1)
      BY <1>4
    <3> QED BY <3>1
  <2>2. c * b = c * a + c + c * d /\ c * d \in Nat
    BY <2>1
  <2>3. c * a \in Nat /\ c * b \in Nat
    OBVIOUS
  <2> QED BY <2>2, <2>3
<1>5. c * p \in Nat /\ c * q \in Nat
  BY <1>3
<1>6. ~(p < q)
  BY <1>3, <1>4, <1>5
<1>7. ~(q < p)
  BY <1>3, <1>4, <1>5
<1> QED BY <1>2, <1>3, <1>6, <1>7

LEMMA DivTwice ==
  ASSUME NEW x \in Nat, NEW p \in Nat \ {0}
  PROVE  x \div (16 * p) = (x \div p) \div 16
<1>1. PICK a \in Nat, r \in Nat : a = x \div p /\ r < p /\ x = p * a + r
  OBVIOUS
<1>2. PICK q \in Nat, s \in 0..15 : q = a \div 16 /\ a = 16 * q + s
  <2>1. a \div 16 \in Nat /\ a % 16 \in 0..15 /\ a = 16 * (a \div 16) + (a % 16)
    OBVIOUS
  <2> QED BY <2>1
<1>3. p * s \in Nat /\ p * s <= 15 * p
  <2>1. PICK d \in Nat : d = 15 - s
    BY <1>2
  <2>2. p * d \in Nat /\ p * s \in Nat
    BY <1>2
  <2>3. p * s + p * d = 15 * p
    BY <1>2, <2>1
  <2> QED BY <2>2, <2>3
<1>4. PICK e \in Nat : e = p * s + r /\ e < 16 * p
  BY <1>1, <1>3
<1>5. x = (16 * p) * q + e
  <2>1. p * (16 * q + s) = (16 * p) * q + p * s
    BY <1>2
  <2>2. p * a = (16 * p) * q + p * s
    BY <1>2, <2>1
  <2>3. (16 * p) * q \in Nat
    BY <1>2
  <2> QED BY <1>1, <1>3, <1>4, <2>2, <2>3
<1>6. 16 * p \in Nat \ {0}
  OBVIOUS
<1>7. x \div (16 * p) = q
  BY <1>4, <1>5, <1>6, DivUnique
<1> QED BY <1>1, <1>2, <1>7

LEMMA Hexadecimal ==
  ASSUME NEW m \in Nat
  PROVE  2^(4 * (m + 1)) = 16 * 2^(4 * m) /\ 2^(4 * m) \in Nat \ {0}
<1>1. PICK n \in Nat : n = 4 * m
  OBVIOUS
<1>2. PICK c \in Nat \ {0} : c = 2^n
  BY PowersGrow
<1>3. 2^(n + 1) = 2 * c
  BY <1>2, Doubled
<1>4. 2^(n + 2) = 4 * c
  <2>1. n + 1 \in Nat /\ (n + 1) + 1 = n + 2
    OBVIOUS
  <2>2. 2^((n + 1) + 1) = 2 * 2^(n + 1)
    BY <2>1, Doubled
  <2> QED BY <1>3, <2>1, <2>2
<1>5. 2^(n + 3) = 8 * c
  <2>1. n + 2 \in Nat /\ (n + 2) + 1 = n + 3
    OBVIOUS
  <2>2. 2^((n + 2) + 1) = 2 * 2^(n + 2)
    BY <2>1, Doubled
  <2> QED BY <1>4, <2>1, <2>2
<1>6. 2^(n + 4) = 16 * c
  <2>1. n + 3 \in Nat /\ (n + 3) + 1 = n + 4
    OBVIOUS
  <2>2. 2^((n + 3) + 1) = 2 * 2^(n + 3)
    BY <2>1, Doubled
  <2> QED BY <1>5, <2>1, <2>2
<1>7. 4 * (m + 1) = n + 4
  BY <1>1
<1> QED BY <1>1, <1>2, <1>6, <1>7

LEMMA PrintptrReads ==
  ASSUME NEW x \in Pointers
  PROVE  \E hex \in Seq(Chars) : /\ Printptr(x) = <<"0", "x">> \o hex
                                 /\ Len(hex) = Nibbles
                                 /\ ReadBack(hex, 16) = x
<1>1. Nibbles \in Nat \ {0} /\ x \in Nat /\ x < 2^(4 * Nibbles)
  <2>1. Nibbles \in Nat \ {0} /\ 4 * Nibbles \in Nat
    BY SizesAssumption
  <2>2. 2^(4 * Nibbles) \in Nat
    BY <2>1, PowersGrow
  <2> QED BY <2>1, <2>2 DEF Pointers
<1> DEFINE Top(i) == x \div 2^(4 * (Nibbles - i))
           hex == [i \in 1..Nibbles |-> digits[(Top(i) % 16) + 1]]
           v == [i \in 0..Nibbles |-> Top(i)]
<1>2. Printptr(x) = <<"0", "x">> \o hex
  BY DEF Printptr
<1>3. \A i \in 0..Nibbles : Top(i) \in Nat
  <2>1. ASSUME NEW i \in 0..Nibbles PROVE Top(i) \in Nat
    <3>1. PICK c : c = 2^(4 * (Nibbles - i))
      OBVIOUS
    <3>2. Nibbles - i \in Nat
      BY <1>1
    <3>3. c \in Nat \ {0}
      BY <3>1, <3>2, Hexadecimal
    <3>4. x \div c \in Nat
      BY <1>1, <3>3
    <3> QED BY <3>1, <3>4
  <2> QED BY <2>1
<1>4. ASSUME NEW i \in 1..Nibbles PROVE Top(i - 1) = Top(i) \div 16
  <2>1. PICK m \in Nat : m = Nibbles - i /\ m + 1 = Nibbles - (i - 1)
    BY <1>1
  <2>2. PICK c : c = 2^(4 * m)
    OBVIOUS
  <2>3. c \in Nat \ {0} /\ 2^(4 * (m + 1)) = 16 * c
    BY <2>2, Hexadecimal
  <2>4. Top(i) = x \div c /\ Top(i - 1) = x \div (16 * c)
    BY <2>1, <2>2, <2>3
  <2>5. x \div (16 * c) = (x \div c) \div 16
    BY <1>1, <2>3, DivTwice
  <2> QED BY <2>4, <2>5
<1>5. Top(0) = 0
  <2>1. PICK c : c = 2^(4 * Nibbles)
    OBVIOUS
  <2>2. x < c /\ c \in Nat \ {0}
    BY <1>1, <2>1, Hexadecimal
  <2>3. Nibbles - 0 = Nibbles
    BY <1>1
  <2>4. Top(0) = x \div c
    BY <2>1, <2>3
  <2>5. x \div c = 0
    <3>1. x = c * 0 + x /\ 0 \in Nat
      BY <1>1, <2>2
    <3> QED BY <1>1, <2>2, <3>1, DivUnique
  <2> QED BY <2>4, <2>5
<1>6. Top(Nibbles) = x
  <2>1. Nibbles - Nibbles = 0 /\ 4 * 0 = 0
    BY <1>1
  <2>2. 2^0 = 1
    OBVIOUS
  <2>3. x \div 1 = x
    BY <1>1
  <2> QED BY <2>1, <2>2, <2>3
<1> HIDE DEF Top
<1>7. \A i \in 1..Nibbles : Top(i) % 16 \in 0..15 /\ hex[i] = digits[(Top(i) % 16) + 1]
  <2>1. ASSUME NEW i \in 1..Nibbles PROVE Top(i) % 16 \in 0..15
    <3>1. Top(i) \in Nat
      BY <1>1, <1>3
    <3> QED BY <3>1
  <2> QED BY <2>1
<1>8. hex \in Seq(Chars) /\ Len(hex) = Nibbles
  <2>1. \A i \in 1..Nibbles : digits[(Top(i) % 16) + 1] \in Chars
    BY <1>7, DigitsAre
  <2> QED BY <1>1, <2>1
<1>9. \A i \in 1..Nibbles : DigitAt(hex, i) = Top(i) % 16
  <2> HIDE DEF hex
  <2>1. ASSUME NEW i \in 1..Nibbles PROVE DigitAt(hex, i) = Top(i) % 16
    <3>1. PICK d \in 0..15 : d = Top(i) % 16 /\ hex[i] = digits[d + 1]
      BY <1>7
    <3> QED BY <3>1, DigitIs
  <2> QED BY <2>1
<1>10. Reads(hex, 16, x)
  <2> HIDE DEF hex
  <2>1. ASSUME NEW i \in 0..Nibbles
        PROVE  v[i] = IF i = 0 THEN 0 ELSE 16 * v[i - 1] + DigitAt(hex, i)
    <3>1. CASE i = 0
      BY <1>5, <3>1
    <3>2. CASE i # 0
      <4>1. i \in 1..Nibbles /\ i - 1 \in 0..Nibbles
        BY <1>1, <3>2
      <4>2. PICK a, b, d : a = Top(i) /\ b = Top(i - 1) /\ d = DigitAt(hex, i)
        OBVIOUS
      <4>3. a \in Nat /\ b = a \div 16 /\ d = a % 16
        BY <1>3, <1>4, <1>9, <4>1, <4>2
      <4>4. a = 16 * b + d
        BY <4>3
      <4>5. v[i] = a /\ v[i - 1] = b
        BY <4>1, <4>2
      <4> QED BY <3>2, <4>2, <4>4, <4>5
    <3> QED BY <3>1, <3>2
  <2>2. Values(hex, 16, v)
    BY <1>8, <2>1 DEF Values
  <2>3. v[Nibbles] = x
    BY <1>1, <1>6
  <2> HIDE DEF v
  <2> QED BY <1>8, <2>2, <2>3 DEF Reads
<1> HIDE DEF hex
<1>11. ReadBack(hex, 16) = x
  <2>1. Len(hex) \in Nat
    BY <1>1, <1>8
  <2> QED BY <1>10, <2>1, ReadIs
<1> QED BY <1>2, <1>8, <1>11

(* printf of one conversion and the end of the line.                       *)
Turn(f, fmt, args, i, k) ==
  IF i > Len(fmt) THEN <<>>
  ELSE IF fmt[i] # "%" THEN <<fmt[i]>> \o f[i + 1][k]
  ELSE IF i = Len(fmt) THEN <<>>
  ELSE IF fmt[i + 1] \in Taking
       THEN Convert(fmt[i + 1], args[k]) \o f[i + 2][k + 1]
       ELSE Convert(fmt[i + 1], Null) \o f[i + 2][k]

Scan(f, fmt, args, n, m) ==
  f = [i \in 1..n |-> [k \in 1..m |-> Turn(f, fmt, args, i, k)]]

LEMMA OutputScan ==
  ASSUME NEW fmt, NEW args, NEW n, NEW m, n = Len(fmt) + 2, m = Len(fmt) + 1,
         \E f : Scan(f, fmt, args, n, m)
  PROVE  \E f : Scan(f, fmt, args, n, m) /\ Output(fmt, args) = f[1][1]
<1> DEFINE F == CHOOSE f : Scan(f, fmt, args, Len(fmt) + 2, Len(fmt) + 1)
<1>1. Scan(F, fmt, args, n, m)
  OBVIOUS
<1>2. Output(fmt, args) = F[1][1]
  BY DEF Output, Scan, Turn
<1> HIDE DEF F
<1> QED BY <1>1, <1>2

(* What it does for "%c\n".                                                *)
OneConversion(fmt) ==
  Len(fmt) = 3 /\ fmt[1] = "%" /\ fmt[2] # "%" /\ fmt[3] # "%" /\ fmt[2] \in Taking

LEMMA FirstTurn ==
  ASSUME NEW f, NEW fmt, NEW args, NEW k, OneConversion(fmt)
  PROVE  Turn(f, fmt, args, 1, k) = Convert(fmt[2], args[k]) \o f[3][k + 1]
<1>1. ~(1 > 3) /\ 1 # 3 /\ 1 + 1 = 2 /\ 1 + 2 = 3
  OBVIOUS
<1> QED BY <1>1, Zenon DEF Turn, OneConversion

LEMMA SecondTurn ==
  ASSUME NEW f, NEW fmt, NEW args, NEW k, OneConversion(fmt)
  PROVE  Turn(f, fmt, args, 2, k) = <<fmt[2]>> \o f[3][k]
<1>1. ~(2 > 3) /\ 2 + 1 = 3
  OBVIOUS
<1> QED BY <1>1, Zenon DEF Turn, OneConversion

LEMMA ThirdTurn ==
  ASSUME NEW f, NEW fmt, NEW args, NEW k, OneConversion(fmt)
  PROVE  Turn(f, fmt, args, 3, k) = <<fmt[3]>> \o f[4][k]
<1>1. ~(3 > 3) /\ 3 + 1 = 4
  OBVIOUS
<1> QED BY <1>1, Zenon DEF Turn, OneConversion

LEMMA FourthTurn ==
  ASSUME NEW f, NEW fmt, NEW args, NEW k, OneConversion(fmt)
  PROVE  Turn(f, fmt, args, 4, k) = <<>>
<1>1. 4 > 3
  OBVIOUS
<1> QED BY <1>1, Zenon DEF Turn, OneConversion

LEMMA FifthTurn ==
  ASSUME NEW f, NEW fmt, NEW args, NEW k, OneConversion(fmt)
  PROVE  Turn(f, fmt, args, 5, k) = <<>>
<1>1. 5 > 3
  OBVIOUS
<1> QED BY <1>1, Zenon DEF Turn, OneConversion

LEMMA OutputIs ==
  ASSUME NEW c \in {"d", "x", "p"}, NEW arg, NEW text \in Seq(Chars), text = Convert(c, arg)
  PROVE  Output(<<"%", c, "\n">>, <<arg>>) = text \o <<"\n">>
<1> DEFINE fmt == <<"%", c, "\n">>
           args == <<arg>>
<1>1. /\ Len(fmt) = 3 /\ fmt[1] = "%" /\ fmt[2] = c /\ fmt[3] = "\n"
      /\ fmt[2] # "%" /\ fmt[3] # "%" /\ fmt[2] \in Taking /\ args[1] = arg
  BY DEF Taking
<1>0. OneConversion(fmt)
  BY <1>1 DEF OneConversion
<1> HIDE DEF fmt, args
<1> DEFINE last == [k \in 1..4 |-> <<>>]
           third == [k \in 1..4 |-> <<fmt[3]>> \o last[k]]
           second == [k \in 1..4 |-> <<fmt[2]>> \o third[k]]
           first == [k \in 1..4 |-> Convert(fmt[2], args[k]) \o third[k + 1]]
           g == [i \in 1..5 |-> IF i = 1 THEN first ELSE IF i = 2 THEN second
                                ELSE IF i = 3 THEN third ELSE last]
<1>2. \E f : Scan(f, fmt, args, 5, 4)
  <2>1. g[1] = first /\ g[2] = second /\ g[3] = third /\ g[4] = last /\ g[5] = last
    OBVIOUS
  <2>2. g = [i \in 1..5 |-> g[i]]
    OBVIOUS
  <2>3. first = [k \in 1..4 |-> Convert(fmt[2], args[k]) \o third[k + 1]]
    OBVIOUS
  <2>4. second = [k \in 1..4 |-> <<fmt[2]>> \o third[k]]
    OBVIOUS
  <2>5. third = [k \in 1..4 |-> <<fmt[3]>> \o last[k]]
    OBVIOUS
  <2>6. last = [k \in 1..4 |-> <<>>]
    OBVIOUS
  <2> HIDE DEF g, first, second, third, last
  <2>7. \A k : Turn(g, fmt, args, 1, k) = Convert(fmt[2], args[k]) \o third[k + 1]
    <3>1. \A k : Turn(g, fmt, args, 1, k) = Convert(fmt[2], args[k]) \o g[3][k + 1]
      BY <1>0, FirstTurn
    <3> QED BY <2>1, <3>1
  <2>8. \A k : Turn(g, fmt, args, 2, k) = <<fmt[2]>> \o third[k]
    <3>1. \A k : Turn(g, fmt, args, 2, k) = <<fmt[2]>> \o g[3][k]
      BY <1>0, SecondTurn
    <3> QED BY <2>1, <3>1
  <2>9. \A k : Turn(g, fmt, args, 3, k) = <<fmt[3]>> \o last[k]
    <3>1. \A k : Turn(g, fmt, args, 3, k) = <<fmt[3]>> \o g[4][k]
      BY <1>0, ThirdTurn
    <3> QED BY <2>1, <3>1
  <2>10. \A k : Turn(g, fmt, args, 4, k) = <<>> /\ Turn(g, fmt, args, 5, k) = <<>>
    BY <1>0, FourthTurn, FifthTurn
  <2>11. ASSUME NEW i \in 1..5 PROVE g[i] = [k \in 1..4 |-> Turn(g, fmt, args, i, k)]
    <3>1. CASE i = 1
      BY <2>1, <2>3, <2>7, <3>1
    <3>2. CASE i = 2
      BY <2>1, <2>4, <2>8, <3>2
    <3>3. CASE i = 3
      BY <2>1, <2>5, <2>9, <3>3
    <3>4. CASE i = 4
      BY <2>1, <2>6, <2>10, <3>4
    <3>5. CASE i = 5
      BY <2>1, <2>6, <2>10, <3>5
    <3> QED BY <3>1, <3>2, <3>3, <3>4, <3>5
  <2> QED BY <2>2, <2>11 DEF Scan
<1> HIDE DEF g, first, second, third, last
<1>3. PICK f : Scan(f, fmt, args, 5, 4) /\ Output(fmt, args) = f[1][1]
  <2>1. 5 = Len(fmt) + 2 /\ 4 = Len(fmt) + 1
    BY <1>1
  <2> QED BY <1>2, <2>1, OutputScan
<1>4. ASSUME NEW i \in 1..5, NEW k \in 1..4 PROVE f[i][k] = Turn(f, fmt, args, i, k)
  <2>1. f[i] = [m \in 1..4 |-> Turn(f, fmt, args, i, m)]
    BY <1>3 DEF Scan
  <2> QED BY <2>1
<1>5. f[4][2] = <<>>
  <2>1. 4 > 3 /\ 4 \in 1..5 /\ 2 \in 1..4
    OBVIOUS
  <2>2. Turn(f, fmt, args, 4, 2) = <<>>
    BY <1>0, FourthTurn
  <2> QED BY <1>4, <2>1, <2>2
<1>6. f[3][2] = <<"\n">> \o <<>>
  <2>1. ~(3 > 3) /\ 4 = 3 + 1 /\ 3 \in 1..5 /\ 2 \in 1..4
    OBVIOUS
  <2>2. Turn(f, fmt, args, 3, 2) = <<"\n">> \o f[4][2]
    <3>1. \A k : Turn(f, fmt, args, 3, k) = <<fmt[3]>> \o f[4][k]
      BY <1>0, ThirdTurn
    <3> QED BY <1>1, <3>1
  <2> QED BY <1>4, <1>5, <2>1, <2>2
<1>7. f[1][1] = Convert(c, arg) \o f[3][2]
  <2>1. ~(1 > 3) /\ 1 # 3 /\ 2 = 1 + 1 /\ 3 = 1 + 2 /\ 1 \in 1..5 /\ 1 \in 1..4
    OBVIOUS
  <2>2. Turn(f, fmt, args, 1, 1) = Convert(c, arg) \o f[3][2]
    <3>1. \A k : Turn(f, fmt, args, 1, k) = Convert(fmt[2], args[k]) \o f[3][k + 1]
      BY <1>0, FirstTurn
    <3>2. 1 + 1 = 2
      OBVIOUS
    <3> QED BY <1>1, <3>1, <3>2
  <2> QED BY <1>4, <2>1, <2>2
<1>8. <<"\n">> \o <<>> = <<"\n">>
  OBVIOUS
<1> QED BY <1>3, <1>6, <1>7, <1>8 DEF fmt, args

-----------------------------------------------------------------------------
(* The numbers that are printed are of their types.                        *)
Numbers ==
  \A t \in Threads : th[t].pc \in Printing /\ th[t].call.fmt # Null =>
    NumberCall(th[t].call.fmt, th[t].call.args)

LEMMA NoNumber ==
  ASSUME NEW fmt
  PROVE  NumberCall(fmt, <<>>)
<1>1. Len(<<>>) # 1
  OBVIOUS
<1> QED BY <1>1 DEF NumberCall

LEMMA OneMoves ==
  ASSUME IInv, Numbers, NEW t \in Threads, NEW r, th' = [th EXCEPT ![t] = r],
         r.pc \in Printing /\ r.call.fmt # Null => NumberCall(r.call.fmt, r.call.args)
  PROVE  Numbers'
<1>1. th'[t] = r /\ \A u \in Threads : u # t => th'[u] = th[u]
  BY OneThread DEF Moves
<1>2. ASSUME NEW u \in Threads, th'[u].pc \in Printing, th'[u].call.fmt # Null
      PROVE  NumberCall(th'[u].call.fmt, th'[u].call.args)
  <2>1. CASE u = t
    BY <1>1, <1>2, <2>1
  <2>2. CASE u # t
    <3>1. th'[u] = th[u]
      BY <1>1, <2>2
    <3> QED BY <1>2, <3>1 DEF Numbers
  <2> QED BY <2>1, <2>2
<1> QED BY <1>2 DEF Numbers, NumberCall

(* A thread enters printf, ...                                             *)
LEMMA NumbersEnter ==
  ASSUME IInv, Numbers, NEW t \in Threads, Printf(t) \/ Backtrace(t)
  PROVE  Numbers'
<1>1. DOMAIN th[t] = Fields
  BY DEF IInv, ThreadOK, PlaceOK
<1>2. CASE Printf(t)
  <2>1. PICK call \in Calls : th' = [th EXCEPT ![t] = Calling(@, call.fmt, call.args)]
    BY <1>2 DEF Printf
  <2>2. PICK r : r = Calling(th[t], call.fmt, call.args)
    OBVIOUS
  <2>3. r.call.fmt = call.fmt /\ r.call.args = call.args
    BY <1>1, <2>2, CallingFacts
  <2>4. call.fmt # Null => NumberCall(call.fmt, call.args)
    BY CallsAssumption
  <2>5. th = [u \in Threads |-> th[u]]
    BY DEF IInv
  <2>6. th' = [th EXCEPT ![t] = r]
    BY <2>1, <2>2, <2>5
  <2> QED BY <2>3, <2>4, <2>6, OneMoves
<1>3. CASE Backtrace(t)
  <2>1. PICK stack \in Stacks :
          th' = [th EXCEPT ![t] = [Calling(@, <<"b", "\n">>, <<>>) EXCEPT
                                     !.in = "backtrace", !.fp = Inner(stack), !.stack = stack]]
    BY <1>3 DEF Backtrace
  <2>2. PICK c : c = Calling(th[t], <<"b", "\n">>, <<>>)
    OBVIOUS
  <2>3. PICK r : r = [c EXCEPT !.in = "backtrace", !.fp = Inner(stack), !.stack = stack]
    OBVIOUS
  <2>4. DOMAIN c = Fields /\ c.call.args = <<>>
    BY <1>1, <2>2, CallingFacts
  <2>5. r.call = c.call
    BY <2>3, <2>4 DEF Fields
  <2>6. th = [u \in Threads |-> th[u]]
    BY DEF IInv
  <2>7. th' = [th EXCEPT ![t] = r]
    BY <2>1, <2>2, <2>3, <2>6
  <2>8. NumberCall(r.call.fmt, <<>>)
    BY NoNumber
  <2> QED BY <2>4, <2>5, <2>7, <2>8, OneMoves
<1> QED BY <1>2, <1>3

LEMMA NumbersPanic ==
  ASSUME IInv, Numbers, NEW t \in Threads, NEW s, Panic(t, s)
  PROVE  Numbers'
<1>1. DOMAIN th[t] = Fields
  BY DEF IInv, ThreadOK, PlaceOK
<1>2. PICK c : c = Calling(th[t], <<"p", "a", "n", "i", "c", ":">>, <<>>)
  OBVIOUS
<1>3. PICK r : r = [c EXCEPT !.in = "panic", !.rest = <<s, <<"\n">>>>]
  OBVIOUS
<1>4. DOMAIN c = Fields /\ c.call.args = <<>>
  BY <1>1, <1>2, CallingFacts
<1>5. r.call = c.call
  BY <1>3, <1>4 DEF Fields
<1>6. th' = [th EXCEPT ![t] = r]
  <2>1. th = [u \in Threads |-> th[u]]
    BY DEF IInv
  <2> QED BY <1>2, <1>3, <2>1 DEF Panic, Panicking
<1>7. NumberCall(r.call.fmt, <<>>)
  BY NoNumber
<1> QED BY <1>4, <1>5, <1>6, <1>7, OneMoves

(* ... goes on in it, ...                                                  *)
LEMMA NumbersStay ==
  ASSUME IInv, Numbers, NEW t \in Threads,
         ReadLocking(t) \/ Acquire(t) \/ Begin(t) \/ Consputc(t)
  PROVE  Numbers'
<1>1. DOMAIN th[t] = Fields /\ th[t].pc \in Printing
  BY DEF IInv, ThreadOK, PlaceOK, ReadLocking, Acquire, Begin, Consputc, At, Printing
<1>2. th = [u \in Threads |-> th[u]]
  BY DEF IInv
<1>3. \E r : r.call = th[t].call /\ th' = [th EXCEPT ![t] = r]
  <2>1. CASE ReadLocking(t)
    <3>1. PICK r : r = [th[t] EXCEPT !.locked = locking,
                                     !.pc = IF locking = 1 THEN "acquire" ELSE "begin"]
      OBVIOUS
    <3>2. r.call = th[t].call
      BY <1>1, <3>1 DEF Fields
    <3>3. th' = [th EXCEPT ![t] = r]
      BY <1>2, <2>1, <3>1 DEF ReadLocking
    <3> QED BY <3>2, <3>3
  <2>2. CASE Acquire(t)
    <3>1. PICK r : r = [th[t] EXCEPT !.pc = "begin"]
      OBVIOUS
    <3>2. r.call = th[t].call
      BY <1>1, <3>1 DEF Fields
    <3>3. th' = [th EXCEPT ![t] = r]
      BY <1>2, <2>2, <3>1 DEF Acquire
    <3> QED BY <3>2, <3>3
  <2>3. CASE Begin(t)
    <3>1. PICK r : r = [th[t] EXCEPT !.pc = "body",
                                     !.todo = Output(th[t].call.fmt, th[t].call.args)]
      OBVIOUS
    <3>2. r.call = th[t].call
      BY <1>1, <3>1 DEF Fields
    <3>3. th' = [th EXCEPT ![t] = r]
      BY <1>2, <2>3, <3>1 DEF Begin
    <3> QED BY <3>2, <3>3
  <2>4. CASE Consputc(t)
    <3>1. PICK r : r = [th[t] EXCEPT !.todo = Tail(@)]
      OBVIOUS
    <3>2. r.call = th[t].call
      BY <1>1, <3>1 DEF Fields
    <3>3. th' = [th EXCEPT ![t] = r]
      BY <1>2, <2>4, <3>1 DEF Consputc
    <3> QED BY <3>2, <3>3
  <2> QED BY <2>1, <2>2, <2>3, <2>4
<1>4. PICK r : r.call = th[t].call /\ th' = [th EXCEPT ![t] = r]
  BY <1>3
<1>5. r.call.fmt # Null => NumberCall(r.call.fmt, r.call.args)
  BY <1>1, <1>4 DEF Numbers
<1> QED BY <1>4, <1>5, OneMoves

(* ... returns from it, or goes from frame to frame.                       *)
LEMMA ReturnedCall ==
  ASSUME NEW r, DOMAIN r = Fields, r.in \in {"kernel", "backtrace", "panic"}
  PROVE  Returned(r).pc \in Printing => Returned(r).call.args = <<>>
<1> DEFINE back == [r EXCEPT !.call = Null, !.locked = 0]
<1>1. DOMAIN back = Fields /\ back.in = r.in /\ back.rest = r.rest
  BY DEF Fields
<1>2. Returned(r) = CASE r.in = "kernel" -> Idle
       [] r.in = "backtrace" -> [back EXCEPT !.pc = "walk"]
       [] r.in = "panic" /\ r.rest # <<>> ->
            [Calling(back, Head(r.rest), <<>>) EXCEPT !.rest = Tail(@)]
       [] r.in = "panic" /\ r.rest = <<>> -> [back EXCEPT !.pc = "freeze"]
  BY DEF Returned
<1> HIDE DEF back
<1>3. CASE r.in = "kernel"
  BY <1>2, <1>3, IdleFacts DEF Printing
<1>4. CASE r.in = "backtrace"
  <2>1. Returned(r) = [back EXCEPT !.pc = "walk"]
    BY <1>2, <1>4
  <2>2. Returned(r).pc = "walk"
    BY <1>1, <2>1 DEF Fields
  <2> QED BY <2>2 DEF Printing
<1>5. CASE r.in = "panic" /\ r.rest = <<>>
  <2>1. Returned(r) = [back EXCEPT !.pc = "freeze"]
    BY <1>2, <1>5
  <2>2. Returned(r).pc = "freeze"
    BY <1>1, <2>1 DEF Fields
  <2> QED BY <2>2 DEF Printing
<1>6. CASE r.in = "panic" /\ r.rest # <<>>
  <2>1. PICK c : c = Calling(back, Head(r.rest), <<>>)
    OBVIOUS
  <2>2. Returned(r) = [c EXCEPT !.rest = Tail(@)]
    BY <1>2, <1>6, <2>1
  <2>3. DOMAIN c = Fields /\ c.call.args = <<>>
    BY <1>1, <2>1, CallingFacts
  <2>4. Returned(r).call = c.call
    BY <2>2, <2>3 DEF Fields
  <2> QED BY <2>3, <2>4
<1> QED BY <1>3, <1>4, <1>5, <1>6

LEMMA NumbersLeave ==
  ASSUME IInv, Numbers, NEW t \in Threads,
         Return(t) \/ Freeze(t) \/ BacktraceFrame(t) \/ BacktraceDone(t)
  PROVE  Numbers'
<1>1. ThreadOK(t) /\ PlaceOK(t) /\ FoundOK(t)
  BY DEF IInv, ThreadOK
<1>2. DOMAIN th[t] = Fields /\ th[t].in \in {"kernel", "backtrace", "panic"}
  BY <1>1 DEF PlaceOK
<1>3. th = [u \in Threads |-> th[u]]
  BY DEF IInv
<1>4. CASE Return(t)
  <2>1. PICK r : r = Returned(th[t])
    OBVIOUS
  <2>2. r.pc \in Printing => r.call.args = <<>>
    BY <1>2, <2>1, ReturnedCall
  <2>3. th' = [th EXCEPT ![t] = r]
    BY <1>3, <1>4, <2>1 DEF Return
  <2>4. NumberCall(r.call.fmt, <<>>)
    BY NoNumber
  <2> QED BY <2>2, <2>3, <2>4, OneMoves
<1>5. CASE Freeze(t)
  <2>1. PICK r : r = [th[t] EXCEPT !.pc = "spin"]
    OBVIOUS
  <2>2. r.pc \notin Printing
    BY <1>2, <2>1 DEF Fields, Printing
  <2>3. th' = [th EXCEPT ![t] = r]
    BY <1>3, <1>5, <2>1 DEF Freeze
  <2> QED BY <2>2, <2>3, OneMoves
<1>6. CASE BacktraceFrame(t)
  <2>1. th[t].stack \in Stacks /\ th[t].fp \in DOMAIN th[t].stack
    BY <1>1, <1>6 DEF PlaceOK, FoundOK, BacktraceFrame, At
  <2>2. PICK frame : frame = th[t].stack[th[t].fp]
    OBVIOUS
  <2>3. frame.ra \in Pointers
    BY <2>1, <2>2, CallsAssumption
  <2>4. PICK c : c = Calling(th[t], <<"%", "p", "\n">>, <<frame.ra>>)
    OBVIOUS
  <2>5. PICK r : r = [c EXCEPT !.fp = frame.fp, !.found = Append(th[t].found, frame.ra)]
    OBVIOUS
  <2>6. DOMAIN c = Fields /\ c.call.fmt = <<"%", "p", "\n">> /\ c.call.args = <<frame.ra>>
    BY <1>2, <2>4, CallingFacts
  <2>7. r.call = c.call
    BY <2>5, <2>6 DEF Fields
  <2>8. th' = [th EXCEPT ![t] = r]
    BY <1>3, <1>6, <2>2, <2>4, <2>5 DEF BacktraceFrame
  <2>9. NumberCall(<<"%", "p", "\n">>, <<frame.ra>>)
    <3>1. <<"%", "p", "\n">> \notin {<<"%", "d", "\n">>, <<"%", "x", "\n">>}
      OBVIOUS
    <3>2. <<frame.ra>>[1] = frame.ra
      OBVIOUS
    <3> QED BY <2>3, <3>1, <3>2 DEF NumberCall
  <2> QED BY <2>6, <2>7, <2>8, <2>9, OneMoves
<1>7. CASE BacktraceDone(t)
  <2>1. PICK r : r = Idle
    OBVIOUS
  <2>2. r.pc \notin Printing
    BY <2>1, IdleFacts DEF Printing
  <2>3. th' = [th EXCEPT ![t] = r]
    BY <1>7, <2>1 DEF BacktraceDone
  <2> QED BY <2>2, <2>3, OneMoves
<1> QED BY <1>4, <1>5, <1>6, <1>7

LEMMA NumbersInit == Init => Numbers
<1> SUFFICES ASSUME Init PROVE Numbers
  OBVIOUS
<1>1. \A t \in Threads : th[t].pc \notin Printing
  BY IdleFacts DEF Init, Printing
<1> QED BY <1>1 DEF Numbers

LEMMA NumbersNext == IInv /\ Numbers /\ [Next]_vars => Numbers'
<1> SUFFICES ASSUME IInv, Numbers, [Next]_vars PROVE Numbers'
  OBVIOUS
<1>1. CASE UNCHANGED vars
  BY <1>1 DEF vars, Numbers, NumberCall
<1>2. ASSUME NEW t \in Threads, Go(t) PROVE Numbers'
  BY <1>2, NumbersStay, NumbersPanic, NumbersLeave DEF Go, NullFmt
<1>3. ASSUME NEW t \in Threads, Printf(t) \/ KernelPanics(t) \/ Backtrace(t) PROVE Numbers'
  BY <1>3, NumbersEnter, NumbersPanic DEF KernelPanics
<1> QED BY <1>1, <1>2, <1>3 DEF Next

(* What is printed for "%d\n", "%x\n" and "%p\n".                          *)
LEMMA BeforeTheEnd ==
  ASSUME NEW text \in Seq(Chars)
  PROVE  LET out == text \o <<"\n">> IN SubSeq(out, 1, Len(out) - 1) = text
<1>1. PICK out : out = text \o <<"\n">>
  OBVIOUS
<1>2. "\n" \in Chars
  BY DEF Chars
<1>3. out \in Seq(Chars) /\ Len(out) = Len(text) + 1 /\ \A i \in 1..Len(text) : out[i] = text[i]
  BY <1>1, <1>2
<1>4. PICK n : n = Len(out) - 1
  OBVIOUS
<1>5. n = Len(text) /\ n \in Nat
  BY <1>3, <1>4
<1>6. SubSeq(out, 1, n) \in Seq(Chars) /\ Len(SubSeq(out, 1, n)) = Len(text)
      /\ \A i \in 1..n : SubSeq(out, 1, n)[i] = out[i]
  BY <1>3, <1>5
<1>7. SubSeq(out, 1, n) = text
  BY <1>3, <1>5, <1>6, SeqEqual
<1> QED BY <1>1, <1>4, <1>7

LEMMA AfterPrefix ==
  ASSUME NEW hex \in Seq(Chars), NEW n \in Nat, Len(hex) = n
  PROVE  LET text == <<"0", "x">> \o hex
         IN /\ text \in Seq(Chars) /\ Len(text) = n + 2
            /\ SubSeq(text, 1, 2) = <<"0", "x">> /\ SubSeq(text, 3, Len(text)) = hex
<1>1. PICK text : text = <<"0", "x">> \o hex
  OBVIOUS
<1>2. "0" \in Chars /\ "x" \in Chars
  BY DEF Chars
<1>3. <<"0", "x">> \in Seq(Chars) /\ Len(<<"0", "x">>) = 2
  BY <1>2
<1>4. text \in Seq(Chars) /\ Len(text) = n + 2 /\ text[1] = "0" /\ text[2] = "x"
      /\ \A i \in 1..n : text[i + 2] = hex[i]
  BY <1>1, <1>3
<1>5. SubSeq(text, 1, 2) = <<"0", "x">>
  <2>1. PICK pre : pre = SubSeq(text, 1, 2)
    OBVIOUS
  <2>2. pre \in Seq(Chars) /\ Len(pre) = 2 /\ pre[1] = text[1] /\ pre[2] = text[2]
    BY <1>4, <2>1
  <2>3. \A i \in 1..2 : pre[i] = <<"0", "x">>[i]
    BY <1>4, <2>2
  <2> QED BY <1>3, <2>1, <2>2, <2>3, SeqEqual
<1>6. SubSeq(text, 3, n + 2) = hex
  <2>1. PICK rest : rest = SubSeq(text, 3, n + 2)
    OBVIOUS
  <2>2. rest \in Seq(Chars) /\ Len(rest) = n /\ \A i \in 1..n : rest[i] = text[i + 2]
    BY <1>4, <2>1
  <2>3. \A i \in 1..n : rest[i] = hex[i]
    BY <1>4, <2>2
  <2> QED BY <2>1, <2>2, <2>3, SeqEqual
<1> QED BY <1>1, <1>4, <1>5, <1>6

(* A number on the console reads back as the argument, for ints of every   *)
(* width up to 32 and addresses of any width.                              *)
THEOREM NumbersAreRead == Spec => []NumbersReadBack
<1>1. Spec => []Numbers
  BY Invariance, NumbersInit, NumbersNext, PTL DEF Spec
<1>2. IInv /\ Numbers => NumbersReadBack
  <2> SUFFICES ASSUME IInv, Numbers, NEW t \in Threads, At(t, "body"), Len(th[t].call.args) = 1
               PROVE  LET fmt == th[t].call.fmt
                          arg == th[t].call.args[1]
                          out == Output(fmt, <<arg>>)
                          text == SubSeq(out, 1, Len(out) - 1)
                      IN /\ fmt = <<"%", "d", "\n">> => text # <<>> /\ Numeral(text, 10) = arg
                         /\ fmt = <<"%", "x", "\n">> => text # <<>> /\ Numeral(text, 16) = arg
                         /\ fmt = <<"%", "p", "\n">> =>
                              /\ SubSeq(text, 1, 2) = <<"0", "x">> /\ Len(text) = Nibbles + 2
                              /\ ReadBack(SubSeq(text, 3, Len(text)), 16) = arg
                         /\ fmt \in {<<"%", "d", "\n">>, <<"%", "x", "\n">>} =>
                              Len(text) <= 16 /\ (Head(text) = "0" => arg = 0)
    BY Zenon DEF NumbersReadBack
  <2>1. PICK fmt, arg : fmt = th[t].call.fmt /\ arg = th[t].call.args[1]
    OBVIOUS
  <2>2. PICK out : out = Output(fmt, <<arg>>)
    OBVIOUS
  <2>3. PICK text : text = SubSeq(out, 1, Len(out) - 1)
    OBVIOUS
  <2>4. fmt # Null /\ NumberCall(fmt, th[t].call.args)
    BY <2>1 DEF IInv, ThreadOK, CallOK, Numbers, At, Printing
  <2>5. /\ fmt \in {<<"%", "d", "\n">>, <<"%", "x", "\n">>} => arg \in Ints
        /\ fmt = <<"%", "p", "\n">> => arg \in Pointers
    BY <2>1, <2>4, Zenon DEF NumberCall
  <2>6. ASSUME NEW c \in {"d", "x"}, fmt = <<"%", c, "\n">>
        PROVE  Readable(text, IF c = "d" THEN 10 ELSE 16, arg)
    <3>1. PICK base : base = IF c = "d" THEN 10 ELSE 16
      OBVIOUS
    <3>2. base \in Bases /\ arg \in Ints /\ Convert(c, arg) = Printint(arg, base)
      BY <2>5, <2>6, <3>1 DEF Bases, Convert
    <3>3. PICK s : s = Convert(c, arg)
      OBVIOUS
    <3>4. Readable(s, base, arg) /\ s \in Seq(Chars)
      BY <3>2, <3>3, PrintintReadable DEF Readable
    <3>5. out = s \o <<"\n">>
      BY <2>2, <2>6, <3>3, <3>4, OutputIs
    <3>6. text = s
      BY <2>3, <3>4, <3>5, BeforeTheEnd
    <3> QED BY <3>1, <3>4, <3>6
  <2>7. fmt = <<"%", "d", "\n">> => Readable(text, 10, arg)
    BY <2>6
  <2>8. fmt = <<"%", "x", "\n">> => Readable(text, 16, arg)
    BY <2>6
  <2>9. ASSUME fmt = <<"%", "p", "\n">>
        PROVE  /\ SubSeq(text, 1, 2) = <<"0", "x">> /\ Len(text) = Nibbles + 2
               /\ ReadBack(SubSeq(text, 3, Len(text)), 16) = arg
    <3>1. arg \in Pointers
      BY <2>5, <2>9
    <3>2. PICK hex \in Seq(Chars) : /\ Printptr(arg) = <<"0", "x">> \o hex
                                    /\ Len(hex) = Nibbles /\ ReadBack(hex, 16) = arg
      BY <3>1, PrintptrReads
    <3>3. PICK s : s = <<"0", "x">> \o hex
      OBVIOUS
    <3>4. /\ s \in Seq(Chars) /\ Len(s) = Nibbles + 2
          /\ SubSeq(s, 1, 2) = <<"0", "x">> /\ SubSeq(s, 3, Len(s)) = hex
      BY <3>2, <3>3, AfterPrefix, SizesAssumption
    <3>5. s = Convert("p", arg)
      BY <3>2, <3>3 DEF Convert
    <3>6. out = s \o <<"\n">>
      BY <2>2, <2>9, <3>4, <3>5, OutputIs
    <3>7. text = s
      BY <2>3, <3>4, <3>6, BeforeTheEnd
    <3> QED BY <3>2, <3>4, <3>7
  <2> QED BY <2>1, <2>2, <2>3, <2>7, <2>8, <2>9 DEF Readable
<1> QED BY <1>1, <1>2, Invariance, PTL
=============================================================================
