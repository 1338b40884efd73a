------------------------------- MODULE Console -------------------------------
(***************************************************************************)
(* printf, panic and backtrace of lab4-traps/kernel/printf.c, called by    *)
(* the threads of the kernel at the same time.                             *)
(*                                                                         *)
(* A character on the console is a step.  pr.locking is read once, at the  *)
(* start of a printf, and panic() clears it with no lock held, so a printf *)
(* may end under another value than it has begun with.  The spinlock and   *)
(* the uart, which hangs once panicked is set, are not in the repository.  *)
(* A printf that no lock protects may be interrupted by a handler that     *)
(* prints: to the console that is one more thread.                         *)
(***************************************************************************)
EXTENDS Integers, Sequences, FiniteSets

CONSTANTS
  Threads,      (* threads of the kernel                                    *)
  Bits,         (* the width of an int, at most that of the code's          *)
  Nibbles,      (* the width of an address, in hexadecimal digits           *)
  Calls,        (* bound: the calls of printf, [fmt, args]                  *)
  Messages,     (* bound: the strings that the kernel panics with           *)
  PGSIZE,       (* the size of a stack, in half frames of two words         *)
  Stacks,       (* bound: the stacks under backtrace, see Backtrace         *)
  Null,         (* the null pointer                                         *)
  Nobody        (* the holder of a free lock                                *)

Ints == -(2^(Bits - 1)) .. 2^(Bits - 1) - 1
Pointers == 0 .. 2^(4 * Nibbles) - 1

ASSUME SizesAssumption ==
  /\ Bits \in 1..32 /\ Nibbles \in Nat \ {0} /\ PGSIZE \in Nat \ {0}
  /\ Nobody \notin Threads

VARIABLES
  lock,         (* the holder of pr.lock                                    *)
  locking,      (* pr.locking                                               *)
  panicked,     (* 1: the uart takes no more characters                     *)
  th,           (* the threads, see Idle                                    *)
  line,         (* history: what has been printed since a thread last took  *)
                (* the lock, as pairs of a thread and a character           *)
  shown         (* history: what panic() has printed for each thread        *)

vars == <<lock, locking, panicked, th, line, shown>>

(* pc: where in printf the thread is; call, todo, locked: the arguments of  *)
(* printf, the characters to come and the local locking; rest: the printfs  *)
(* that panic() has before it; fp and stack: the locals of backtrace, with  *)
(* found as the history of the return addresses that it has printed.        *)
Idle == [pc |-> "idle", call |-> Null, todo |-> <<>>, locked |-> 0, in |-> "kernel",
         rest |-> <<>>, fp |-> 0, stack |-> Null, found |-> <<>>]

At(t, pc) == th[t].pc = pc

Init ==
  /\ lock = Nobody /\ locking = 1 /\ panicked = 0
  /\ th = [t \in Threads |-> Idle]
  /\ line = <<>>
  /\ shown = [t \in Threads |-> <<>>]
-----------------------------------------------------------------------------
(* What printf makes of its arguments.                                      *)

digits == <<"0", "1", "2", "3", "4", "5", "6", "7", "8", "9", "a", "b", "c", "d", "e", "f">>

(* Wrong: a while loop where there is a do loop.                            *)
InBaseOfZero(x, base) ==
  LET f[n \in 0..x] == IF n = 0 THEN <<>> ELSE Append(f[n \div base], digits[(n % base) + 1])
  IN f[x]

InBase(x, base) ==
  LET f[n \in 0..x] ==
        IF n < base THEN <<digits[n + 1]>>
        ELSE Append(f[n \div base], digits[(n % base) + 1])
  IN f[x]

(* -xx of the smallest int is itself; as a uint it is right.                *)
Printint(xx, base) ==
  IF xx < 0 THEN <<"-">> \o InBase((-xx) % 2^Bits, base) ELSE InBase(xx, base)

Printptr(x) ==
  <<"0", "x">> \o [i \in 1..Nibbles |-> digits[((x \div 2^(4 * (Nibbles - i))) % 16) + 1]]

(* The conversions that take an argument, and all of them.                  *)
Taking == {"d", "x", "p", "s"}

Convert(c, arg) ==
  CASE c = "d" -> Printint(arg, 10)
    [] c = "x" -> Printint(arg, 16)
    [] c = "p" -> Printptr(arg)
    [] c = "s" -> IF arg = Null THEN <<"(", "n", "u", "l", "l", ")">> ELSE arg
    [] c = "%" -> <<"%">>
    [] OTHER -> <<"%", c>>

Output(fmt, args) ==
  LET from[i \in 1..(Len(fmt) + 2)] == [k \in 1..(Len(fmt) + 1) |->
        IF i > Len(fmt) THEN <<>>
        ELSE IF fmt[i] # "%" THEN <<fmt[i]>> \o from[i + 1][k]
        ELSE IF i = Len(fmt) THEN <<>>
        ELSE IF fmt[i + 1] \in Taking
             THEN Convert(fmt[i + 1], args[k]) \o from[i + 2][k + 1]
             ELSE Convert(fmt[i + 1], Null) \o from[i + 2][k]]
  IN from[1][1]
-----------------------------------------------------------------------------
(* The state of t on its way into printf, and into panic.                   *)
Calling(r, fmt, args) == [r EXCEPT !.pc = "enter", !.call = [fmt |-> fmt, args |-> args]]

Panicking(r, s) ==
  [Calling(r, <<"p", "a", "n", "i", "c", ":">>, <<>>) EXCEPT
     !.in = "panic", !.rest = <<s, <<"\n">>>>]

(* Wrong: a panic under pr.lock waits for it.                               *)
PanicKeepsLocking(t, s) ==
  /\ th' = [th EXCEPT ![t] = Panicking(@, s)]
  /\ shown' = [shown EXCEPT ![t] = <<>>]
  /\ UNCHANGED <<lock, locking, panicked, line>>

(* Wrong: the console is frozen before the message is out.                  *)
PanicFreezesFirst(t, s) ==
  /\ locking' = 0 /\ panicked' = 1
  /\ th' = [th EXCEPT ![t] = Panicking(@, s)]
  /\ shown' = [shown EXCEPT ![t] = <<>>]
  /\ UNCHANGED <<lock, line>>

Panic(t, s) ==
  /\ locking' = 0
  /\ th' = [th EXCEPT ![t] = Panicking(@, s)]
  /\ shown' = [shown EXCEPT ![t] = <<>>]
  /\ UNCHANGED <<lock, panicked, line>>

Printf(t) ==
  /\ At(t, "idle")
  /\ \E call \in Calls : th' = [th EXCEPT ![t] = Calling(@, call.fmt, call.args)]
  /\ UNCHANGED <<lock, locking, panicked, line, shown>>

KernelPanics(t) == At(t, "idle") /\ \E s \in Messages : Panic(t, s)

ReadLocking(t) ==
  /\ At(t, "enter")
  /\ th' = [th EXCEPT ![t].locked = locking,
                      ![t].pc = IF locking = 1 THEN "acquire" ELSE "begin"]
  /\ UNCHANGED <<lock, locking, panicked, line, shown>>

(* Wrong: the lock excludes nobody.                                         *)
AcquireAnyway(t) ==
  /\ At(t, "acquire") /\ lock # t
  /\ lock' = t
  /\ line' = <<>>
  /\ th' = [th EXCEPT ![t].pc = "begin"]
  /\ UNCHANGED <<locking, panicked, shown>>

Acquire(t) ==
  /\ At(t, "acquire") /\ lock = Nobody
  /\ lock' = t
  /\ line' = <<>>
  /\ th' = [th EXCEPT ![t].pc = "begin"]
  /\ UNCHANGED <<locking, panicked, shown>>

Begin(t) ==
  LET call == th[t].call
  IN /\ At(t, "begin") /\ call.fmt # Null
     /\ th' = [th EXCEPT ![t].pc = "body", ![t].todo = Output(call.fmt, call.args)]
     /\ UNCHANGED <<lock, locking, panicked, line, shown>>

NullFmt(t) == At(t, "begin") /\ th[t].call.fmt = Null /\ Panic(t, <<"n">>)

Consputc(t) ==
  /\ At(t, "body") /\ th[t].todo # <<>> /\ panicked = 0
  /\ th' = [th EXCEPT ![t].todo = Tail(@)]
  /\ line' = IF locking = 1 THEN Append(line, <<t, Head(th[t].todo)>>) ELSE <<>>
  /\ shown' = IF th[t].in = "panic"
              THEN [shown EXCEPT ![t] = Append(@, Head(th[t].todo))] ELSE shown
  /\ UNCHANGED <<lock, locking, panicked>>

(* What printf returns to.                                                  *)
Returned(r) ==
  LET back == [r EXCEPT !.call = Null, !.locked = 0]
  IN CASE r.in = "kernel" -> Idle
       [] r.in = "backtrace" -> [back EXCEPT !.pc = "walk"]
       [] r.in = "panic" /\ r.rest # <<>> ->
            [Calling(back, Head(r.rest), <<>>) EXCEPT !.rest = Tail(@)]
       [] r.in = "panic" /\ r.rest = <<>> -> [back EXCEPT !.pc = "freeze"]

Done(t) == At(t, "body") /\ th[t].todo = <<>>

(* Wrong: pr.locking is read again.                                         *)
ReturnReadsAgain(t) ==
  /\ Done(t)
  /\ lock' = IF locking = 1 THEN Nobody ELSE lock
  /\ th' = [th EXCEPT ![t] = Returned(@)]
  /\ UNCHANGED <<locking, panicked, line, shown>>

Return(t) ==
  /\ Done(t)
  /\ lock' = IF th[t].locked = 1 THEN Nobody ELSE lock
  /\ th' = [th EXCEPT ![t] = Returned(@)]
  /\ UNCHANGED <<locking, panicked, line, shown>>

(* The end of panic(): it spins with the console frozen.                    *)
Freeze(t) ==
  /\ At(t, "freeze")
  /\ panicked' = 1
  /\ th' = [th EXCEPT ![t].pc = "spin"]
  /\ UNCHANGED <<lock, locking, line, shown>>
-----------------------------------------------------------------------------
(* backtrace().  The frames of a stack are a function from frame pointers   *)
(* to the words below them, [ra, fp]; the first is backtrace's own.  The    *)
(* outermost is that of usertrap, which begins at the top of the page: its  *)
(* ra and fp are what the user program had in these registers.              *)
PGROUNDUP(a) == ((a + PGSIZE - 1) \div PGSIZE) * PGSIZE
PGROUNDDOWN(a) == (a \div PGSIZE) * PGSIZE

Inner(stack) == CHOOSE fp \in DOMAIN stack : \A other \in DOMAIN stack : fp <= other

(* A stack is one page; each frame points to the next, up to the top.       *)
ASSUME StacksAssumption ==
  /\ Null \notin Stacks \cup {<<"b", "\n">>, <<"%", "p", "\n">>}
  /\ \A stack \in Stacks :
       LET top == PGROUNDUP(Inner(stack))
       IN /\ DOMAIN stack \subseteq Nat /\ IsFiniteSet(DOMAIN stack) /\ top \in DOMAIN stack
          /\ \A fp \in DOMAIN stack \ {top} :
               /\ PGROUNDDOWN(Inner(stack)) < fp /\ fp < top
               /\ stack[fp].fp \in DOMAIN stack /\ fp < stack[fp].fp
               /\ \A other \in DOMAIN stack : other <= fp \/ stack[fp].fp <= other

(* The arguments of a call are what its format asks for (anything else is   *)
(* undefined in C), so that it prints a string; here a number is of its     *)
(* type when it is all that a line shows.                                   *)
Prints(fmt, args) == Output(fmt, args) \in Seq(STRING)

NumberCall(fmt, args) ==
  Len(args) = 1 =>
    /\ fmt \in {<<"%", "d", "\n">>, <<"%", "x", "\n">>} => args[1] \in Ints
    /\ fmt = <<"%", "p", "\n">> => args[1] \in Pointers

ASSUME CallsAssumption ==
  /\ \A call \in Calls : call.fmt # Null =>
       Prints(call.fmt, call.args) /\ NumberCall(call.fmt, call.args)
  /\ Prints(<<"b", "\n">>, <<>>)
  /\ \A stack \in Stacks : \A fp \in DOMAIN stack :
       Prints(<<"%", "p", "\n">>, <<stack[fp].ra>>) /\ stack[fp].ra \in Pointers

Backtrace(t) ==
  /\ At(t, "idle")
  /\ \E stack \in Stacks :
       th' = [th EXCEPT ![t] = [Calling(@, <<"b", "\n">>, <<>>) EXCEPT
                                  !.in = "backtrace", !.fp = Inner(stack), !.stack = stack]]
  /\ UNCHANGED <<lock, locking, panicked, line, shown>>

(* Every frame is on the page of the first, so its top and bottom are those *)
(* of the first.                                                            *)
(* Wrong: the outermost frame is taken for one of the kernel's.             *)
OnStackOrTop(r) ==
  r.fp >= PGROUNDDOWN(Inner(r.stack)) /\ r.fp <= PGROUNDUP(Inner(r.stack))

OnStack(r) ==
  r.fp >= PGROUNDDOWN(Inner(r.stack)) /\ r.fp < PGROUNDUP(Inner(r.stack))

BacktraceFrame(t) ==
  LET r == th[t]
      frame == r.stack[r.fp]
  IN /\ At(t, "walk") /\ OnStack(r)
     /\ th' = [th EXCEPT ![t] = [Calling(r, <<"%", "p", "\n">>, <<frame.ra>>) EXCEPT
                                   !.fp = frame.fp, !.found = Append(r.found, frame.ra)]]
     /\ UNCHANGED <<lock, locking, panicked, line, shown>>

BacktraceDone(t) ==
  /\ At(t, "walk") /\ ~OnStack(th[t])
  /\ th' = [th EXCEPT ![t] = Idle]
  /\ UNCHANGED <<lock, locking, panicked, line, shown>>
-----------------------------------------------------------------------------
(* What a thread does once it is in printf, panic or backtrace, and all.    *)
Go(t) ==
  \/ ReadLocking(t) \/ Acquire(t)
  \/ Begin(t) \/ NullFmt(t) \/ Consputc(t) \/ Return(t) \/ Freeze(t)
  \/ BacktraceFrame(t) \/ BacktraceDone(t)

Next == \E t \in Threads : Go(t) \/ Printf(t) \/ KernelPanics(t) \/ Backtrace(t)

Spec == Init /\ [][Next]_vars

(* A hart in printf executes its instructions; nothing says that a thread   *)
(* that waits for a spinlock ever gets it.                                  *)
FairSpec == Spec /\ \A t \in Threads : WF_vars(Go(t))
-----------------------------------------------------------------------------
Pcs == {"idle", "enter", "acquire", "begin", "body", "walk", "freeze", "spin"}

(* The type of every variable.                                              *)
TypeOK ==
  /\ lock \in Threads \cup {Nobody}
  /\ locking \in {0, 1} /\ panicked \in {0, 1}
  /\ \A t \in Threads :
       /\ th[t].pc \in Pcs
       /\ th[t].locked \in {0, 1}
       /\ th[t].in \in {"kernel", "backtrace", "panic"}
       /\ th[t].in = "backtrace" <=> th[t].stack \in Stacks
       /\ th[t].in = "panic" => locking = 0
       /\ At(t, "body") => th[t].call.fmt # Null

(* The lines of concurrent printfs are not mixed, as the comment on the     *)
(* lock says: as long as nobody panics, what is on the console since a      *)
(* printf took the lock is the beginning of its own output.  (Nobody prints *)
(* in between without the lock.)                                            *)
LinesWhole ==
  \A t \in Threads : locking = 1 /\ At(t, "body") =>
    /\ \A i \in DOMAIN line : line[i][1] = t
    /\ [i \in DOMAIN line |-> line[i][2]] \o th[t].todo
         = Output(th[t].call.fmt, th[t].call.args)

(* A thread that has left printf holds no lock: each printf that has taken  *)
(* the lock gives it back, though another hart has panicked in between and  *)
(* cleared pr.locking, and no printf gives back one that it has not taken.  *)
LockGivenBack ==
  \A t \in Threads :
    /\ th[t].pc \in {"idle", "walk"} => lock # t
    /\ th[t].pc \in {"begin", "body"} /\ th[t].locked = 1 => lock = t

(* The lock and the threads agree.                                          *)
LockInv == TypeOK /\ LockGivenBack

(* A number on the console is the argument: it has a digit, no leading zero *)
(* unless it is a pointer, fits in buf, and reads back as the int or the    *)
(* address, the smallest int included.                                      *)
DigitAt(text, i) == (CHOOSE d \in 1..16 : digits[d] = text[i]) - 1

ReadBack(text, base) ==
  LET value[i \in 0..Len(text)] ==
        IF i = 0 THEN 0 ELSE base * value[i - 1] + DigitAt(text, i)
  IN value[Len(text)]

Numeral(text, base) ==
  IF text # <<>> /\ Head(text) = "-" THEN -ReadBack(Tail(text), base) ELSE ReadBack(text, base)

NumbersReadBack ==
  \A t \in Threads : At(t, "body") /\ Len(th[t].call.args) = 1 =>
    LET fmt == th[t].call.fmt
        arg == th[t].call.args[1]
        out == Output(fmt, <<arg>>)
        text == SubSeq(out, 1, Len(out) - 1)
    IN /\ fmt = <<"%", "d", "\n">> => text # <<>> /\ Numeral(text, 10) = arg
       /\ fmt = <<"%", "x", "\n">> => text # <<>> /\ Numeral(text, 16) = arg
       /\ fmt = <<"%", "p", "\n">> =>
            /\ SubSeq(text, 1, 2) = <<"0", "x">> /\ Len(text) = Nibbles + 2
            /\ ReadBack(SubSeq(text, 3, Len(text)), 16) = arg
       /\ fmt \in {<<"%", "d", "\n">>, <<"%", "x", "\n">>} =>
            Len(text) <= 16 /\ (Head(text) = "0" => arg = 0)

(* backtrace() ends with the return address of every frame of the kernel,   *)
(* from the inside out, and of none besides: not the outermost, whose words *)
(* are registers of the user program.                                       *)
BacktraceExact ==
  \A t \in Threads : At(t, "walk") /\ ~OnStack(th[t]) =>
    LET stack == th[t].stack
        kernel == {fp \in DOMAIN stack : fp % PGSIZE # 0}
    IN /\ Len(th[t].found) = Cardinality(kernel)
       /\ \A fp \in kernel :
            th[t].found[Cardinality({other \in kernel : other <= fp})] = stack[fp].ra

(* A panic gets its whole message on the console before it freezes it, in   *)
(* whatever state the lock is: a thread that panics under pr.lock does not  *)
(* wait for itself.  When several panic, the one that freezes the console   *)
(* has shown its message.                                                   *)
MessageShown ==
  panicked = 1 /\ \E t \in Threads, s \in Messages \cup {<<"n">>} :
    /\ At(t, "spin")
    /\ shown[t] = <<"p", "a", "n", "i", "c", ":">> \o Output(s, <<>>) \o <<"\n">>

PanicIsSeen == (\E t \in Threads : th[t].in = "panic") ~> MessageShown
=============================================================================
