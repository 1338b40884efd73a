-------------------------------- MODULE Alarm --------------------------------
(***************************************************************************)
(* sigalarm and sigreturn of lab4-traps: the timer branch of usertrap(),   *)
(* sys_sigalarm and sys_sigreturn, and what allocproc, fork, exit and      *)
(* freeproc do to the alarm fields of struct proc.                         *)
(*                                                                         *)
(* A user program is anything that computes, makes system calls and ends   *)
(* every handler with sigreturn, the one rule for handlers.  While p is in *)
(* user mode, frame[p] stands for its registers: the trap saves them in    *)
(* the trapframe and the return restores them.  A system call is one step, *)
(* from its ecall to the return: a timer interrupt in the kernel only      *)
(* yields (kerneltrap() does not know of alarms), and no other process     *)
(* touches the alarm fields or the trapframe of this one.                  *)
(***************************************************************************)
EXTENDS Integers

CONSTANTS
  Procs,        (* slots of the process table                              *)
  Intervals,    (* bound: the first arguments of sigalarm                  *)
  Results,      (* bound: what a0 may hold, 0 and an error or a pid        *)
  Values,       (* bound: what the other registers may hold                *)
  Scratch,      (* bound: what a program may compute in a0                 *)
  MaxSpent,     (* bound: the ticks that spent counts of a late handler    *)
  HandlerMay    (* the calls of {"fork", "exit"} that a handler may make   *)

ASSUME ValuesAssumption ==
  /\ 0 \in Results \cap Values
  /\ Scratch \subseteq Results
  /\ Intervals \subseteq Int

VARIABLES
  used,         (* the slots that hold a process                           *)
  frame,        (* p->trapframe, or the registers in user mode             *)
  guard,        (* p->alarm_guard                                          *)
  ticks,        (* p->ticks                                                *)
  elapsed,      (* p->elapsed_ticks                                        *)
  handler,      (* p->alarm_handler                                        *)
  saved,        (* p->alarm_trapframe                                      *)
  interrupted,  (* history: the registers the handler of p interrupted     *)
  spent         (* history: ticks of p in user mode since sigalarm, or     *)
                (* since the last handler has returned                     *)

alarm == <<guard, ticks, elapsed, handler, saved>>
history == <<interrupted, spent>>
vars == <<used, frame, alarm, history>>

(* Places in the program.  Address 0 may be the entry of a handler.        *)
Main == {"main", "next"}
Handlers == {"zero", "handler"}
Registers == [epc : Main \cup Handlers, a0 : Results, rest : Values]

Start == [epc |-> "main", a0 |-> 0, rest |-> 0]

Armed(p) == handler[p] # "zero" \/ ticks[p] # 0
InHandler(p) == frame[p].epc \in Handlers

(* The instruction after this one.                                         *)
After(epc) == IF epc \in Main THEN CHOOSE m \in Main : m # epc ELSE epc

(* A new interval begins.                                                  *)
Restart(p) == spent' = [spent EXCEPT ![p] = 0]

-----------------------------------------------------------------------------
(* procinit() has left a table of zeros, and one process runs.             *)
Init ==
  /\ \E p \in Procs : used = {p}
  /\ frame = [p \in Procs |-> Start]
  /\ guard = [p \in Procs |-> 0]
  /\ ticks = [p \in Procs |-> 0]
  /\ elapsed = [p \in Procs |-> 0]
  /\ handler = [p \in Procs |-> "zero"]
  /\ saved = [p \in Procs |-> Start]
  /\ interrupted = [p \in Procs |-> Start]
  /\ spent = [p \in Procs |-> 0]

(* The user program computes.                                              *)
Compute(p) ==
  /\ p \in used
  /\ \E a \in Scratch \cup {frame[p].a0}, r \in Values :
       frame' = [frame EXCEPT ![p] =
                   [epc |-> After(@.epc), a0 |-> a, rest |-> r]]
  /\ UNCHANGED <<used, alarm, history>>

(* A timer interrupt in user mode, after the yield().  (One in the kernel  *)
(* only yields: kerneltrap() does not know of alarms.)                     *)

Due(p) == elapsed[p] + 1 >= ticks[p]

(* Wrong: the handler is entered and nothing says that it runs.            *)
FireUnguarded(p) ==
  /\ elapsed' = [elapsed EXCEPT ![p] = 0]
  /\ saved' = [saved EXCEPT ![p] = frame[p]]
  /\ frame' = [frame EXCEPT ![p].epc = handler[p]]
  /\ interrupted' = [interrupted EXCEPT ![p] = frame[p]]
  /\ Restart(p)
  /\ UNCHANGED guard

Fire(p) ==
  /\ guard' = [guard EXCEPT ![p] = 1]
  /\ elapsed' = [elapsed EXCEPT ![p] = 0]
  /\ saved' = [saved EXCEPT ![p] = frame[p]]
  /\ frame' = [frame EXCEPT ![p].epc = handler[p]]
  /\ interrupted' =
       [interrupted EXCEPT ![p] = IF InHandler(p) THEN @ ELSE frame[p]]
  /\ Restart(p)

Count(p) ==
  /\ elapsed' = [elapsed EXCEPT ![p] = @ + 1]
  /\ spent' = [spent EXCEPT ![p] = @ + 1]
  /\ UNCHANGED <<guard, saved, frame, interrupted>>

(* A tick that is not counted: in the handler, where the time of the       *)
(* process is the handler's, or while no alarm is set.                     *)
Ignore(p) ==
  /\ elapsed' = [elapsed EXCEPT ![p] = 0]
  /\ spent' = [spent EXCEPT ![p] =
                 IF Armed(p) /\ ~InHandler(p) /\ @ < MaxSpent
                 THEN @ + 1 ELSE @]
  /\ UNCHANGED <<guard, saved, frame, interrupted>>

(* Wrong: the handler may be entered again before it has returned.         *)
CountingInHandler(p) == Armed(p)

Counting(p) == Armed(p) /\ guard[p] = 0

TickInUser(p) ==
  /\ p \in used
  /\ \/ Counting(p) /\ Due(p) /\ Fire(p)
     \/ Counting(p) /\ ~Due(p) /\ Count(p)
     \/ ~Counting(p) /\ Ignore(p)
  /\ UNCHANGED <<used, ticks, handler>>

-----------------------------------------------------------------------------
(* An ecall steps epc over the instruction; syscall() puts what the call   *)
(* returns in a0 of the trapframe.                                         *)
Ecall(p) == [frame[p] EXCEPT !.epc = After(@)]
Returns(p, regs, value) ==
  frame' = [frame EXCEPT ![p] = [regs EXCEPT !.a0 = value]]

(* Wrong: the ticks of the alarm before this one are counted.              *)
SysSigalarmKeepsElapsed(p, n, fn) ==
  /\ p \in used
  /\ ticks' = [ticks EXCEPT ![p] = n]
  /\ handler' = [handler EXCEPT ![p] = fn]
  /\ Returns(p, Ecall(p), 0)
  /\ Restart(p)
  /\ UNCHANGED <<used, guard, elapsed, saved, interrupted>>

(* Wrong: the count starts one tick before the interval.                   *)
SysSigalarmFromMinusOne(p, n, fn) ==
  /\ p \in used
  /\ ticks' = [ticks EXCEPT ![p] = n]
  /\ handler' = [handler EXCEPT ![p] = fn]
  /\ elapsed' = [elapsed EXCEPT ![p] = -1]
  /\ Returns(p, Ecall(p), 0)
  /\ Restart(p)
  /\ UNCHANGED <<used, guard, saved, interrupted>>

SysSigalarm(p, n, fn) ==
  /\ p \in used
  /\ ticks' = [ticks EXCEPT ![p] = n]
  /\ handler' = [handler EXCEPT ![p] = fn]
  /\ elapsed' = [elapsed EXCEPT ![p] = 0]
  /\ Returns(p, Ecall(p), 0)
  /\ Restart(p)
  /\ UNCHANGED <<used, guard, saved, interrupted>>

(* Wrong: the handler has returned and the guard says that it runs.        *)
SysSigreturnKeepsGuard(p) ==
  /\ p \in used /\ InHandler(p)
  /\ Returns(p, saved[p], 0)
  /\ interrupted' = [interrupted EXCEPT ![p] = Start]
  /\ Restart(p)
  /\ UNCHANGED <<used, guard, ticks, elapsed, handler, saved>>

(* sigreturn puts the saved registers back, epc among them, so the step    *)
(* over the ecall is lost and the return value lands in the restored a0.   *)
SysSigreturn(p) ==
  /\ p \in used /\ InHandler(p)
  /\ guard' = [guard EXCEPT ![p] = 0]
  /\ Returns(p, saved[p], 0)
  /\ interrupted' = [interrupted EXCEPT ![p] = Start]
  /\ Restart(p)
  /\ UNCHANGED <<used, ticks, elapsed, handler, saved>>

(* Wrong: the alarm of the last process in the slot is still set.          *)
AllocprocKeepsAlarm(c) ==
  /\ c \notin used
  /\ used' = used \cup {c}
  /\ Restart(c)
  /\ UNCHANGED <<guard, ticks, elapsed, handler, saved>>

(* allocproc() resets ticks and alarm_handler; the other alarm fields are  *)
(* as the last process in the slot has left them.                          *)
Allocproc(c) ==
  /\ c \notin used
  /\ used' = used \cup {c}
  /\ ticks' = [ticks EXCEPT ![c] = 0]
  /\ handler' = [handler EXCEPT ![c] = "zero"]
  /\ Restart(c)
  /\ UNCHANGED <<guard, elapsed, saved>>

MayCall(p, name) == p \in used /\ (InHandler(p) => name \in HandlerMay)

(* fork() copies the trapframe.  The child of a fork in a handler is in    *)
(* that handler too.                                                       *)
SysFork(p, c) ==
  /\ MayCall(p, "fork")
  /\ Allocproc(c)
  /\ \E pid \in Results \ {0} :
       frame' = [frame EXCEPT ![p] = [Ecall(p) EXCEPT !.a0 = pid],
                              ![c] = [Ecall(p) EXCEPT !.a0 = 0]]
  /\ interrupted' = [interrupted EXCEPT ![c] = interrupted[p]]

(* A new program, from a process that is not in Procs.                     *)
NewProgram(c) ==
  /\ Allocproc(c)
  /\ frame' = [frame EXCEPT ![c] = Start]
  /\ UNCHANGED interrupted

(* No slot, or no memory: fork() returns -1.                               *)
SysForkFails(p) ==
  /\ MayCall(p, "fork")
  /\ \E error \in Results \ {0} : Returns(p, Ecall(p), error)
  /\ UNCHANGED <<used, alarm, history>>

(* exit(), wait() and freeproc(), which leaves the alarm fields alone.     *)
SysExit(p) ==
  /\ MayCall(p, "exit")
  /\ used' = used \ {p}
  /\ frame' = [frame EXCEPT ![p] = Start]
  /\ interrupted' = [interrupted EXCEPT ![p] = Start]
  /\ Restart(p)
  /\ UNCHANGED alarm

-----------------------------------------------------------------------------
Step(p) ==
  \/ Compute(p)
  \/ TickInUser(p)
  \/ \E n \in Intervals, fn \in Handlers : SysSigalarm(p, n, fn)
  \/ SysSigreturn(p)
  \/ \E c \in Procs : SysFork(p, c)
  \/ SysForkFails(p)
  \/ SysExit(p)

Next == \E p \in Procs : Step(p) \/ NewProgram(p)

Spec == Init /\ [][Next]_vars

(* Timer interrupts keep coming to a process that stays in user mode but   *)
(* for the sigreturn of its handler.                                       *)
Fairness == \A p \in Procs : WF_vars(TickInUser(p))
FairSpec == Spec /\ Fairness
-----------------------------------------------------------------------------
(* The type of every variable.                                             *)
TypeOK ==
  /\ used \subseteq Procs
  /\ frame \in [Procs -> Registers]
  /\ guard \in [Procs -> {0, 1}]
  /\ ticks \in [Procs -> Intervals \cup {0}]
  /\ elapsed \in [Procs -> Nat]
  /\ handler \in [Procs -> Handlers]
  /\ saved \in [Procs -> Registers]
  /\ interrupted \in [Procs -> Registers]
  /\ spent \in [Procs -> Nat]

(* alarm_guard is 1 exactly while the handler of the process runs.         *)
GuardIsHandler == \A p \in used : guard[p] = 1 <=> InHandler(p)

(* What the next call or tick relies on: the fields have their types, and  *)
(* the guard says whether the handler runs.                                *)
AlarmInv == TypeOK /\ GuardIsHandler

(* A handler is never late: outside the handler, the user time since       *)
(* sigalarm or since the last handler is less than the interval.  (An      *)
(* interval of 0 or less is one of a single tick.)                         *)
Period(p) == IF ticks[p] > 1 THEN ticks[p] ELSE 1

FiresOnTime ==
  \A p \in used : Armed(p) /\ ~InHandler(p) => spent[p] < Period(p)

(* ... and never early: when a handler is entered, a whole interval of     *)
(* user time has passed, whatever sigalarm calls and handlers came before. *)
NeverEarly ==
  [][\A p \in Procs :
       p \in used /\ ~InHandler(p) /\ frame'[p].epc \in Handlers
         => Armed(p) /\ spent[p] + 1 >= Period(p)]_vars

(* sigreturn goes back to the instruction that the handler interrupted,    *)
(* with every register as the handler found it, whatever handlers, forks   *)
(* and sigalarm calls came in between, except a0: sys_sigreturn restores   *)
(* a0 too, but syscall() then stores what the call returns in it, so the   *)
(* program goes on with 0 there (which a program that was interrupted with *)
(* something else in a0 does not survive).                                 *)
ResumesRegisters ==
  [][\A p \in Procs :
       SysSigreturn(p) => frame'[p] = [interrupted[p] EXCEPT !.a0 = 0]]_vars

(* A program that computes for ever with an alarm set, and whose handlers  *)
(* return, is interrupted again and again (or is in its handler for ever). *)
OtherCall(p) ==
  \/ SysSigalarm(p, ticks'[p], handler'[p])
  \/ \E c \in Procs : SysFork(p, c)
  \/ SysForkFails(p)

AlarmKeepsFiring ==
  \A p \in Procs :
    <>[](p \in used /\ Armed(p)) /\ <>[][~OtherCall(p)]_vars
      => []<>InHandler(p)
=============================================================================
