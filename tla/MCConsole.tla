------------------------------ MODULE MCConsole ------------------------------
(* Small instances of Console: ints of six bits, addresses of one byte.    *)
EXTENDS Console, TLC

(* Ints of one and two digits and at the ends of their range as %d and %x,  *)
(* some addresses, strings, and the odd formats.                            *)
SomeCalls ==
  [fmt : {<<"%", c, "\n">> : c \in {"d", "x"}}, args : {<<n>> : n \in {-32, -31, -10, -1, 0, 7, 10, 16, 31}}]
  \cup [fmt : {<<"%", "p", "\n">>}, args : {<<n>> : n \in {0, 9, 171, 255}}]
  \cup [fmt : {<<"s", "%", "s", "%", "d">>}, args : {<<Null, 0>>, <<<<"v">>, -1>>}]
  \cup [fmt : {<<"%", "%", "%", "q">>, <<"u", "%">>, Null}, args : {<<>>}]

SomeMessages == {<<"f", "%", "%">>}

(* Two pages, from 8 to 16 and from 16 to 24.  The fp of the outermost      *)
(* frame is the user's: nowhere, or on this very stack.                     *)
SomeStacks ==
  { (10 :> [ra |-> 1, fp |-> 12]) @@ (12 :> [ra |-> 2, fp |-> 15])
      @@ (15 :> [ra |-> 3, fp |-> 16]) @@ (16 :> [ra |-> 9, fp |-> user]) : user \in {0, 10} }
  \cup { (23 :> [ra |-> 4, fp |-> 24]) @@ (24 :> [ra |-> 9, fp |-> 0]) }

ThreadSymmetry == Permutations(Threads)
=============================================================================
