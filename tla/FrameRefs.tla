------------------------------ MODULE FrameRefs ------------------------------
(***************************************************************************)
(* What kalloc.c promises to its callers, without counts and without a     *)
(* free list: a page is handed out only when nobody refers to it, a        *)
(* reference is only ever added for somebody whom a holder of the page has *)
(* named, and a reference goes away only when its holder gives it up.      *)
(***************************************************************************)
CONSTANTS Frames, Threads, Nothing

VARIABLES
  owners,   (* owners[f]: who holds a reference to page f            *)
  giving    (* giving[t]: the page t is sharing, and with whom       *)

vars == <<owners, giving>>

Init ==
  /\ owners = [f \in Frames |-> {}]
  /\ giving = [t \in Threads |-> Nothing]

Alloc(t, f) ==
  /\ owners[f] = {}
  /\ owners' = [owners EXCEPT ![f] = {t}]
  /\ UNCHANGED giving

Offer(t, u, f) ==
  /\ giving[t] = Nothing
  /\ t \in owners[f] /\ u \notin owners[f]
  /\ giving' = [giving EXCEPT ![t] = <<f, u>>]
  /\ UNCHANGED owners

Share(t, u, f) ==
  /\ giving[t] = <<f, u>>
  /\ t \in owners[f] /\ u \notin owners[f]
  /\ owners' = [owners EXCEPT ![f] = @ \cup {u}]
  /\ giving' = [giving EXCEPT ![t] = Nothing]

Drop(t, f) ==
  /\ giving[t] = Nothing
  /\ t \in owners[f]
  /\ owners' = [owners EXCEPT ![f] = @ \ {t}]
  /\ UNCHANGED giving

Next ==
  \E t \in Threads, f \in Frames :
    \/ Alloc(t, f)
    \/ \E u \in Threads : Offer(t, u, f) \/ Share(t, u, f)
    \/ Drop(t, f)

Spec == Init /\ [][Next]_vars
=============================================================================
