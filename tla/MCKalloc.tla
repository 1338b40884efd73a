------------------------------ MODULE MCKalloc ------------------------------
(* A small instance of Kalloc: as many threads as a count may reach before *)
(* it wraps, so the boundary of the signed char is met, and fewer pages    *)
(* than threads, so kalloc() finds the list empty.                         *)
EXTENDS Kalloc

CONSTANTS t1, t2, t3, f1, f2

MCThreads == {t1, t2, t3}
MCFrames == {f1, f2}
=============================================================================
