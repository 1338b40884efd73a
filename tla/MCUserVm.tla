------------------------------ MODULE MCUserVm ------------------------------
(* Files for exec: two programs, one of a single page and one of two       *)
(* segments with a part that is not in the file, and the ways in which exec*)
(* gives a file up.                                                        *)
EXTENDS Vmprint

CONSTANTS TextA, TextB

Segment(vaddr, memsz, filesz, text) ==
  [vaddr |-> vaddr, memsz |-> memsz, filesz |-> filesz, text |-> text, readable |-> TRUE]

First == Segment(0, 2, 2, TextA)
Program(segs) == [header |-> TRUE, segs |-> segs, args |-> 1]
Unreadable(seg) == [seg EXCEPT !.readable = FALSE]

Good == {Program(<<First>>), Program(<<First, Segment(2, 3, 1, TextB)>>)}

Bad ==
  {[Program(<<First>>) EXCEPT !.header = FALSE],          (* not ELF           *)
   [Program(<<First>>) EXCEPT !.args = PGSIZE + 1],       (* too many arguments*)
   Program(<<First, Segment(2, 1, 2, TextB)>>),           (* memsz < filesz    *)
   Program(<<First, Segment(3, 1, 1, TextB)>>),           (* not aligned       *)
   Program(<<First, Unreadable(Segment(2, 3, 3, TextB))>>)}

Files == Good \cup Bad
AllTexts == {TextA, TextB}
SbrkSizes == {-16, -5, 3}
BufferPages == {1, USYSCALL}
ScanBases == {0, USYSCALL}
ScanLengths == {-1, 2, 3}
ReadPages == {USYSCALL}
=============================================================================
