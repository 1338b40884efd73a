---------------------------- MODULE AddressSpaces ----------------------------
(***************************************************************************)
(* What a process is told about its memory: it has an image of its own,    *)
(* fork gives the child a copy of the parent's image, a store changes one  *)
(* page of one image, sbrk adds pages of zeros or takes pages away at the  *)
(* end, and exec puts a program in the place of an image.  There are no    *)
(* frames, no counts and no sharing.                                       *)
(***************************************************************************)
EXTENDS Naturals

CONSTANTS
  Procs,    (* process slots                                   *)
  MaxSz,    (* the largest image, in pages                     *)
  Data,     (* what a page may hold                            *)
  Zero,     (* a page of zeros, a member of Data               *)
  Images,   (* what the programs look like that exec may load  *)
  Absent,   (* a page above the end of the image               *)
  NoSpace   (* the image of a slot without a process           *)

VARIABLE image

VPages == 0..(MaxSz - 1)

(* An image is a block of pages that starts at page 0.                     *)
HasSize(img, n) == \A v \in VPages : img[v] # Absent <=> v < n

Init ==
  \E p \in Procs :
    /\ image[p] # NoSpace /\ \E n \in 0..MaxSz : HasSize(image[p], n)
    /\ \A q \in Procs \ {p} : image[q] = NoSpace

Store(p, v, d) ==
  /\ image[p][v] # Absent
  /\ image' = [image EXCEPT ![p][v] = d]

Fork(p, c) ==
  /\ image[c] = NoSpace
  /\ image' = [image EXCEPT ![c] = image[p]]

Exit(p) == image' = [image EXCEPT ![p] = NoSpace]

Resize(p, n) ==
  image' = [image EXCEPT ![p] =
              [v \in VPages |->
                 IF v >= n THEN Absent ELSE IF @[v] = Absent THEN Zero ELSE @[v]]]

Exec(p) == \E img \in Images : image' = [image EXCEPT ![p] = img]

Next ==
  \E p \in Procs :
    /\ image[p] # NoSpace
    /\ \/ \E v \in VPages, d \in Data : Store(p, v, d)
       \/ \E c \in Procs : Fork(p, c)
       \/ Exit(p)
       \/ Exec(p)
       \/ \E n \in 0..MaxSz : Resize(p, n)

Spec == Init /\ [][Next]_image
=============================================================================
