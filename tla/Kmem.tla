-------------------------------- MODULE Kmem --------------------------------
(***************************************************************************)
(* The physical page allocator of lab5-cow/kernel/kalloc.c: the struct     *)
(* kmem, and one operator for each critical section under kmem.lock.       *)
(*                                                                         *)
(* The spinlock itself is not a variable.  Everything the code does        *)
(* between acquire(&kmem.lock) and release(&kmem.lock) touches only        *)
(* freelist and mem_rc, so a critical section is one step; what the code   *)
(* does outside the lock (the checks before it, the memset of a page       *)
(* between two critical sections) is a step of its own in the modules      *)
(* that use this one.                                                      *)
(***************************************************************************)
EXTENDS Integers, Sequences

CONSTANTS
  Frames,     (* the physical pages between end and PHYSTOP           *)
  RcMax,      (* the largest value of a signed char: 127 in the build *)
  JunkFree,   (* a page filled with 1, the pattern kfree writes       *)
  JunkAlloc   (* a page filled with 5, the pattern kalloc writes      *)

ASSUME RcMaxAssumption == RcMax \in Nat \ {0}

VARIABLES
  freelist,   (* kmem.freelist, the linked list as a sequence, head first *)
  mem_rc,     (* kmem.mem_rc, the reference count of each page            *)
  mem         (* what each physical page holds                            *)

(* The integer a signed char holds after n is assigned to it.              *)
SignedChar(n) == ((n + RcMax + 1) % (2 * (RcMax + 1))) - (RcMax + 1)

(* The integer an unsigned char holds after n is assigned to it.           *)
UnsignedChar(n) == n % (2 * (RcMax + 1))

(* The argument checks of kfree and cowalloc on a page that is in range.   *)
BadRc(f) == mem_rc[f] <= 0

-----------------------------------------------------------------------------
(* kalloc(): the head of the free list leaves it with one reference.       *)

FreelistEmpty == freelist = <<>> /\ UNCHANGED <<freelist, mem_rc>>

(* Wrong: the head is handed out and stays on the list.                    *)
PopFrameKeeps(f) ==
  /\ freelist # <<>>
  /\ f = Head(freelist)
  /\ mem_rc' = [mem_rc EXCEPT ![f] = 1]
  /\ UNCHANGED freelist

PopFrame(f) ==
  /\ freelist # <<>>
  /\ f = Head(freelist)
  /\ freelist' = Tail(freelist)
  /\ mem_rc' = [mem_rc EXCEPT ![f] = 1]

-----------------------------------------------------------------------------
(* kfree(): a first critical section that ends the call when the page has  *)
(* other references, and a second one, after the memset, that puts a page  *)
(* without references on the free list.                                    *)

(* Wrong: a page with two references is taken for one with a single one.   *)
SharedOffByOne(f) == mem_rc[f] > 2

Shared(f) == mem_rc[f] > 1

DropShared(f) ==
  /\ Shared(f)
  /\ mem_rc' = [mem_rc EXCEPT ![f] = @ - 1]
  /\ UNCHANGED freelist

(* Wrong: a free page keeps its count.                                     *)
PushFrameKeepsRc(f) ==
  /\ freelist' = <<f>> \o freelist
  /\ UNCHANGED mem_rc

PushFrame(f) ==
  /\ mem_rc' = [mem_rc EXCEPT ![f] = 0]
  /\ freelist' = <<f>> \o freelist

-----------------------------------------------------------------------------
(* cowalloc(): one more reference, in a signed char.                       *)

(* Wrong: the new reference is not counted.                                *)
AddRefLost(f) == mem_rc[f] > 0 /\ UNCHANGED <<freelist, mem_rc>>

(* Wrong: the new reference is counted twice.                              *)
AddRefTwice(f) ==
  /\ mem_rc' = [mem_rc EXCEPT ![f] = SignedChar(@ + 2)]
  /\ UNCHANGED freelist

AddRef(f) ==
  /\ mem_rc' = [mem_rc EXCEPT ![f] = SignedChar(@ + 1)]
  /\ UNCHANGED freelist

(* Wrong: the caller's own reference is left out.                          *)
ReadRcOfOthers(f) == UnsignedChar(mem_rc[f] - 1)

(* kmemrc(): the count, read under the lock into an unsigned char.         *)
ReadRc(f) == UnsignedChar(mem_rc[f])

(* memset(pa, junk, PGSIZE) on a page, outside the lock.                   *)
Fill(f, junk) == mem' = [mem EXCEPT ![f] = junk]
=============================================================================
