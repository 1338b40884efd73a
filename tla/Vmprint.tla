------------------------------- MODULE Vmprint -------------------------------
(***************************************************************************)
(* vmprint of lab3-pgtbl/kernel/vm.c, which exec calls to show the page    *)
(* table of the first process.                                             *)
(***************************************************************************)
EXTENDS UserVm

(* Wrong: the entries are counted from one.                                 *)
LineFromOne(level, i, pte) == [level |-> level, index |-> i + 1, pte |-> pte]

(* " .." for each level, the index, the PTE and what it refers to.          *)
PrintLine(level, i, pte) == [level |-> level, index |-> i, pte |-> pte]

(* vmprint_inner of a table, where Sub is vmprint_inner of the tables below *)
(* it.  A table of the third level refers to pages only (TableShape), so    *)
(* the recursion of the code is three tables deep.                          *)
PrintTable(w, pagetable, level, Sub(_, _)) ==
  LET Line(out, i) ==
        LET pte == w.pt[pagetable][i]
            line == PrintLine(level, i, pte)
        IN IF ~Valid(pte) THEN out
           ELSE IF IsLeaf(pte) THEN Append(out, line)
           ELSE Append(out, line) \o Sub(w, pte.pa)
  IN Loop(Line, << >>, Fan)

PrintPage(w, page) == << >>
PrintLevel2(w, pagetable) == PrintTable(w, pagetable, 2, PrintPage)
PrintLevel1(w, pagetable) == PrintTable(w, pagetable, 1, PrintLevel2)

(* The lines that vmprint prints below the first.                           *)
Vmprint(w, pagetable) == PrintTable(w, pagetable, 0, PrintLevel1)
-----------------------------------------------------------------------------
(* vmprint, read line by line: the index of a line and of the last lines    *)
(* above it of the lower levels are the three parts of an address.  The     *)
(* leaves come in the order of their addresses, each mapped page once.      *)
VmprintShowsMappings ==
  \A p \in Procs : InUse(p) =>
    LET out == Vmprint(m, Root(p))
        Index(k, level) == out[Max({j \in 1..k : out[j].level = level})].index
        VaOf(k) == (Index(k, 0) * Fan + Index(k, 1)) * Fan + out[k].index
        leaves == {k \in DOMAIN out : out[k].level = 2}
    IN /\ {<<VaOf(k), out[k].pte>> : k \in leaves} =
            {<<v, PteAt(m, Root(p), v)>> : v \in {v \in 0..(MAXVA - 1) :
                                                 Valid(PteAt(m, Root(p), v))}}
       /\ \A j, k \in leaves : j < k => VaOf(j) < VaOf(k)
=============================================================================
