---------------------------- MODULE MCPagedFlash ----------------------------
(***************************************************************************)
(* Every program of two small pages.                                       *)
(***************************************************************************)
EXTENDS PagedFlash

CONSTANT MaxCode        \* bound: words of code in a page

Codes == UNION {[1 .. len -> Words(len, {0, 1})] : len \in 0 .. MaxCode}

MCPages ==
  [code : Codes, computed : {TRUE}, next : {0}]
    \cup [code : Codes, computed : {FALSE}, next : {0, 1}]

MCPrograms == [{0, 1} -> MCPages]

=============================================================================
