------------------------------ MODULE MCBootRom -----------------------------
(***************************************************************************)
(* Small instances of BootRom.                                             *)
(***************************************************************************)
EXTENDS BootRom

\* No byte; bytes of mixed bits; the last of the RAM and the first of the
\* PSRAM, when LOAD_BASE is 4 bytes below the end of the RAM.
MCImages  == { << >>, <<147>>, <<1, 254, 4, 8, 170>> }
MCInitMem == {[a \in Cells |-> 60]}

=============================================================================
