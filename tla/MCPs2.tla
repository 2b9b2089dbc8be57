-------------------------------- MODULE MCPs2 -------------------------------
(***************************************************************************)
(* Small instances of Ps2.                                                 *)
(***************************************************************************)
EXTENDS Ps2

\* The letter a, both prefixes, a key without a letter and with as many ones as
\* any key has (Scroll Lock), and a code above the table, whose page number
\* would wrap to EMIT_PAGE.
MCCodes == {28, 240, 224, 126, 255}

=============================================================================
