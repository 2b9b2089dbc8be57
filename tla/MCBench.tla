------------------------------ MODULE MCBench -------------------------------
(***************************************************************************)
(* The two benches: the stub over the pins, then the canary or the pages.  *)
(***************************************************************************)
EXTENDS Bench

MCTests ==
  { [image |-> Canary, shows |-> <<42>>],
    [image |-> PageTest, shows |-> <<17, 34, 34, 51, 68>>] }

MCImages == { [i \in 1 .. 4 |-> Val(ProgramByte(Stub, i - 1), 8)] }

MCInitMem == {[a \in Cells |-> 60]}

\* At the start of the self-test, and in the demo loop.
MCStartTimes == {0, 37}

=============================================================================
