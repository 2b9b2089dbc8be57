------------------------------ MODULE MCSt7789 ------------------------------
(***************************************************************************)
(* Small instances of St7789.                                              *)
(***************************************************************************)
EXTENDS St7789

\* One pixel, the three of the simulation, and the least number that takes both
\* halves of load_const32.
MCPixelCounts == {1, 3, 4097}

MCOnePixel == {1}

\* The boot ROM's counter with the panel deselected.
MCDeselected == 8 .. 15

\* Any moment of its count.
MCAnyCount == 0 .. 15

=============================================================================
