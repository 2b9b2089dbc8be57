------------------------------- MODULE MCChip -------------------------------
(***************************************************************************)
(* Chip with the address map of the silicon and programs that meet the     *)
(* serial bus in each of its uses.                                         *)
(***************************************************************************)
EXTENDS Chip, MCSoc

ChipPrograms == {
  \* A half stored in the PSRAM and read back by bytes.
  << ADDI(1, 0, -3), SH(1, 0, 229), LBU(2, 0, 230), Spin(12) >>,
  \* The window handed over to the flash, data read from it, and a jump there.
  << SB(0, 0, 248), LHU(2, 0, 188), JAL(5, 8, 184) >> }

\* No program here reads the pins.
MCOnePins == {ToBits(4, 8)}

MCChipRoms == {Image(p) : p \in ChipPrograms}

=============================================================================
