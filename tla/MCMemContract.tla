--------------------------- MODULE MCMemContract ----------------------------
(***************************************************************************)
(* MemContract at the address map of the chip, with distinct bytes in      *)
(* every place of the ROM, the RAM and the data stored.                    *)
(***************************************************************************)
EXTENDS MemContract

Cat(b0, b1, b2, b3) ==
  [i \in 0 .. 31 |-> ToBits(<<b0, b1, b2, b3>>[(i \div 8) + 1], 8)[i % 8]]

MCRoms      == {[w \in 0 .. 63 |-> Cat(4 * w, 4 * w + 1, 4 * w + 2, 4 * w + 3)]}
MCInitWords ==
  {[w \in 0 .. NWORDS - 1 |-> Cat(4 * w + 64, 4 * w + 65, 4 * w + 66, 4 * w + 67)]}
MCStoreData == {Cat(17, 34, 51, 68), Cat(255, 254, 253, 252)}
MCGarbage   == {Zeros(32), [i \in 0 .. 31 |-> 1]}

=============================================================================
