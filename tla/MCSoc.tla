------------------------------- MODULE MCSoc --------------------------------
(***************************************************************************)
(* Soc with the address map of the chip and small programs in its ROM,     *)
(* each aimed at one thing that fetches, loads and stores can meet.        *)
(***************************************************************************)
EXTENDS Soc, Asm, Sequences

Image(words) ==
  [w \in 0 .. 63 |-> IF w < Len(words) THEN words[w + 1] ELSE Zeros(32)]

Spin(at) == JAL(0, at, at)

Programs == {
  \* Halves and bytes of the RAM, over a word boundary and at the last byte.
  << ADDI(1, 0, -3), SH(1, 0, 179), LHU(2, 0, 179), LW(3, 0, 180),
     SB(2, 0, 223), LB(1, 0, 223), Spin(24) >>,
  \* Words and halves of the PSRAM.
  << LUI(1, 74565), ADDI(1, 1, 1656), SW(1, 0, 228), LH(2, 0, 229),
     SH(2, 0, 237), LBU(3, 0, 238), Spin(24) >>,
  \* Instructions stored into the RAM, then executed there.
  << LW(1, 0, 24), SW(1, 0, 180), LW(1, 0, 28), SW(1, 0, 184),
     JAL(5, 16, 180), Spin(20), ADDI(2, 2, 1), JALR(0, 5, 0) >>,
  \* The window handed over to the flash, then a page switched under the pc.
  << SB(0, 0, 248), LHU(2, 0, 188), SH(2, 0, 177), JAL(5, 12, 180) >>,
  \* Polling the pins, then fetching over them and over the end of the bus.
  << LW(1, 0, 244), ANDI(1, 1, 4), BEQ(1, 0, 8, 0), SW(1, 0, 240),
     JAL(0, 16, 240) >>,
  \* Branches on signed and unsigned orders, and a jump to an odd address.
  << ADDI(1, 0, -1), ADDI(2, 0, 29), BLT(1, 2, 8, 16), Spin(12),
     BGEU(1, 2, 16, 24), Spin(20), SRAI(3, 1, 4), JALR(4, 2, 0) >>,
  \* Instructions stored into the PSRAM, then executed there.
  << LW(1, 0, 20), SW(1, 0, 236), JAL(5, 8, 236), Spin(12), Spin(16),
     JALR(6, 5, 1) >>,
  \* Past the last word of the RAM.
  << LH(1, 0, 223), Spin(4) >> }

\* Page 0 switches to page 1, whose next words are at the same bus address.
FlashCode ==
  LET page0 == << ADDI(3, 0, 1), SB(3, 0, 252), Spin(188) >>
      page1 == << ToBits(305419896, 32), ToBits(305419896, 32),
                   SB(3, 0, 181), LBU(4, 0, 183), Spin(196) >>
  IN  [x \in 0 .. 63 |->
         IF x < 12 THEN Lane(page0[(x \div 4) + 1], x % 4)
         ELSE IF x \in 44 .. 63
           THEN Lane(page1[((x - 44) \div 4) + 1], x % 4)
         ELSE ToBits(x, 8)]

MCRoms      == {Image(p) : p \in Programs}

MCInitRegs  == {[n \in 1 .. 31 |-> ToBits(41 * n, 32)]}
MCInitWords == {[w \in 0 .. NWORDS - 1 |-> ToBits(19088743 * (w + 1), 32)]}
MCGpioIn    == {ToBits(0, 8), ToBits(4, 8)}
MCGarbage   == {Zeros(32), [i \in 0 .. 31 |-> 1]}
MCInitStore ==
  {[d \in Dev |-> [x \in Index |->
      IF d = "flash" THEN FlashCode[Val(x, IdxBits)]
      ELSE ToBits(11 * Val(x, IdxBits) + 128, 8)]]}

\* Every read of the windows, and the writes these programs make.
MCAccess ==
  [we : {FALSE}, dev : {"flash"}, addr : {ToBits(x, 24) : x \in 0 .. 87},
   wdata : {Zeros(32)}, size : Size]
  \cup
  [we : {FALSE}, dev : {"psram"}, addr : {ToBits(x, 24) : x \in 0 .. 15},
   wdata : {Zeros(32)}, size : Size]
  \cup
  [we : {TRUE}, dev : {"psram"}, addr : {ToBits(x, 24) : x \in 0 .. 15},
   wdata : {ToBits(305419896, 32), ToBits(13398, 32),
            JALR(6, 5, 1)}, size : Size]

=============================================================================
