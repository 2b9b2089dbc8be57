------------------------------ MODULE Programs ------------------------------
(***************************************************************************)
(* Programs of src/tools, instruction by instruction as their scripts emit *)
(* them: the boot ROM, the hand-off stub that is sent to it, and the two   *)
(* images for the flash that the test benches run, laid out in pages by    *)
(* PagedAsm.  Labels are bus addresses.                                    *)
(***************************************************************************)
EXTENDS Asm, MemMap, Sequences

NOP == ADDI(0, 0, 0)

-----------------------------------------------------------------------------
\* The boot ROM.

SELFTEST_PASS  == 28
MAIN_INIT      == 32
MAIN_LOOP      == 36
START_SEEN     == 68
BYTE_LOOP      == 80
RUN            == 104
RECV_BYTE      == 108
BIT_WAIT_HIGH  == 116
BIT_DATA       == 128
BIT_WAIT_LOW   == 148

DATA_MASK  == 1
CLOCK_MASK == 2
START_MASK == 4

SelfTestCode ==
  << ADDI(2, 0, 165),
     SB(2, 0, EXT_PSRAM_BASE),
     LBU(6, 0, EXT_PSRAM_BASE),
     BEQ(6, 2, 12, SELFTEST_PASS),
     ADDI(8, 0, 1),
     SLLI(8, 8, 7),
     JAL(0, 24, MAIN_INIT),
     ADDI(8, 0, 0),
     ADDI(9, 0, 0) >>

MainLoopCode ==
  << LW(2, 0, SW_IN),
     ANDI(2, 2, START_MASK),
     BNE(2, 0, 44, START_SEEN),
     ADDI(9, 9, 1),
     ANDI(9, 9, 15),
     OR(2, 8, 9),
     SW(2, 0, LED_OUT),
     JAL(0, 64, MAIN_LOOP) >>

BootloadCode ==
  << JAL(1, START_SEEN, RECV_BYTE),
     ADD(4, 6, 0),
     ADDI(5, 0, LOAD_BASE),
     BEQ(4, 0, BYTE_LOOP, RUN),
     JAL(1, 84, RECV_BYTE),
     SB(6, 5, 0),
     ADDI(5, 5, 1),
     ADDI(4, 4, -1),
     JAL(0, 100, BYTE_LOOP),
     JAL(0, RUN, LOAD_BASE) >>

\* Mutant: the accumulator is not cleared.
ClearByteNot == NOP

ClearByte == ADDI(6, 0, 0)

RecvByteCode ==
  << ClearByte,
     ADDI(7, 0, 0),
     LW(2, 0, SW_IN),
     ANDI(2, 2, CLOCK_MASK),
     BEQ(2, 0, 124, BIT_WAIT_HIGH),
     LW(2, 0, SW_IN),
     ANDI(2, 2, DATA_MASK),
     SLLI(6, 6, 1),
     BEQ(2, 0, 140, BIT_WAIT_LOW),
     ORI(6, 6, 1),
     LW(2, 0, SW_IN),
     ANDI(2, 2, CLOCK_MASK),
     BNE(2, 0, 156, BIT_WAIT_LOW),
     ADDI(7, 7, 1),
     ADDI(3, 0, 8),
     BLT(7, 3, 168, BIT_WAIT_HIGH),
     JALR(0, 1, 0) >>

BootCode == SelfTestCode \o MainLoopCode \o BootloadCode \o RecvByteCode

-----------------------------------------------------------------------------
\* Class PagedAsm at the level of instructions, for code with its dead word, if
\* it is that of page 0, in front.

PageWords == WINDOW_BYTES \div 4

PadTo(code, n) == code \o [i \in 1 .. n - Len(code) |-> NOP]

Trampoline == JAL(0, LOAD_BASE + WINDOW_BYTES - 4, LOAD_BASE)

switch_to(code, next) ==
  PadTo(code, PageWords - 3)
    \o << ADDI(30, 0, next), SW(30, 0, FLASH_PAGE), Trampoline >>

switch_to_computed(code) ==
  PadTo(code, PageWords - 2) \o << SW(30, 0, FLASH_PAGE), Trampoline >>

-----------------------------------------------------------------------------
\* The hand-off stub and the images.

Stub == << SW(0, 0, FLASH_MODE) >>

\* Mutant: no word is left for the hand-off to skip.
CanaryNoDead == << ADDI(5, 0, 42), SW(5, 0, LED_OUT), JAL(0, 8, 8) >>

Canary == << NOP, ADDI(5, 0, 42), SW(5, 0, LED_OUT), JAL(0, 12, 12) >>

\* Mutant: x5 is not zeroed, and the boot ROM has left a pointer in it.
FirstPageNoZero == << NOP, ADDI(2, 0, 17), SW(2, 0, LED_OUT) >>

FirstPage == << NOP, ADDI(5, 0, 0), ADDI(2, 0, 17), SW(2, 0, LED_OUT) >>

\* Shown twice: the first time it is itself the next page.
SecondPage ==
  << ADDI(2, 0, 34), SW(2, 0, LED_OUT),
     BNE(5, 0, LOAD_BASE + 8, LOAD_BASE + 24),
     ADDI(5, 0, 1), ADDI(30, 0, 1),
     JAL(0, LOAD_BASE + 20, LOAD_BASE + 28),
     ADDI(30, 0, 2) >>

LastPage ==
  << ADDI(2, 0, 68), SW(2, 0, LED_OUT), JAL(0, LOAD_BASE + 8, LOAD_BASE + 8) >>

PageTest ==
  switch_to(FirstPage, 1)
    \o switch_to_computed(SecondPage)
    \o switch_to(<< ADDI(2, 0, 51), SW(2, 0, LED_OUT) >>, 3)
    \o switch_to(LastPage, 3)

\* Byte n of a program, counted from 0.
ProgramByte(words, n) == Lane(words[(n \div 4) + 1], n % 4)

=============================================================================
