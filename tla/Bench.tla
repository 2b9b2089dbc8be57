-------------------------------- MODULE Bench -------------------------------
(***************************************************************************)
(* The benches src/test/tb_flash_handoff.v and tb_flash_paging.v, one      *)
(* instruction at a time: the instructions of the boot ROM receive the     *)
(* hand-off stub from a host that keeps a fixed pace, the stub gives the   *)
(* window to the flash, and a test image shows values on the output pins.  *)
(* The same pins drive the blocks of BootRom in step with them, which ties *)
(* the model of the protocol to the words in the ROM.                      *)
(***************************************************************************)
EXTENDS BootRom, Programs

LOCAL INSTANCE SequencesExt

CONSTANTS
  Tests,        \* records of the image in the flash and the values it shows
  StartTimes    \* instructions after which the host raises START

ASSUME BenchAssumption ==
  /\ \A t \in Tests : t.image \in Seq(Word) /\ t.shows \in Seq(MemByte)
  /\ StartTimes \subseteq Nat

VARIABLES
  test,
  rom, pc, regs, ram, mode, page, out, store,  \* the computer of Isa
  stall,        \* instructions left of an access to the PSRAM
  wait,         \* instructions left until START
  seen          \* history: the values stored to the pins in FLASH_MODE

codeVars  == <<rom, pc, regs, ram, mode, page, out, store>>
benchVars == <<vars, test, codeVars, stall, wait, seen>>

RomImage ==
  [w \in 0 .. 63 |-> IF w < Len(BootCode) THEN BootCode[w + 1] ELSE Zeros(32)]


FlashImage(words) ==
  [x \in Index |-> IF Val(x, IdxBits) < 4 * Len(words)
                     THEN ProgramByte(words, Val(x, IdxBits)) ELSE Zeros(8)]

InPins == ToBits((IF START THEN START_MASK ELSE 0)
                   + (IF CLOCK THEN CLOCK_MASK ELSE 0) + DATA, 8)

Core == INSTANCE Isa WITH flash_mode <- mode, flash_page <- page,
          gpio_out <- out, Roms <- {RomImage}, InitRegs <- {}, InitRam <- {},
          GpioIn <- {ToBits(n, 8) : n \in 0 .. 7}

-----------------------------------------------------------------------------
\* An instruction, which an access to the PSRAM makes as long as BootRom has it.
\* (Looking whether the word is one makes TLC evaluate all of it, once.)
Instruction ==
  /\ stall = 0
  /\ \E ir \in {Core!Fetched(InPins)} \cap Word :
       LET a == Core!Accessed(ir)
       IN  /\ Core!Execute(ir, InPins)
           /\ stall' = IF Core!IsAccess(ir) /\ in_ext_psram(a) THEN PsramTime - 1 ELSE 0
           /\ seen' = IF mode /\ Opcode(ir) = OP_STORE /\ a = LED_OUT
                        THEN Append(seen, Val(Reg(regs, Rs2(ir)), 8)) ELSE seen

Stall ==
  /\ stall > 0
  /\ stall' = stall - 1
  /\ UNCHANGED <<codeVars, seen>>

\* The tasks of the bench wait a fixed time before they move a pin.
HostDue ==
  \/ phase = "off" /\ wait = 0
  \/ phase \in {"start", "low", "high"} /\ held = Hold
  \/ phase = "fall" /\ held = Hold /\ (hbit < 7 \/ hbyte < Len(image))

RunCode ==
  /\ ~HostDue
  /\ Chip
  /\ Instruction \/ Stall
  /\ wait' = IF wait = 0 THEN 0 ELSE wait - 1
  /\ UNCHANGED test

Host ==
  /\ HostDue
  /\ HostStart \/ Sending
  /\ UNCHANGED <<test, codeVars, stall, wait, seen>>

BenchInit ==
  /\ Init /\ attached
  /\ test \in Tests
  /\ rom = RomImage
  /\ pc = 0
  /\ regs = [n \in 1 .. 31 |-> Zeros(32)]
  /\ ram = [a \in RAM_BASE .. RAM_BASE + RAM_BYTES - 1 |-> ToBits(mem[a], 8)]
  /\ mode = FALSE /\ page = 0 /\ out = Zeros(8)
  /\ store = [flash |-> FlashImage(test.image),
              psram |-> [x \in Index |->
                IF Val(x, IdxBits) < EXT_PSRAM_BYTES
                  THEN ToBits(mem[EXT_PSRAM_BASE + Val(x, IdxBits)], 8)
                  ELSE Zeros(8)]]
  /\ stall = 0
  /\ wait \in StartTimes
  /\ seen = << >>

BenchNext == RunCode \/ Host

BenchSpec == BenchInit /\ [][BenchNext]_benchVars /\ WF_benchVars(BenchNext)

-----------------------------------------------------------------------------
\* Where the instructions are when the blocks are about to read the pins.
Address(label) ==
  CASE label = "SELFTEST"      -> 0
    [] label = "MAIN_LOOP"     -> MAIN_LOOP
    [] label = "BIT_WAIT_HIGH" -> BIT_WAIT_HIGH
    [] label = "BIT_DATA"      -> BIT_DATA
    [] label = "BIT_WAIT_LOW"  -> BIT_WAIT_LOW
    [] label = "RUN"           -> LOAD_BASE

Cell(a) ==
  IF in_ram_range(a) THEN ram[a]
  ELSE store["psram"][Idx(ToBits(a - EXT_PSRAM_BASE, 24))]

\* The blocks of BootRom are what the words in the ROM do: at each read of the
\* pins, at the same moment, with the same registers, memory and pins.
CodeFollowsBlocks ==
  busy = 0 /\ ~mode =>
    /\ stall = 0
    /\ pc = Address(at)
    /\ at \in {"BIT_WAIT_HIGH", "BIT_DATA", "BIT_WAIT_LOW"} =>
         regs[1] = ToBits(IF x1 = "LENGTH" THEN START_SEEN + 4 ELSE BYTE_LOOP + 8, 32)
    /\ << regs[4], regs[5], regs[6], regs[7], regs[8], regs[9] >>
         = << ToBits(x4, 32), ToBits(x5, 32), ToBits(x6, 32),
              ToBits(x7, 32), ToBits(x8, 32), ToBits(x9, 32) >>
    /\ \A a \in Cells : Cell(a) = ToBits(mem[a], 8)
    /\ out = ToBits(gpio_out, 8)

\* An image in the flash shows its values in order, each of them once.
ShowsInOrder == IsPrefix(seen, test.shows)

\* And all of them, whenever the host raises START.
ShowsAll == <>[](seen = test.shows)

=============================================================================
