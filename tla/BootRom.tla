------------------------------- MODULE BootRom ------------------------------
(***************************************************************************)
(* The program in the boot ROM (src/tools/build_boot_rom.py) and the host  *)
(* that talks to it over ui_in.  Time passes in instructions: an action    *)
(* of the chip runs the code from one read of the pins to the next, its    *)
(* effect shows at the first of its instructions, and `busy` counts the    *)
(* rest of them, between any two of which the host may move a pin.         *)
(* Registers are numbers; the numbers stored are bytes.                    *)
(***************************************************************************)
EXTENDS MemMap, Sequences

CONSTANTS
  Images,       \* the programs a host may send, as sequences of bytes
  Careful,      \* hosts send only what fits the memory behind the window
  InitMem,      \* contents of the RAM and of the PSRAM window at power-on
  Hold,         \* instructions for which the host leaves its pins alone
  PsramTime,    \* instructions for which a store to the PSRAM stalls the core
  MaxResets     \* bound: resets in a behaviour

MemByte == 0 .. 255
Cells   == RAM_BASE .. EXT_PSRAM_BASE + EXT_PSRAM_BYTES - 1

ASSUME BootAssumption ==
  /\ \A p \in Images : p \in Seq(MemByte) /\ Len(p) <= 255
  /\ Careful \in BOOLEAN
  /\ RAM_BASE + RAM_BYTES = EXT_PSRAM_BASE /\ EXT_PSRAM_BYTES > 0
  /\ InitMem \subseteq [Cells -> MemByte]
  /\ Hold \in Nat \ {0}
  /\ PsramTime \in Nat \ {0}
  /\ MaxResets \in Nat

VARIABLES
  \* the chip: where the next read of the pins is, and the registers it has
  \* a use for: return address, bytes left, pointer, byte, bits of it, verdict
  \* of the self-test and demo counter
  at, busy, x1, x4, x5, x6, x7, x8, x9,
  mem, gpio_out, flash_mode, flash_page,
  attached,                     \* there is a PSRAM
  \* the host: its program, the bit it is at, what it does with it, and for how
  \* many instructions it has
  image, hbyte, hbit, phase, held,
  resets

regVars  == <<x1, x4, x5, x6, x7, x8, x9>>
memVars  == <<mem, gpio_out, flash_mode, flash_page>>
chipVars == <<at, busy, regVars, memVars, attached>>
hostVars == <<image, hbyte, hbit, phase, held>>
vars     == <<chipVars, hostVars, resets>>

Label == {"SELFTEST", "MAIN_LOOP", "BIT_WAIT_HIGH", "BIT_DATA", "BIT_WAIT_LOW", "RUN"}
Phase == {"off", "start", "low", "high", "fall"}

SELFTEST_PATTERN == 165

-----------------------------------------------------------------------------
\* The pins.

\* Byte n of what the host sends: the length, then the program.
Sent(n) == IF n = 0 THEN Len(image) ELSE image[n]

START == phase # "off"
CLOCK == phase = "high"
DATA  == IF phase \in {"low", "high", "fall"}
           THEN (Sent(hbyte) \div 2^(7 - hbit)) % 2 ELSE 0

-----------------------------------------------------------------------------
\* The chip.

\* The first of n instructions; the others follow.
Takes(n) ==
  /\ busy = 0
  /\ busy' = n - 1
  /\ held' = IF held < Hold THEN held + 1 ELSE held
  /\ UNCHANGED <<attached, image, hbyte, hbit, phase, resets>>

Work ==
  /\ busy > 0
  /\ busy' = busy - 1
  /\ held' = IF held < Hold THEN held + 1 ELSE held
  /\ UNCHANGED <<at, regVars, memVars, attached, image, hbyte, hbit, phase, resets>>

\* SB of b at address a.
StoreByte(a, b) ==
  /\ mem' = IF in_ram(a, flash_mode) \/ (in_ext_psram(a) /\ attached)
              THEN [mem EXCEPT ![a] = b] ELSE mem
  /\ gpio_out' = IF a = LED_OUT THEN b ELSE gpio_out
  /\ flash_mode' = (flash_mode \/ a = FLASH_MODE)
  /\ flash_page' = IF a = FLASH_PAGE THEN b ELSE flash_page

StoreTime(a) == IF in_ext_psram(a) THEN PsramTime ELSE 1

\* With no device the probe reads zeros, and says so in two more instructions.
SelfTestTime == 2 * PsramTime + (IF attached THEN 4 ELSE 6)

SelfTest ==
  /\ at = "SELFTEST"
  /\ Takes(SelfTestTime)
  /\ at' = "MAIN_LOOP"
  /\ StoreByte(EXT_PSRAM_BASE, SELFTEST_PATTERN)
  /\ x6' = IF attached THEN SELFTEST_PATTERN ELSE 0
  /\ x8' = IF attached THEN 0 ELSE 128
  /\ x9' = 0
  /\ UNCHANGED <<x1, x4, x5, x7>>

Count ==
  /\ at = "MAIN_LOOP"
  /\ ~START
  /\ Takes(8)
  /\ x9' = (x9 + 1) % 16
  /\ gpio_out' = x8 + x9'
  /\ UNCHANGED <<at, x1, x4, x5, x6, x7, x8, mem, flash_mode, flash_page>>

\* Mutant: the accumulator is not cleared.
BeginKeepsByte ==
  /\ at = "MAIN_LOOP"
  /\ START
  /\ Takes(6)
  /\ at' = "BIT_WAIT_HIGH"
  /\ x1' = "LENGTH"
  /\ x7' = 0
  /\ UNCHANGED <<x4, x5, x6, x8, x9, memVars>>

Begin ==
  /\ at = "MAIN_LOOP"
  /\ START
  /\ Takes(6)
  /\ at' = "BIT_WAIT_HIGH"
  /\ x1' = "LENGTH"
  /\ x6' = 0
  /\ x7' = 0
  /\ UNCHANGED <<x4, x5, x8, x9, memVars>>

WaitHigh ==
  /\ at = "BIT_WAIT_HIGH"
  /\ Takes(3)
  /\ at' = IF CLOCK THEN "BIT_DATA" ELSE at
  /\ UNCHANGED <<regVars, memVars>>

ReadData ==
  /\ at = "BIT_DATA"
  /\ Takes(4 + DATA)
  /\ at' = "BIT_WAIT_LOW"
  /\ x6' = 2 * x6 + DATA
  /\ UNCHANGED <<x1, x4, x5, x7, x8, x9, memVars>>

WaitLow ==
  /\ at = "BIT_WAIT_LOW"
  /\ CLOCK
  /\ Takes(3)
  /\ UNCHANGED <<at, regVars, memVars>>

\* Mutant: the low phase of the clock is not waited for.
NextBitEarly ==
  /\ at = "BIT_WAIT_LOW"
  /\ x7 < 7
  /\ Takes(6)
  /\ at' = "BIT_WAIT_HIGH"
  /\ x7' = x7 + 1
  /\ UNCHANGED <<x1, x4, x5, x6, x8, x9, memVars>>

NextBit ==
  /\ at = "BIT_WAIT_LOW"
  /\ ~CLOCK
  /\ x7 < 7
  /\ Takes(6)
  /\ at' = "BIT_WAIT_HIGH"
  /\ x7' = x7 + 1
  /\ UNCHANGED <<x1, x4, x5, x6, x8, x9, memVars>>

\* BYTE_LOOP, entered n instructions after the read: run the program, or call
\* RECV_BYTE for one more byte.
ByteLoop(n, left) ==
  IF left = 0
    THEN /\ Takes(n + 2)
         /\ at' = "RUN"
         /\ x7' = x7 + 1
         /\ UNCHANGED <<x1, x6>>
    ELSE /\ Takes(n + 4)
         /\ at' = "BIT_WAIT_HIGH"
         /\ x1' = "BYTE"
         /\ x6' = 0
         /\ x7' = 0

GotLength ==
  /\ at = "BIT_WAIT_LOW"
  /\ ~CLOCK
  /\ x7 = 7
  /\ x1 = "LENGTH"
  /\ x4' = x6
  /\ x5' = LOAD_BASE
  /\ ByteLoop(9, x6)
  /\ UNCHANGED <<x8, x9, memVars>>

\* Mutant: the pointer is not advanced.
GotByteStays ==
  /\ at = "BIT_WAIT_LOW"
  /\ ~CLOCK
  /\ x7 = 7
  /\ x1 = "BYTE"
  /\ StoreByte(x5 % 256, x6)
  /\ x5' = x5
  /\ x4' = x4 - 1
  /\ ByteLoop(10 + StoreTime(x5 % 256), x4 - 1)
  /\ UNCHANGED <<x8, x9>>

\* Mutant: the bytes left are not counted.
GotByteUncounted ==
  /\ at = "BIT_WAIT_LOW"
  /\ ~CLOCK
  /\ x7 = 7
  /\ x1 = "BYTE"
  /\ StoreByte(x5 % 256, x6)
  /\ x5' = x5 + 1
  /\ x4' = x4
  /\ ByteLoop(10 + StoreTime(x5 % 256), x4)
  /\ UNCHANGED <<x8, x9>>

GotByte ==
  /\ at = "BIT_WAIT_LOW"
  /\ ~CLOCK
  /\ x7 = 7
  /\ x1 = "BYTE"
  /\ StoreByte(x5 % 256, x6)
  /\ x5' = x5 + 1
  /\ x4' = x4 - 1
  /\ ByteLoop(10 + StoreTime(x5 % 256), x4 - 1)
  /\ UNCHANGED <<x8, x9>>

\* The program loaded: the tight loop of src/test/tb_check.v stands for it.
Loaded ==
  /\ at = "RUN"
  /\ Takes(1)
  /\ UNCHANGED <<at, regVars, memVars>>

Chip == \/ Work \/ SelfTest \/ Count \/ Begin \/ WaitHigh \/ ReadData
        \/ WaitLow \/ NextBit \/ GotLength \/ GotByte \/ Loaded

-----------------------------------------------------------------------------
\* The host, as send_bit of src/test/tb_check.v: data with the clock low, the
\* clock high, the clock low again, each for at least Hold instructions.

HostMoves(to) ==
  /\ phase' = to
  /\ held' = 0
  /\ UNCHANGED <<chipVars, image, resets>>

HostStart ==
  /\ phase = "off"
  /\ HostMoves("start")
  /\ UNCHANGED <<hbyte, hbit>>

HostNextBit ==
  /\ held = Hold
  /\ HostMoves("low")
  /\ \/ /\ phase = "start"
        /\ UNCHANGED <<hbyte, hbit>>
     \/ /\ phase = "fall"
        /\ hbit < 7
        /\ hbit' = hbit + 1
        /\ UNCHANGED hbyte
     \/ /\ phase = "fall"
        /\ hbit = 7
        /\ hbyte < Len(image)
        /\ hbyte' = hbyte + 1
        /\ hbit' = 0

HostRaise ==
  /\ phase = "low"
  /\ held = Hold
  /\ HostMoves("high")
  /\ UNCHANGED <<hbyte, hbit>>

HostLower ==
  /\ phase = "high"
  /\ held = Hold
  /\ HostMoves("fall")
  /\ UNCHANGED <<hbyte, hbit>>

Sending == HostNextBit \/ HostRaise \/ HostLower

-----------------------------------------------------------------------------
\* The window and, when there is one, the PSRAM behind it hold the program.
Fits(p) ==
  LOAD_BASE + Len(p) <= (IF attached THEN EXT_PSRAM_BASE + EXT_PSRAM_BYTES
                         ELSE RAM_BASE + RAM_BYTES)

Sendable == {p \in Images : Careful => Fits(p)}

\* The host resets the chip and starts over, at any instruction of a load.
Reset ==
  /\ resets < MaxResets
  /\ resets' = resets + 1
  /\ at' = "SELFTEST"
  /\ busy' = 0
  /\ gpio_out' = 0
  /\ flash_mode' = FALSE
  /\ flash_page' = 0
  /\ image' \in Sendable
  /\ hbyte' = 0 /\ hbit' = 0
  /\ phase' = "off"
  /\ held' = 0
  /\ UNCHANGED <<regVars, mem, attached>>

Init ==
  /\ at = "SELFTEST" /\ busy = 0
  /\ x1 = "LENGTH" /\ x4 = 0 /\ x5 = 0 /\ x6 = 0 /\ x7 = 0 /\ x8 = 0 /\ x9 = 0
  /\ mem \in InitMem
  /\ gpio_out = 0 /\ flash_mode = FALSE /\ flash_page = 0
  /\ attached \in BOOLEAN
  /\ image \in Sendable
  /\ hbyte = 0 /\ hbit = 0
  /\ phase = "off"
  /\ held = 0
  /\ resets = 0

Next == Chip \/ HostStart \/ Sending \/ Reset

Spec == Init /\ [][Next]_vars

\* clk never stops, and a host that has begun a load goes on with it.
FairSpec == Spec /\ WF_vars(Chip) /\ WF_vars(Sending)

-----------------------------------------------------------------------------
TypeOK ==
  /\ at \in Label /\ busy \in Nat
  /\ x1 \in {"LENGTH", "BYTE"}
  /\ x4 \in MemByte /\ x5 \in 0 .. LOAD_BASE + 255
  /\ x6 \in MemByte /\ x7 \in 0 .. 8
  /\ x8 \in {0, 128} /\ x9 \in 0 .. 15
  /\ mem \in [Cells -> MemByte]
  /\ gpio_out \in MemByte /\ flash_mode \in BOOLEAN /\ flash_page \in MemByte
  /\ attached \in BOOLEAN
  /\ image \in Images
  /\ hbyte \in 0 .. Len(image) /\ hbit \in 0 .. 7
  /\ phase \in Phase
  /\ held \in 0 .. Hold
  /\ resets \in 0 .. MaxResets

\* The byte of the present load that the chip is receiving.
Receiving == IF x1 = "LENGTH" THEN 0 ELSE 1 + (x5 - LOAD_BASE)

HostAt(phases, byte, i) == phase \in phases /\ hbyte = byte /\ hbit = i

\* Host and chip are at the same bit of the same byte whenever the chip reads
\* the clock or the data: no pulse is missed and none is taken twice.
BitsInStep ==
  /\ at = "BIT_WAIT_HIGH" =>
       \/ HostAt({"low", "high"}, Receiving, x7)
       \/ HostAt({"start"}, 0, 0) /\ Receiving = 0 /\ x7 = 0
       \/ x7 > 0 /\ HostAt({"fall"}, Receiving, x7 - 1)
       \/ x7 = 0 /\ Receiving > 0 /\ HostAt({"fall"}, Receiving - 1, 7)
  /\ at \in {"BIT_DATA", "BIT_WAIT_LOW"} => HostAt({"high", "fall"}, Receiving, x7)

\* A load that the host begins is run, unless it resets the chip before.
LoadRuns == phase = "start" ~> (at = "RUN" \/ phase = "off")

stage == IF at \in {"SELFTEST", "MAIN_LOOP"} THEN "listen"
         ELSE IF at = "RUN" THEN "run" ELSE "load"

\* The bytes the chip has stored in the present load.
Stored == IF stage = "listen" \/ x1 = "LENGTH" THEN 0 ELSE x5 - LOAD_BASE

loaded == [i \in 1 .. Stored |-> mem[LOAD_BASE + i - 1]]

Protocol == INSTANCE Loader WITH led <- gpio_out

\* Bit by bit, the chip and a host that gives it time carry out the protocol:
\* what runs is the image the host sent.
ImplementsLoader == Protocol!Spec

\* "The boot ROM itself never touches FLASH_MODE."
FlashModeUntouched == ~flash_mode

=============================================================================
