------------------------------- MODULE St7789 -------------------------------
(***************************************************************************)
(* The display driver of src/tools/build_st7789_flash_image.py, page by    *)
(* page, and a panel on its pins, from power-on: the boot ROM counts on    *)
(* the same four pins until a host starts the program.  Selected, the      *)
(* panel takes bits as src/test/tb_st7789_driver.v captures them.  That it *)
(* drops a byte begun when CS is high, and knows nothing of the chip's     *)
(* reset or of START, is the device's behaviour and not the bench's, which *)
(* keeps its count over CS, clears it on reset and captures from START on. *)
(* An action of the program goes from one store to the pins to the next    *)
(* one; registers are signed numbers of 32 bits.                           *)
(***************************************************************************)
EXTENDS Integers, Sequences

CONSTANTS
  PANEL_WIDTH, PANEL_HEIGHT,
  MADCTL_VALUE, FILL_COLOR,
  PixelCounts,  \* the pixels it may be built to fill
  delay_count,
  StartAt,      \* what the boot ROM may show when the host starts the program
  MaxResets     \* bound: resets in a behaviour

MaxInt == 2147483647
MinInt == -MaxInt - 1
Int32  == MinInt .. MaxInt

ASSUME PanelAssumption ==
  /\ PANEL_WIDTH \in Nat \ {0} /\ PANEL_WIDTH <= 65536
  /\ PANEL_HEIGHT \in Nat \ {0} /\ PANEL_HEIGHT <= 65536

ASSUME ColorAssumption == FILL_COLOR \in Nat /\ FILL_COLOR <= 65535

ASSUME DriverAssumption ==
  /\ MADCTL_VALUE \in 0 .. 255
  /\ \A v \in PixelCounts : v \in Nat \ {0} /\ v < 2^24
  /\ delay_count \in Nat
  /\ StartAt \subseteq 0 .. 15
  /\ MaxResets \in Nat

VARIABLES
  pixel_count,
  on,                   \* the program is running, not the boot ROM
  page, part,           \* FLASH_PAGE, and how far in the page
  x2, x5,
  gpio_out,             \* its low four bits, which the panel is wired to
  nbits, shift,         \* the panel: bits of the byte it is taking
  count, last,          \* history: bytes taken since the start, the last one
  rested,               \* history: rounds of a delay since then
  resets

panelVars == <<nbits, shift, count, last>>
vars == <<pixel_count, on, page, part, x2, x5, gpio_out, panelVars, rested, resets>>

-----------------------------------------------------------------------------
\* The pins and the panel.

SCK(out)  == out % 2
MOSI(out) == (out \div 2) % 2
DC(out)   == (out \div 4) % 2
CS(out)   == out \div 8

\* Not selected, the panel drops what it has of a byte.
Unselected ==
  /\ nbits' = 0 /\ shift' = 0
  /\ UNCHANGED <<count, last, rested>>

\* Selected, it takes a bit whenever SCK rises, and a byte with the eighth.
Captures(out) ==
  IF SCK(gpio_out) = 0 /\ SCK(out) = 1
    THEN IF nbits < 7
           THEN /\ nbits' = nbits + 1
                /\ shift' = 2 * shift + MOSI(out)
                /\ UNCHANGED <<count, last, rested>>
           ELSE /\ nbits' = 0 /\ shift' = 0
                /\ count' = IF on THEN count + 1 ELSE count
                /\ last' = IF on THEN <<DC(out), 2 * shift + MOSI(out)>> ELSE last
                /\ rested' = IF on THEN 0 ELSE rested
    ELSE UNCHANGED <<panelVars, rested>>

\* A store to the pins, and what the panel does about it.
Drives(out) ==
  /\ gpio_out' = out
  /\ IF CS(out) = 1 THEN Unselected ELSE Captures(out)

-----------------------------------------------------------------------------
\* The program.

\* The bytes of the straight part, from page At(k) on; DELAY pages are between
\* the first three.
DC_CMD  == 0
DC_DATA == 4

Sent ==
  << <<DC_CMD, 1>>, <<DC_CMD, 17>>, <<DC_CMD, 58>>, <<DC_DATA, 5>>,
     <<DC_CMD, 54>>, <<DC_DATA, MADCTL_VALUE>>,
     <<DC_CMD, 42>>, <<DC_DATA, 0>>, <<DC_DATA, 0>>,
     <<DC_DATA, (PANEL_WIDTH - 1) \div 256>>, <<DC_DATA, (PANEL_WIDTH - 1) % 256>>,
     <<DC_CMD, 43>>, <<DC_DATA, 0>>, <<DC_DATA, 0>>,
     <<DC_DATA, (PANEL_HEIGHT - 1) \div 256>>, <<DC_DATA, (PANEL_HEIGHT - 1) % 256>>,
     <<DC_CMD, 41>>, <<DC_CMD, 44>>,
     <<DC_DATA, FILL_COLOR \div 256>>, <<DC_DATA, FILL_COLOR % 256>> >>

DELAYS     == {9, 18}
RING_START == 147
RING_LEN   == 16
CTRL_PAGE  == RING_START + RING_LEN
DONE_PAGE  == CTRL_PAGE + 1

BitPages == (1 .. CTRL_PAGE - 1) \ DELAYS

\* The byte page n has a bit of, and which, from the highest.
ByteOf(n) ==
  IF n < 9 THEN 1 ELSE IF n < 18 THEN 2 ELSE 3 + (n - 19) \div 8
BitOf(n) ==
  IF n < 9 THEN n - 1 ELSE IF n < 18 THEN n - 10 ELSE (n - 19) % 8

\* Mutant: the bit is not masked.
setup_val_unmasked(n) ==
  Sent[ByteOf(n)][1] + 2 * (Sent[ByteOf(n)][2] \div 2^(7 - BitOf(n)))

setup_val(n) ==
  LET b == Sent[ByteOf(n)]
  IN  b[1] + 2 * ((b[2] \div 2^(7 - BitOf(n))) % 2)

\* What an ADDI to x0 leaves of a number: its low 12 bits, with their sign.
Immediate(v) == IF v % 4096 < 2048 THEN v % 4096 ELSE (v % 4096) - 4096

\* x - 1 in 32 bits.
Decrement(x) == IF x = MinInt THEN MaxInt ELSE x - 1

\* Mutant: the upper half is left out.
load_low(value) == Immediate(value)

\* SLLI and ADD of two immediates.
load_const32(value) ==
  LET lo == value % 4096
      hi == value \div 4096
  IN  Immediate(lo) + 4096 * Immediate(hi)

Turns(to) == page' = to /\ part' = "setup"

Begin ==
  /\ on /\ page = 0
  /\ x2' = 0
  /\ Drives(x2')
  /\ x5' = load_const32(pixel_count)
  /\ Turns(1)
  /\ UNCHANGED <<pixel_count, on, resets>>

\* Mutant: the store that also lowers SCK is left out.
SetUpNoStore ==
  /\ on /\ page \in BitPages /\ part = "setup"
  /\ x2' = setup_val(page)
  /\ part' = "pulse"
  /\ UNCHANGED <<pixel_count, on, page, x5, gpio_out, panelVars, rested, resets>>

\* First half of a bit: DC and MOSI with SCK low.
SetUp ==
  /\ on /\ page \in BitPages /\ part = "setup"
  /\ x2' = setup_val(page)
  /\ Drives(x2')
  /\ part' = "pulse"
  /\ UNCHANGED <<pixel_count, on, page, x5, resets>>

\* Mutant: SCK rises without the DC bit.
PulseDropsDc ==
  /\ on /\ page \in BitPages /\ part = "pulse"
  /\ x2' = (setup_val(page) % 4) + 1
  /\ Drives(x2')
  /\ Turns(page + 1)
  /\ UNCHANGED <<pixel_count, on, x5, resets>>

\* Second half: the same with SCK high.
Pulse ==
  /\ on /\ page \in BitPages /\ part = "pulse"
  /\ x2' = setup_val(page) + 1
  /\ Drives(x2')
  /\ Turns(page + 1)
  /\ UNCHANGED <<pixel_count, on, x5, resets>>

DelayLoad ==
  /\ on /\ page \in DELAYS /\ part = "setup"
  /\ x2' = Immediate(delay_count)
  /\ part' = "loop"
  /\ UNCHANGED <<pixel_count, on, page, x5, gpio_out, panelVars, rested, resets>>

DelayRound ==
  /\ on /\ page \in DELAYS /\ part = "loop" /\ x2 # 0
  /\ x2' = Decrement(x2)
  /\ rested' = rested + 1
  /\ UNCHANGED <<pixel_count, on, page, part, x5, gpio_out, panelVars, resets>>

DelayDone ==
  /\ on /\ page \in DELAYS /\ part = "loop" /\ x2 = 0
  /\ Turns(page + 1)
  /\ UNCHANGED <<pixel_count, on, x2, x5, gpio_out, panelVars, rested, resets>>

\* Mutant: the loop ends when the counter is read before it is lowered.
ControlLate ==
  /\ on /\ page = CTRL_PAGE
  /\ x5' = Decrement(x5)
  /\ Turns(IF x5 = 0 THEN DONE_PAGE ELSE RING_START)
  /\ UNCHANGED <<pixel_count, on, x2, gpio_out, panelVars, rested, resets>>

Control ==
  /\ on /\ page = CTRL_PAGE
  /\ x5' = Decrement(x5)
  /\ Turns(IF x5' = 0 THEN DONE_PAGE ELSE RING_START)
  /\ UNCHANGED <<pixel_count, on, x2, gpio_out, panelVars, rested, resets>>

Spin ==
  /\ on /\ page = DONE_PAGE
  /\ UNCHANGED vars

Program == Begin \/ SetUp \/ Pulse \/ DelayLoad \/ DelayRound \/ DelayDone
             \/ Control \/ Spin

-----------------------------------------------------------------------------
\* The chip around it.

\* The demo counter of the boot ROM, on the pins of the panel.
Count ==
  /\ ~on
  /\ Drives((gpio_out + 1) % 16)
  /\ UNCHANGED <<pixel_count, on, page, part, x2, x5, resets>>

\* The host sends the stub; x5 is left where the boot ROM stored its last byte.
HandOver ==
  /\ ~on /\ gpio_out \in StartAt
  /\ on' = TRUE
  /\ Turns(0)
  /\ x5' = 184
  /\ UNCHANGED <<pixel_count, x2, gpio_out, nbits, shift, count, last, rested, resets>>

\* The panel is not reset with the chip.  The registers are the boot ROM's until
\* the next start, 0 for whatever it has in them.
Reset ==
  /\ resets < MaxResets
  /\ resets' = resets + 1
  /\ on' = FALSE
  /\ gpio_out' = 0
  /\ Turns(0)
  /\ x2' = 0 /\ x5' = 0
  /\ count' = 0 /\ rested' = 0 /\ last' = <<0, 0>>
  /\ UNCHANGED <<pixel_count, nbits, shift>>

Init ==
  /\ pixel_count \in PixelCounts
  /\ on = FALSE
  /\ page = 0 /\ part = "setup"
  /\ x2 = 0 /\ x5 = 0
  /\ gpio_out = 0
  /\ nbits = 0 /\ shift = 0
  /\ count = 0 /\ last = <<0, 0>>
  /\ rested = 0
  /\ resets = 0

Next == Program \/ Count \/ HandOver \/ Reset

\* clk never stops.
Spec == Init /\ [][Next]_vars /\ WF_vars(Program)

-----------------------------------------------------------------------------
TypeOK ==
  /\ pixel_count \in PixelCounts
  /\ on \in BOOLEAN
  /\ page \in 0 .. DONE_PAGE
  /\ part \in {"setup", "pulse", "loop"}
  /\ x2 \in Int32 /\ x5 \in Int32
  /\ gpio_out \in 0 .. 15
  /\ nbits \in 0 .. 7 /\ shift \in 0 .. 2^nbits - 1
  /\ count \in Nat /\ rested \in Nat
  /\ last \in {0, 1} \X (0 .. 255)
  /\ resets \in 0 .. MaxResets

\* The panel is at the bit the program is at, of the same byte: nothing that
\* happened on the pins before, or in a byte a reset cut short, is left in it.
PanelInStep ==
  on /\ page > 0 =>
    /\ nbits = IF page \in BitPages THEN BitOf(page) ELSE 0
    /\ page \in BitPages => shift = Sent[ByteOf(page)][2] \div 2^(8 - BitOf(page))

\* DC and MOSI are steady when SCK rises, whoever drives the pins.
SteadyAtRise ==
  [][SCK(gpio_out) = 0 /\ SCK(gpio_out') = 1
       => MOSI(gpio_out') = MOSI(gpio_out) /\ DC(gpio_out') = DC(gpio_out)]_vars

\* Each pause before the next command is as long as the program is told to make
\* it.
DelaysKept ==
  [][on /\ count \in {1, 2} /\ count' = count + 1 => rested >= delay_count]_vars

Panel == INSTANCE Display

\* Bit by bit, page by page and across resets, the panel takes what the driver
\* promises.
ImplementsDisplay == Panel!Safety

\* And all of it: the last pixel too is filled, whatever their number.
AllFilled == Panel!Progress

=============================================================================
