--------------------------------- MODULE Ps2 --------------------------------
(***************************************************************************)
(* The PS/2 programs of src/tools/build_ps2_reader.py and                  *)
(* src/tools/build_ps2_ascii.py, as their pages run from the flash, and    *)
(* the keyboard of src/test/tb_ps2_ascii.v.  Time passes in instructions,  *)
(* which all take as long, the fetch of a word from the flash: an action   *)
(* of the chip is a page, or a round of its polling loop, with its effect  *)
(* at the first instruction; `busy` counts the others, between any two of  *)
(* which the keyboard may move its clock.                                  *)
(***************************************************************************)
EXTENDS Integers, Sequences, FiniteSets

CONSTANTS
  Codes,        \* the scan codes of the keyboard
  Hold,         \* instructions for which it holds each level of its clock
  Gap           \* instructions between two of its frames

Byte == 0 .. 255

ASSUME Ps2Assumption ==
  /\ Codes \subseteq Byte
  /\ Hold \in Nat \ {0}
  /\ Gap \in Nat /\ Gap >= Hold

VARIABLES
  program,              \* "reader" or "ascii"
  \* the chip: FLASH_PAGE, instructions left of the page, and registers:
  \* accumulator, break_pending, ext_pending, translation
  page, busy, x4, x5, x6, x8, gpio_out,
  \* the keyboard: the code it sends or has sent, the bit it is at, its clock,
  \* and for how many instructions it has been so
  code, kbit, clock, held,
  waiting               \* history: codes begun that the program has not taken

regVars  == <<x4, x5, x6, x8, gpio_out>>
keyVars  == <<code, kbit, clock>>
vars     == <<program, page, busy, regVars, keyVars, held, waiting>>

-----------------------------------------------------------------------------
\* The page numbers.

START_LOW        == 1
BIT_PAGES_START  == 3
PARITY_LOW       == BIT_PAGES_START + 16
STOP_HIGH        == PARITY_LOW + 3
RESULT_PAGE      == STOP_HIGH + 1       \* of the reader
PROCESS_BP       == STOP_HIGH + 1       \* of the ASCII program, and what follows
PROCESS_F0       == PROCESS_BP + 1
PROCESS_E0       == PROCESS_F0 + 1
PROCESS_EXTCHECK == PROCESS_E0 + 1
PROCESS_DISPATCH == PROCESS_EXTCHECK + 1
EMIT_PAGE        == PROCESS_DISPATCH + 1
TABLE_START      == EMIT_PAGE + 1
MAX_SAFE_SCANCODE == 255 - TABLE_START

\* Pages that wait for a low clock are odd, for a high one even.
Waits    == START_LOW .. STOP_HIGH
Awaited  == IF page % 2 = 1 THEN 0 ELSE 1
Sampling == {p \in BIT_PAGES_START .. PARITY_LOW - 1 : p % 2 = 1}

SCANCODE_TO_ASCII ==
  {<<28, 97>>, <<50, 98>>, <<33, 99>>, <<35, 100>>, <<36, 101>>, <<43, 102>>,
   <<52, 103>>, <<51, 104>>, <<67, 105>>, <<59, 106>>, <<66, 107>>, <<75, 108>>,
   <<58, 109>>, <<49, 110>>, <<68, 111>>, <<77, 112>>, <<21, 113>>, <<45, 114>>,
   <<27, 115>>, <<44, 116>>, <<60, 117>>, <<42, 118>>, <<29, 119>>, <<34, 120>>,
   <<53, 121>>, <<26, 122>>, <<69, 48>>, <<22, 49>>, <<30, 50>>, <<38, 51>>,
   <<37, 52>>, <<46, 53>>, <<54, 54>>, <<61, 55>>, <<62, 56>>, <<70, 57>>,
   <<41, 32>>, <<90, 13>>, <<102, 8>>, <<13, 9>>, <<78, 45>>, <<85, 61>>,
   <<84, 91>>, <<91, 93>>, <<93, 92>>, <<76, 59>>, <<82, 39>>, <<65, 44>>,
   <<73, 46>>, <<74, 47>>, <<14, 96>>}

Ascii(c) ==
  IF \E e \in SCANCODE_TO_ASCII : e[1] = c
    THEN (CHOOSE e \in SCANCODE_TO_ASCII : e[1] = c)[2] ELSE 0

-----------------------------------------------------------------------------
\* The keyboard, as ps2_send_frame: start bit, eight data bits from the lowest,
\* parity, stop bit, the clock low and high for Hold each.  A bit is put on the
\* data line shortly before its clock falls; the program looks at the line with
\* the clock low only.

BitOf(c, i) == (c \div 2^i) % 2

DATA ==
  CASE kbit = 0      -> 0
    [] kbit \in 1 .. 8 -> BitOf(code, kbit - 1)
    [] kbit = 9      -> 1 - (Cardinality({i \in 0 .. 7 : BitOf(code, i) = 1}) % 2)
    [] kbit = 10     -> 1

Moves(level) ==
  /\ clock' = level
  /\ held' = 0
  /\ UNCHANGED <<program, page, busy, regVars>>

KeyRise ==
  /\ clock = 0
  /\ held >= Hold
  /\ Moves(1)
  /\ UNCHANGED <<code, kbit, waiting>>

KeyFall ==
  /\ clock = 1 /\ kbit < 10
  /\ held >= Hold
  /\ Moves(0)
  /\ kbit' = kbit + 1
  /\ UNCHANGED <<code, waiting>>

KeyPress ==
  /\ clock = 1 /\ kbit = 10
  /\ held >= Gap
  /\ Moves(0)
  /\ kbit' = 0
  /\ code' \in Codes
  /\ waiting' = Append(waiting, code')

-----------------------------------------------------------------------------
\* The chip.

Tick == held' = IF held < Gap THEN held + 1 ELSE held

Takes(n) ==
  /\ busy = 0
  /\ busy' = n - 1
  /\ Tick
  /\ UNCHANGED <<program, keyVars>>

Work ==
  /\ busy > 0
  /\ busy' = busy - 1
  /\ Tick
  /\ UNCHANGED <<program, page, regVars, keyVars, waiting>>

\* Page 0, entered at its second word.
Start ==
  /\ page = 0
  /\ Takes(10)
  /\ page' = START_LOW
  /\ x4' = 0
  /\ IF program = "ascii" THEN x5' = 0 /\ x6' = 0 ELSE UNCHANGED <<x5, x6>>
  /\ UNCHANGED <<x8, gpio_out, waiting>>

\* One round of the loop of wait_clock.
Poll ==
  /\ page \in Waits
  /\ clock # Awaited
  /\ Takes(3)
  /\ UNCHANGED <<page, regVars, waiting>>

Edge ==
  /\ page \in Waits \ Sampling
  /\ clock = Awaited
  /\ Takes(11)
  /\ page' = page + 1
  /\ UNCHANGED <<regVars, waiting>>

\* ORI of a bit.
WithBit(b) == IF BitOf(x4, b) = 1 THEN x4 ELSE x4 + 2^b

\* Mutant: the clock may be in either phase when the bit is read.
SampleEither ==
  /\ page \in Sampling
  /\ Takes(10 + DATA)
  /\ x4' = IF DATA = 1 THEN WithBit((page - BIT_PAGES_START) \div 2) ELSE x4
  /\ page' = page + 1
  /\ UNCHANGED <<x5, x6, x8, gpio_out, waiting>>

\* wait_clock_low_and_sample, after its loop; without the bit ORI is skipped.
Sample ==
  /\ page \in Sampling
  /\ clock = Awaited
  /\ Takes(10 + DATA)
  /\ x4' = IF DATA = 1 THEN WithBit((page - BIT_PAGES_START) \div 2) ELSE x4
  /\ page' = page + 1
  /\ UNCHANGED <<x5, x6, x8, gpio_out, waiting>>

\* A page of the chain after n instructions: the code goes on to the next page,
\* or the program has taken it and listens again.
GoesOn(n, to) ==
  /\ Takes(n)
  /\ page' = to
  /\ UNCHANGED <<x4, waiting>>

Taken(n) ==
  /\ Takes(n)
  /\ page' = START_LOW
  /\ x4' = 0
  /\ waiting' = Tail(waiting)

\* Mutant: goes on to the next page, as the pages before it do.
ResultGoesOn ==
  /\ program = "reader" /\ page = RESULT_PAGE
  /\ gpio_out' = x4
  /\ GoesOn(11, page + 1)
  /\ UNCHANGED <<x5, x6, x8>>

Result ==
  /\ program = "reader" /\ page = RESULT_PAGE
  /\ gpio_out' = x4
  /\ Taken(11)
  /\ UNCHANGED <<x5, x6, x8>>

\* Mutant: a break clears its own flag only.
ProcessBpKeepsExt ==
  /\ program = "ascii" /\ page = PROCESS_BP
  /\ IF x5 = 1 THEN x5' = 0 /\ Taken(10)
               ELSE GoesOn(6, PROCESS_F0) /\ UNCHANGED x5
  /\ UNCHANGED <<x6, x8, gpio_out>>

ProcessBp ==
  /\ program = "ascii" /\ page = PROCESS_BP
  /\ IF x5 = 1 THEN x5' = 0 /\ x6' = 0 /\ Taken(10)
               ELSE GoesOn(6, PROCESS_F0) /\ UNCHANGED <<x5, x6>>
  /\ UNCHANGED <<x8, gpio_out>>

ProcessF0 ==
  /\ page = PROCESS_F0
  /\ IF x4 = 240 THEN x5' = 1 /\ Taken(9)
                 ELSE GoesOn(8, PROCESS_E0) /\ UNCHANGED x5
  /\ UNCHANGED <<x6, x8, gpio_out>>

ProcessE0 ==
  /\ page = PROCESS_E0
  /\ IF x4 = 224 THEN x6' = 1 /\ Taken(9)
                 ELSE GoesOn(8, PROCESS_EXTCHECK) /\ UNCHANGED x6
  /\ UNCHANGED <<x5, x8, gpio_out>>

ProcessExtcheck ==
  /\ page = PROCESS_EXTCHECK
  /\ IF x6 = 1 THEN x6' = 0 /\ Taken(10)
               ELSE GoesOn(7, PROCESS_DISPATCH) /\ UNCHANGED x6
  /\ UNCHANGED <<x5, x8, gpio_out>>

\* Mutant: the page number is not checked before it is cut to eight bits.
ProcessDispatchWraps ==
  /\ page = PROCESS_DISPATCH
  /\ GoesOn(10, (TABLE_START + x4) % 256)
  /\ UNCHANGED <<x5, x6, x8, gpio_out>>

ProcessDispatch ==
  /\ page = PROCESS_DISPATCH
  /\ IF MAX_SAFE_SCANCODE < x4 THEN GoesOn(8, TABLE_START)
                               ELSE GoesOn(10, (TABLE_START + x4) % 256)
  /\ UNCHANGED <<x5, x6, x8, gpio_out>>

Translate ==
  /\ page >= TABLE_START
  /\ x8' = Ascii(page - TABLE_START)
  /\ GoesOn(11, EMIT_PAGE)
  /\ UNCHANGED <<x5, x6, gpio_out>>

\* Mutant: the table has no way back to the listening loop.
EmitStays ==
  /\ page = EMIT_PAGE
  /\ gpio_out' = x8
  /\ GoesOn(11, EMIT_PAGE)
  /\ UNCHANGED <<x5, x6, x8>>

Emit ==
  /\ page = EMIT_PAGE
  /\ gpio_out' = x8
  /\ Taken(11)
  /\ UNCHANGED <<x5, x6, x8>>

Chip == \/ Work \/ Start \/ Poll \/ Edge \/ Sample \/ Result
        \/ ProcessBp \/ ProcessF0 \/ ProcessE0 \/ ProcessExtcheck
        \/ ProcessDispatch \/ Translate \/ Emit

-----------------------------------------------------------------------------
\* The hand-off leaves the boot ROM's verdict and count on the pins and its values
\* in the registers, for which x4 stands.
ChipInit ==
  /\ page = 0 /\ busy = 0
  /\ x4 \in {0, 255} /\ x5 = 0 /\ x6 = 0 /\ x8 = 0
  /\ gpio_out \in {0, 133}

\* The keyboard is at rest, for Gap more instructions at least, as in the benches.
KeyInit == code \in Codes /\ kbit = 10 /\ clock = 1 /\ held = 0

Init ==
  /\ program \in {"reader", "ascii"}
  /\ ChipInit /\ KeyInit
  /\ waiting = << >>

Next == Chip \/ KeyRise \/ KeyFall \/ KeyPress

\* clk never stops, and a keyboard that has begun a frame goes on with it.
Spec == Init /\ [][Next]_vars /\ WF_vars(Chip) /\ WF_vars(KeyRise \/ KeyFall)

-----------------------------------------------------------------------------
TypeOK ==
  /\ program \in {"reader", "ascii"}
  /\ page \in IF program = "reader" THEN 0 .. RESULT_PAGE ELSE Byte
  /\ busy \in 0 .. 10
  /\ x4 \in Byte /\ x5 \in {0, 1} /\ x6 \in {0, 1} /\ x8 \in Byte
  /\ gpio_out \in Byte
  /\ code \in Codes /\ kbit \in 0 .. 10 /\ clock \in {0, 1} /\ held \in 0 .. Gap
  /\ waiting \in Seq(Codes) /\ Len(waiting) <= 2

\* Levels of the clock in a frame, from 0 for the start bit's low one; page p
\* waits for level p - 1.
Level == 2 * kbit + clock

\* No edge is missed and none counted twice: a waiting page has its level before
\* it or has just got it, and between two frames the program is back in time.
\* There is no other way to get in step again: the program counts edges only.
InStep ==
  IF page \in Waits THEN Level = page - 1 \/ (Level + 1) % 22 = page - 1
                    ELSE Level \in {0, 21}

Kb == INSTANCE Keys WITH released <- x5 = 1, extended <- x6 = 1, led <- gpio_out

\* What the pins show follows from the codes sent, taken whole and in order.
ImplementsKeys == Kb!Safety

\* Every code sent is taken: the program never waits for an edge that has gone.
CodesTaken == Kb!Progress

=============================================================================
