------------------------------ MODULE Display -------------------------------
(***************************************************************************)
(* What the display driver promises: whenever it is started, the panel     *)
(* takes the commands that bring it up, with a pause after the first two,  *)
(* and then the colour of every pixel, each byte once and in order.  No    *)
(* pages, pins or clock edges.                                             *)
(***************************************************************************)
EXTENDS Integers, Sequences

CONSTANTS
  PANEL_WIDTH, PANEL_HEIGHT,
  MADCTL_VALUE, FILL_COLOR,
  delay_count   \* rounds of the pause

VARIABLES
  pixel_count,
  on,           \* the driver is running
  count,        \* bytes the panel has taken since the driver was started
  last,         \* the last of them, and what DC said it was
  rested        \* rounds of waiting since then

displayVars == <<pixel_count, on, count, last, rested>>

CMD(b)  == <<0, b>>
DATA(b) == <<1, b>>

Commands ==
  << CMD(1), CMD(17), CMD(58), DATA(5), CMD(54), DATA(MADCTL_VALUE),
     CMD(42), DATA(0), DATA(0),
     DATA((PANEL_WIDTH - 1) \div 256), DATA((PANEL_WIDTH - 1) % 256),
     CMD(43), DATA(0), DATA(0),
     DATA((PANEL_HEIGHT - 1) \div 256), DATA((PANEL_HEIGHT - 1) % 256),
     CMD(41), CMD(44) >>

Color == << DATA(FILL_COLOR \div 256), DATA(FILL_COLOR % 256) >>

\* Byte n of all it sends.
Item(n) ==
  IF n <= Len(Commands) THEN Commands[n] ELSE Color[1 + ((n - Len(Commands) - 1) % 2)]

Total == Len(Commands) + 2 * pixel_count

Pausing == count \in {1, 2} /\ rested < delay_count

Init ==
  /\ pixel_count \in Nat \ {0}
  /\ ~on
  /\ count = 0 /\ rested = 0
  /\ last = CMD(0)

Start ==
  /\ ~on
  /\ on' = TRUE
  /\ UNCHANGED <<pixel_count, count, last, rested>>

Pause ==
  /\ on /\ Pausing
  /\ rested' = rested + 1
  /\ UNCHANGED <<pixel_count, on, count, last>>

Receive ==
  /\ on /\ ~Pausing
  /\ count < Total
  /\ count' = count + 1
  /\ last' = Item(count')
  /\ rested' = 0
  /\ UNCHANGED <<pixel_count, on>>

Stop ==
  /\ on' = FALSE
  /\ count' = 0 /\ rested' = 0
  /\ last' = CMD(0)
  /\ UNCHANGED pixel_count

Next == Start \/ Pause \/ Receive \/ Stop

Safety == Init /\ [][Next]_displayVars

Progress == WF_displayVars(Pause \/ Receive)

=============================================================================
