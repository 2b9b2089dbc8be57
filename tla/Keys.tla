-------------------------------- MODULE Keys --------------------------------
(***************************************************************************)
(* What the two keyboard programs promise: the codes a keyboard sends are  *)
(* taken one by one, in order; the reader shows each of them, the ASCII    *)
(* program follows the prefixes and shows the letter of a plain key.  No   *)
(* pages, pins, bits or clocks.                                            *)
(***************************************************************************)
EXTENDS Integers, Sequences

CONSTANTS Codes, Ascii(_)

VARIABLES
  program,      \* "reader" or "ascii"
  waiting,      \* codes sent and not taken yet
  released,     \* a break prefix has come
  extended,     \* an extended prefix has come
  led           \* what the pins show

keysVars == <<program, waiting, released, extended, led>>

BREAK    == 240
EXTENDED == 224

Init ==
  /\ program \in {"reader", "ascii"}
  /\ waiting = << >>
  /\ ~released /\ ~extended
  /\ led \in 0 .. 255

Press ==
  /\ \E c \in Codes : waiting' = Append(waiting, c)
  /\ UNCHANGED <<program, released, extended, led>>

\* The reader shows every code.
Show(c) ==
  /\ program = "reader"
  /\ led' = c
  /\ UNCHANGED <<released, extended>>

\* The code of a released key, extended or not, ends the sequence.
Release(c) ==
  /\ program = "ascii" /\ released
  /\ released' = FALSE /\ extended' = FALSE
  /\ UNCHANGED led

Prefix(c) ==
  /\ program = "ascii" /\ ~released
  /\ \/ c = BREAK /\ released' = TRUE /\ UNCHANGED extended
     \/ c = EXTENDED /\ extended' = TRUE /\ UNCHANGED released
  /\ UNCHANGED led

PlainOrExtended(c) ==
  /\ program = "ascii" /\ ~released /\ c \notin {BREAK, EXTENDED}
  /\ led' = IF extended THEN led ELSE Ascii(c)
  /\ extended' = FALSE
  /\ UNCHANGED released

Take ==
  /\ waiting # << >>
  /\ waiting' = Tail(waiting)
  /\ LET c == Head(waiting)
     IN  Show(c) \/ Release(c) \/ Prefix(c) \/ PlainOrExtended(c)
  /\ UNCHANGED program

Next == Press \/ Take

Safety == Init /\ [][Next]_keysVars

Progress == WF_keysVars(Take)

=============================================================================
