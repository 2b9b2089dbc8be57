-------------------------------- MODULE Pages -------------------------------
(***************************************************************************)
(* What class PagedAsm promises the author of a program: pages of code     *)
(* that run one after another, a page handing over to the first word of    *)
(* the page it names.  No window, no padding, no reserved words.           *)
(***************************************************************************)
EXTENDS Integers, Sequences

CONSTANTS
  Programs,     \* functions from page numbers, from 0 up, to pages
  InitAim       \* what register x30 may hold when the program starts

VARIABLES
  program,
  page,         \* the page that runs, or Off
  index,        \* how many of its words are behind
  x30           \* the page a computed switch goes to

pagesVars == <<program, page, index, x30>>

Off == -1

Word(op, arg) == [op |-> op, arg |-> arg]

Init ==
  /\ program \in Programs
  /\ page = Off
  /\ index = 0
  /\ x30 \in InitAim

\* The hand-off stub starts page 0.
Start ==
  /\ page = Off
  /\ page' = 0
  /\ index' = 0
  /\ UNCHANGED <<program, x30>>

Code == program[page].code

AtEnd == page # Off /\ index = Len(Code)

\* The next word of the page.  An argument is a page for "aim" and a label for
\* "branch" and "jal": a position in the same page, its end included.
Step ==
  /\ page # Off
  /\ index < Len(Code)
  /\ LET w == Code[index + 1] IN
       /\ x30' = IF w.op = "aim" THEN w.arg ELSE x30
       /\ \/ w.op \in {"plain", "aim", "branch"} /\ index' = index + 1
          \/ w.op \in {"branch", "jal"} /\ index' = w.arg
  /\ UNCHANGED <<program, page>>

\* A page ended by switch_to(n) aims at page n itself.
AimNext ==
  /\ AtEnd
  /\ ~program[page].computed
  /\ x30' = program[page].next
  /\ UNCHANGED <<program, page, index>>

Leave ==
  /\ AtEnd
  /\ program[page].computed \/ x30 = program[page].next
  /\ page' = x30
  /\ index' = 0
  /\ UNCHANGED <<program, x30>>

Reset ==
  /\ page' = Off
  /\ index' = 0
  /\ UNCHANGED <<program, x30>>

Run == Start \/ Step \/ AimNext \/ Leave

Next == Run \/ Reset

Safety == Init /\ [][Next]_pagesVars

Progress == WF_pagesVars(Run)

=============================================================================
