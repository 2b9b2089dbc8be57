----------------------------- MODULE PagedFlash -----------------------------
(***************************************************************************)
(* Programs in pages of the flash (class PagedAsm): the image it lays out, *)
(* and the core that runs it through a window of fixed addresses, one      *)
(* instruction per step.  Words and addresses in the window count from 0,  *)
(* in words; an instruction is what it does to the pc, to x30 and to the   *)
(* two window registers.                                                   *)
(***************************************************************************)
EXTENDS Integers, Sequences

CONSTANTS
  Programs,     \* functions from page numbers, from 0 up, to pages
  InitAim,      \* what register x30 may hold when the program starts
  WindowWords,  \* words of the window
  PageLimit     \* page numbers FLASH_PAGE can hold

VARIABLES
  program,
  flash_mode, flash_page, pc, x30

vars == <<program, flash_mode, flash_page, pc, x30>>

Word(op, arg) == [op |-> op, arg |-> arg]

\* What a page of len words may hold: labels are positions in the page, its end
\* included.
Words(len, pages) ==
  [op : {"plain"}, arg : {0}] \cup [op : {"aim"}, arg : pages]
    \cup [op : {"branch", "jal"}, arg : 0 .. len]

ASSUME PagedAssumption ==
  /\ WindowWords \in Nat \ 0 .. 2
  /\ PageLimit \in Nat \ {0}
  /\ \A prog \in Programs :
       /\ 0 \in DOMAIN prog /\ DOMAIN prog \subseteq Nat
       /\ InitAim \subseteq DOMAIN prog
       /\ \A n \in DOMAIN prog :
            /\ prog[n].code \in Seq(Words(Len(prog[n].code), DOMAIN prog))
            /\ prog[n].computed \in BOOLEAN
            /\ prog[n].next \in DOMAIN prog

-----------------------------------------------------------------------------
\* The layout.

\* Mutant: no room is kept for the jump.
SwitchOffsetLast == WindowWords - 1

SwitchOffset == WindowWords - 2

TrampolineOffset == WindowWords - 1

\* Words of page n before its code: the hand-off never fetches the first word
\* of page 0.
Dead(n) == IF n = 0 THEN 1 ELSE 0

Used(prog, n) == Dead(n) + Len(prog[n].code)

\* Where padding ends: switch_to puts a word of its own before the store.
PadEnd(prog, n) == IF prog[n].computed THEN SwitchOffset ELSE SwitchOffset - 1

\* The assertion of _pad_to.
Fits(prog) == \A n \in DOMAIN prog : Used(prog, n) <= PadEnd(prog, n)

NOP     == Word("plain", 0)
StoreIt == Word("switch", 0)

\* Mutant: the jump's own place is forgotten, and it jumps to itself.
TrampolineSelf == Word("jal", 0)

Trampoline == Word("jal", -TrampolineOffset)

\* Mutant: a label is the address after its instruction.
FixupLate(w, i) ==
  IF w.op \in {"branch", "jal"} THEN Word(w.op, w.arg - i + 1) ELSE w

\* Labels become distances.
Fixup(w, i) ==
  IF w.op \in {"branch", "jal"} THEN Word(w.op, w.arg - i) ELSE w

\* Mutant: code starts at the first word of every page.
PageWordNoDead(prog, n, i) ==
  CASE i < Len(prog[n].code) -> Fixup(prog[n].code[i + 1], i)
    [] i >= Len(prog[n].code) /\ i < PadEnd(prog, n) -> NOP
    [] i >= PadEnd(prog, n) /\ i < SwitchOffset -> Word("aim", prog[n].next)
    [] i = SwitchOffset -> StoreIt
    [] i = TrampolineOffset -> Trampoline

PageWord(prog, n, i) ==
  CASE i < Dead(n) -> NOP
    [] Dead(n) <= i /\ i < Used(prog, n) -> Fixup(prog[n].code[i - Dead(n) + 1], i - Dead(n))
    [] Used(prog, n) <= i /\ i < PadEnd(prog, n) -> NOP
    [] PadEnd(prog, n) <= i /\ i < SwitchOffset -> Word("aim", prog[n].next)
    [] i = SwitchOffset -> StoreIt
    [] i = TrampolineOffset -> Trampoline

\* The flat image: page n starts at word n * WindowWords.
Image(prog, a) == PageWord(prog, a \div WindowWords, a % WindowWords)

-----------------------------------------------------------------------------
\* The core.

\* The only word of the hand-off stub, in the RAM behind the window.
Stub == Word("mode", 0)

Fetch == IF flash_mode THEN Image(program, flash_page * WindowWords + pc) ELSE Stub

HandOff ==
  /\ Fetch.op = "mode"
  /\ flash_mode' = TRUE
  /\ pc' = pc + 1
  /\ UNCHANGED <<program, flash_page, x30>>

Straight ==
  /\ Fetch.op = "plain"
  /\ pc' = pc + 1
  /\ UNCHANGED <<program, flash_mode, flash_page, x30>>

Aim ==
  /\ Fetch.op = "aim"
  /\ x30' = Fetch.arg
  /\ pc' = pc + 1
  /\ UNCHANGED <<program, flash_mode, flash_page>>

Branch ==
  /\ Fetch.op = "branch"
  /\ pc' \in {pc + 1, pc + Fetch.arg}
  /\ UNCHANGED <<program, flash_mode, flash_page, x30>>

Jump ==
  /\ Fetch.op = "jal"
  /\ pc' = pc + Fetch.arg
  /\ UNCHANGED <<program, flash_mode, flash_page, x30>>

\* The store takes the low bits of x30, and the very next fetch is from the
\* page it selects.
Switch ==
  /\ Fetch.op = "switch"
  /\ flash_page' = x30 % PageLimit
  /\ pc' = pc + 1
  /\ UNCHANGED <<program, flash_mode, x30>>

Core == HandOff \/ Straight \/ Aim \/ Branch \/ Jump \/ Switch

\* Reset, and the host loads the stub and runs it again.
Reset ==
  /\ flash_mode' = FALSE
  /\ flash_page' = 0
  /\ pc' = 0
  /\ UNCHANGED <<program, x30>>

Init ==
  /\ program \in {prog \in Programs : Fits(prog)}
  /\ flash_mode = FALSE
  /\ flash_page = 0
  /\ pc = 0
  /\ x30 \in InitAim

Next == Core \/ Reset

\* clk never stops.
Spec == Init /\ [][Next]_vars /\ WF_vars(Core)

-----------------------------------------------------------------------------
TypeOK ==
  /\ program \in Programs
  /\ flash_mode \in BOOLEAN
  /\ flash_page \in DOMAIN program
  /\ pc \in 0 .. TrampolineOffset
  /\ ~flash_mode => pc = 0 /\ flash_page = 0
  /\ x30 \in DOMAIN program

\* No path through a page ended by switch_to(n) gets to the store without the
\* word before it: at the store x30 holds n, whatever labels the code jumps to.
StoreAims ==
  flash_mode /\ pc = SwitchOffset /\ ~program[flash_page].computed
    => x30 = program[flash_page].next

\* Where the program is in its pages: the reserved words at the end of a page
\* count as its end, the jump as the beginning of the page it runs in already.
AtPage == IF flash_mode THEN flash_page ELSE -1

AtIndex ==
  IF ~flash_mode \/ pc = TrampolineOffset \/ pc < Dead(flash_page) THEN 0
  ELSE IF pc >= Used(program, flash_page) THEN Len(program[flash_page].code)
  ELSE pc - Dead(flash_page)

Pgs == INSTANCE Pages WITH page <- AtPage, index <- AtIndex

\* Laid out in pages of a fixed window, with its reserved words and a register
\* that changes the code under the pc, the program does what its pages say.
ImplementsPages == Pgs!Safety

\* It goes on: no padding, no reserved word and no jump of the layout holds a
\* program that has a next word or a next page.
PagesGoOn == Pgs!Progress

=============================================================================
