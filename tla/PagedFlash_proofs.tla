-------------------------- MODULE PagedFlash_proofs -------------------------
(***************************************************************************)
(* Theorems about PagedFlash, for every window, every set of programs and  *)
(* every code in their pages.  One hypothesis: page numbers fit FLASH_PAGE.*)
(***************************************************************************)
EXTENDS PagedFlash, TLAPS

Numbered == \A prog \in Programs : DOMAIN prog \subseteq 0 .. PageLimit - 1

PagedIInv == TypeOK /\ Fits(program) /\ StoreAims

-----------------------------------------------------------------------------
\* The flat image, read back at page n and word i.

LEMMA FlatImage ==
  ASSUME NEW prog, NEW n \in Nat, NEW i \in 0 .. TrampolineOffset
  PROVE  Image(prog, n * WindowWords + i) = PageWord(prog, n, i)
<1>1. WindowWords \in Nat /\ i \in 0 .. WindowWords - 1
  BY PagedAssumption DEF TrampolineOffset
<1>2. \A w \in Nat : i \in 0 .. w - 1 =>
        (n * w + i) \div w = n /\ (n * w + i) % w = i
  OBVIOUS
<1> QED
  BY <1>1, <1>2 DEF Image

\* The five regions of a page, and the word in each of them.
DeadWord(prog, n, i)  == i < Dead(n) /\ PageWord(prog, n, i) = NOP

CodeWord(prog, n, i) ==
  /\ Dead(n) <= i /\ i < Used(prog, n)
  /\ i - Dead(n) + 1 \in 1 .. Len(prog[n].code)
  /\ prog[n].code[i - Dead(n) + 1] \in Words(Len(prog[n].code), DOMAIN prog)
  /\ PageWord(prog, n, i) = Fixup(prog[n].code[i - Dead(n) + 1], i - Dead(n))

Padding(prog, n, i) ==
  Used(prog, n) <= i /\ i < PadEnd(prog, n) /\ PageWord(prog, n, i) = NOP

AimWord(prog, n, i) ==
  /\ ~prog[n].computed
  /\ i = PadEnd(prog, n) /\ i = SwitchOffset - 1
  /\ PageWord(prog, n, i) = Word("aim", prog[n].next)

StoreWord(prog, n, i) == i = SwitchOffset /\ PageWord(prog, n, i) = StoreIt

JumpWord(prog, n, i) == i = TrampolineOffset /\ PageWord(prog, n, i) = Trampoline

LEMMA Sizes ==
  ASSUME NEW prog \in Programs, Fits(prog), NEW n \in DOMAIN prog
  PROVE  /\ n \in Nat /\ Dead(n) \in 0 .. 1
         /\ Len(prog[n].code) \in Nat
         /\ Used(prog, n) = Dead(n) + Len(prog[n].code)
         /\ Used(prog, n) <= PadEnd(prog, n)
         /\ PadEnd(prog, n) \in {SwitchOffset - 1, SwitchOffset}
         /\ prog[n].computed => PadEnd(prog, n) = SwitchOffset
         /\ ~prog[n].computed => PadEnd(prog, n) = SwitchOffset - 1
         /\ SwitchOffset \in Nat /\ SwitchOffset >= 1
         /\ TrampolineOffset = SwitchOffset + 1
<1>1. prog[n].code \in Seq(Words(Len(prog[n].code), DOMAIN prog)) /\ n \in Nat
  BY PagedAssumption
<1>2. Len(prog[n].code) \in Nat
  BY <1>1
<1>3. Dead(n) \in 0 .. 1
  BY DEF Dead
<1>4. /\ SwitchOffset \in Nat /\ SwitchOffset >= 1
      /\ TrampolineOffset = SwitchOffset + 1
  BY PagedAssumption DEF SwitchOffset, TrampolineOffset
<1> QED
  BY <1>1, <1>2, <1>3, <1>4 DEF Fits, Used, PadEnd

LEMMA Regions ==
  ASSUME NEW prog \in Programs, Fits(prog), NEW n \in DOMAIN prog,
         NEW i \in 0 .. TrampolineOffset
  PROVE  \/ DeadWord(prog, n, i) \/ CodeWord(prog, n, i) \/ Padding(prog, n, i)
         \/ AimWord(prog, n, i) \/ StoreWord(prog, n, i) \/ JumpWord(prog, n, i)
<1> DEFINE len == Len(prog[n].code)
           word == prog[n].code[i - Dead(n) + 1]
<1>0. /\ n \in Nat /\ Dead(n) \in 0 .. 1 /\ len \in Nat
      /\ Used(prog, n) = Dead(n) + len /\ Used(prog, n) <= PadEnd(prog, n)
      /\ PadEnd(prog, n) \in {SwitchOffset - 1, SwitchOffset}
      /\ prog[n].computed => PadEnd(prog, n) = SwitchOffset
      /\ SwitchOffset \in Nat /\ SwitchOffset >= 1
      /\ TrampolineOffset = SwitchOffset + 1
  BY Sizes
<1>1. CASE i < Dead(n)
  BY <1>0, <1>1 DEF DeadWord, PageWord
<1>2. CASE Dead(n) <= i /\ i < Used(prog, n)
  <2>1. i - Dead(n) + 1 \in 1 .. len
    BY <1>0, <1>2
  <2>2. word \in Words(len, DOMAIN prog)
    <3>1. prog[n].code \in Seq(Words(len, DOMAIN prog))
      BY PagedAssumption
    <3> QED
      BY <2>1, <3>1
  <2>3. PageWord(prog, n, i) = Fixup(word, i - Dead(n))
    BY <1>0, <1>2 DEF PageWord
  <2> QED
    BY <1>2, <2>1, <2>2, <2>3 DEF CodeWord
<1>3. CASE Used(prog, n) <= i /\ i < PadEnd(prog, n)
  BY <1>0, <1>3 DEF Padding, PageWord
<1>4. CASE PadEnd(prog, n) <= i /\ i < SwitchOffset
  BY <1>0, <1>4 DEF AimWord, PageWord
<1>5. CASE i = SwitchOffset
  BY <1>0, <1>5 DEF StoreWord, PageWord
<1>6. CASE i = TrampolineOffset
  BY <1>0, <1>6 DEF JumpWord, PageWord
<1> QED
  BY <1>0, <1>1, <1>2, <1>3, <1>4, <1>5, <1>6

-----------------------------------------------------------------------------
\* What the core may fetch from a page, and where from.

InCode(k) ==
  /\ Dead(flash_page) <= pc /\ pc < Used(program, flash_page)
  /\ k = pc - Dead(flash_page)
  /\ k + 1 \in 1 .. Len(program[flash_page].code)

LEMMA CodeFetched ==
  ASSUME PagedIInv, CodeWord(program, flash_page, pc),
         Fetch = PageWord(program, flash_page, pc)
  PROVE  \E k \in Nat :
           /\ InCode(k)
           /\ LET w == program[flash_page].code[k + 1] IN
                \/ w.op = "plain" /\ Fetch.op = "plain"
                \/ w.op = "aim" /\ Fetch = w /\ w.arg \in DOMAIN program
                \/ /\ w.op \in {"branch", "jal"} /\ Fetch.op = w.op
                   /\ w.arg \in 0 .. Len(program[flash_page].code)
                   /\ pc + Fetch.arg = Dead(flash_page) + w.arg
<1> DEFINE k == pc - Dead(flash_page)
           w == program[flash_page].code[k + 1]
           len == Len(program[flash_page].code)
<1>1. /\ program \in Programs /\ Fits(program)
      /\ flash_page \in DOMAIN program /\ pc \in 0 .. TrampolineOffset
  BY DEF PagedIInv, TypeOK
<1>2. Dead(flash_page) \in 0 .. 1 /\ len \in Nat /\ TrampolineOffset \in Nat
  BY <1>1, Sizes
<1>3. k \in Nat /\ InCode(k) /\ w \in Words(len, DOMAIN program) /\ Fetch = Fixup(w, k)
  BY <1>1, <1>2 DEF CodeWord, InCode
<1>4. CASE w \in [op : {"plain"}, arg : {0}]
  BY <1>3, <1>4 DEF Fixup
<1>5. CASE w \in [op : {"aim"}, arg : DOMAIN program]
  BY <1>3, <1>5 DEF Fixup
<1>6. CASE w \in [op : {"branch", "jal"}, arg : 0 .. len]
  <2>1. w.op \in {"branch", "jal"} /\ w.arg \in 0 .. len
    BY <1>6
  <2>2. Fetch.op = w.op /\ Fetch.arg = w.arg - k
    BY <1>3, <2>1 DEF Fixup, Word
  <2>3. pc + Fetch.arg = Dead(flash_page) + w.arg
    BY <1>1, <1>2, <2>1, <2>2
  <2> QED
    BY <1>3, <2>1, <2>2, <2>3
<1> QED
  BY <1>3, <1>4, <1>5, <1>6 DEF Words

LEMMA Fetched ==
  ASSUME PagedIInv, flash_mode
  PROVE  \/ pc < Dead(flash_page) /\ Fetch = NOP
         \/ CodeWord(program, flash_page, pc) /\ Fetch = PageWord(program, flash_page, pc)
         \/ /\ Used(program, flash_page) <= pc /\ pc < PadEnd(program, flash_page)
            /\ Fetch = NOP
         \/ /\ ~program[flash_page].computed
            /\ pc = PadEnd(program, flash_page) /\ pc = SwitchOffset - 1
            /\ Fetch = Word("aim", program[flash_page].next)
         \/ pc = SwitchOffset /\ Fetch = StoreIt
         \/ pc = TrampolineOffset /\ Fetch = Trampoline
<1>1. /\ program \in Programs /\ Fits(program)
      /\ flash_page \in DOMAIN program /\ pc \in 0 .. TrampolineOffset
  BY DEF PagedIInv, TypeOK
<1>2. flash_page \in Nat
  BY <1>1, PagedAssumption
<1>3. Fetch = PageWord(program, flash_page, pc)
  BY <1>1, <1>2, FlatImage DEF Fetch
<1> QED
  BY <1>1, <1>3, Regions
     DEF DeadWord, Padding, AimWord, StoreWord, JumpWord

-----------------------------------------------------------------------------
\* The invariant, action by action.

LEMMA InitInv == Init => PagedIInv
<1> SUFFICES ASSUME Init PROVE PagedIInv
  OBVIOUS
<1>1. /\ program \in Programs /\ Fits(program)
      /\ 0 \in DOMAIN program /\ InitAim \subseteq DOMAIN program
      /\ 0 \in 0 .. TrampolineOffset
  BY PagedAssumption DEF Init, TrampolineOffset
<1>2. ~flash_mode /\ flash_mode \in BOOLEAN /\ pc = 0 /\ flash_page = 0 /\ x30 \in InitAim
  BY DEF Init
<1> QED
  BY <1>1, <1>2 DEF PagedIInv, TypeOK, StoreAims

\* The words the pc can be at after one that only moves it.
LEMMA Landing ==
  ASSUME PagedIInv, flash_mode,
         UNCHANGED <<program, flash_mode, flash_page>>, x30' \in DOMAIN program,
         pc' \in 0 .. TrampolineOffset,
         pc' = SwitchOffset /\ ~program[flash_page].computed
           => x30' = program[flash_page].next
  PROVE  PagedIInv'
BY DEF PagedIInv, TypeOK, StoreAims, Fits, Used, Dead, PadEnd

LEMMA StepInv ==
  ASSUME Numbered, PagedIInv, [Next]_vars
  PROVE  PagedIInv'
<1> DEFINE n == flash_page
           len == Len(program[n].code)
<1>0. /\ program \in Programs /\ Fits(program)
      /\ n \in DOMAIN program /\ x30 \in DOMAIN program
      /\ pc \in 0 .. TrampolineOffset
      /\ flash_mode \in BOOLEAN /\ (~flash_mode => pc = 0 /\ n = 0)
  BY DEF PagedIInv, TypeOK
<1>s. /\ n \in Nat /\ Dead(n) \in 0 .. 1 /\ len \in Nat
      /\ Used(program, n) = Dead(n) + len
      /\ Used(program, n) <= PadEnd(program, n)
      /\ PadEnd(program, n) \in {SwitchOffset - 1, SwitchOffset}
      /\ program[n].computed => PadEnd(program, n) = SwitchOffset
      /\ ~program[n].computed => PadEnd(program, n) = SwitchOffset - 1
      /\ SwitchOffset \in Nat /\ SwitchOffset >= 1
      /\ TrampolineOffset = SwitchOffset + 1
  BY <1>0, Sizes
<1>w. 0 \in DOMAIN program /\ x30 \in 0 .. PageLimit - 1 /\ PageLimit \in Nat
  BY <1>0, PagedAssumption DEF Numbered
<1>1. CASE HandOff
  <2>1. ~flash_mode
    <3> SUFFICES ASSUME flash_mode PROVE FALSE
      BY <1>0
    <3>1. Fetch.op = "mode"
      BY <1>1 DEF HandOff
    <3> QED
      BY <3>1, Fetched, CodeFetched DEF NOP, StoreIt, Trampoline, Word
  <2>2. pc' = 1 /\ flash_mode' /\ UNCHANGED <<program, flash_page, x30>>
    BY <1>0, <1>1, <2>1 DEF HandOff
  <2>3. pc' = SwitchOffset /\ ~program[n].computed => FALSE
    <3>1. Dead(n) = 1
      BY <1>0, <2>1 DEF Dead
    <3> QED
      BY <1>s, <2>2, <3>1
  <2>4. pc' \in 0 .. TrampolineOffset
    BY <1>s, <2>2
  <2> QED
    BY <1>0, <2>2, <2>3, <2>4 DEF PagedIInv, TypeOK, StoreAims, Fits, Used, Dead, PadEnd
<1>2. CASE Straight
  <2>1. flash_mode /\ Fetch.op = "plain"
    BY <1>0, <1>2 DEF Straight, Fetch, Stub, Word
  <2>2. pc < PadEnd(program, n)
    <3>1. CASE CodeWord(program, n, pc)
      BY <1>0, <1>s, <3>1 DEF CodeWord
    <3>2. CASE ~CodeWord(program, n, pc)
      BY <1>0, <1>s, <2>1, <3>2, Fetched DEF StoreIt, Trampoline, Word
    <3> QED
      BY <3>1, <3>2
  <2>3. pc' = pc + 1 /\ UNCHANGED <<program, flash_mode, flash_page, x30>>
    BY <1>2 DEF Straight
  <2>4. pc' \in 0 .. TrampolineOffset
        /\ (pc' = SwitchOffset => program[n].computed)
    BY <1>0, <1>s, <2>2, <2>3
  <2> QED
    BY <1>0, <2>1, <2>3, <2>4, Landing
<1>3. CASE Aim
  <2>1. flash_mode /\ Fetch.op = "aim"
    BY <1>0, <1>3 DEF Aim, Fetch, Stub, Word
  <2>2. x30' = Fetch.arg /\ pc' = pc + 1 /\ UNCHANGED <<program, flash_mode, flash_page>>
    BY <1>3 DEF Aim
  <2>3. CASE CodeWord(program, n, pc)
    <3>1. pc < PadEnd(program, n)
      BY <1>0, <1>s, <2>3 DEF CodeWord
    <3>2. Fetch.arg \in DOMAIN program \/ pc = TrampolineOffset \/ pc = SwitchOffset
      BY <2>1, <2>3, Fetched, CodeFetched, <1>0, <1>s DEF NOP, StoreIt, Trampoline, Word, CodeWord
    <3>3. Fetch.arg \in DOMAIN program
      BY <1>s, <3>1, <3>2, <1>0
    <3>4. pc' \in 0 .. TrampolineOffset
          /\ (pc' = SwitchOffset => program[n].computed)
      BY <1>0, <1>s, <3>1, <2>2
    <3> QED
      BY <1>0, <2>1, <2>2, <3>3, <3>4, Landing
  <2>4. CASE ~CodeWord(program, n, pc)
    <3>1. ~program[n].computed /\ pc = SwitchOffset - 1 /\ Fetch.arg = program[n].next
      BY <2>1, <2>4, Fetched DEF NOP, StoreIt, Trampoline, Word
    <3>2. program[n].next \in DOMAIN program
      BY <1>0, PagedAssumption
    <3>3. pc' \in 0 .. TrampolineOffset
      BY <1>0, <1>s, <2>2, <3>1
    <3> QED
      BY <2>1, <2>2, <3>1, <3>2, <3>3, Landing
  <2> QED
    BY <2>3, <2>4
<1>4. CASE Branch \/ Jump
  <2>1. flash_mode /\ Fetch.op \in {"branch", "jal"}
    BY <1>0, <1>4 DEF Branch, Jump, Fetch, Stub, Word
  <2>2. /\ pc' \in {pc + 1, pc + Fetch.arg}
        /\ Fetch.op = "jal" => pc' = pc + Fetch.arg
        /\ UNCHANGED <<program, flash_mode, flash_page, x30>>
    BY <1>4 DEF Branch, Jump
  <2>3. CASE CodeWord(program, n, pc)
    <3>1. pc + 1 <= Used(program, n)
      BY <1>0, <1>s, <2>3 DEF CodeWord
    <3>2. pc # TrampolineOffset /\ pc # SwitchOffset
      BY <1>0, <1>s, <3>1
    <3>3. Fetch = PageWord(program, n, pc)
      BY <2>1, <2>3, <3>2, Fetched DEF NOP, StoreIt, Word
    <3>4. \E to \in 0 .. len : pc + Fetch.arg = Dead(n) + to
      BY <2>1, <2>3, <3>3, CodeFetched
    <3>5. pc' \in 0 .. Used(program, n)
      BY <1>0, <1>s, <2>2, <3>1, <3>4
    <3>6. pc' \in 0 .. TrampolineOffset
          /\ (pc' = SwitchOffset => program[n].computed)
      BY <1>s, <3>5
    <3> QED
      BY <1>0, <2>1, <2>2, <3>6, Landing
  <2>4. CASE ~CodeWord(program, n, pc)
    <3>1. pc = TrampolineOffset /\ Fetch = Trampoline
      BY <2>1, <2>4, Fetched DEF NOP, StoreIt, Word
    <3>2. pc' = 0
      BY <1>s, <2>2, <3>1 DEF Trampoline, Word
    <3>3. pc' \in 0 .. TrampolineOffset /\ pc' # SwitchOffset
      BY <1>s, <3>2
    <3> QED
      BY <1>0, <2>1, <2>2, <3>3, Landing
  <2> QED
    BY <2>3, <2>4
<1>5. CASE Switch
  <2>1. flash_mode /\ Fetch.op = "switch"
    BY <1>0, <1>5 DEF Switch, Fetch, Stub, Word
  <2>2. pc = SwitchOffset
    BY <2>1, Fetched, CodeFetched DEF NOP, Trampoline, Word
  <2>3. flash_page' = x30 /\ pc' = TrampolineOffset /\ UNCHANGED <<program, flash_mode, x30>>
    BY <1>s, <1>w, <1>5, <2>2 DEF Switch
  <2>4. TrampolineOffset \in 0 .. TrampolineOffset /\ TrampolineOffset # SwitchOffset
    BY <1>s
  <2> QED
    BY <1>0, <2>1, <2>3, <2>4 DEF PagedIInv, TypeOK, StoreAims, Fits, Used, Dead, PadEnd
<1>6. CASE Reset
  <2>1. 0 \in 0 .. TrampolineOffset
    BY <1>s
  <2> QED
    BY <1>0, <1>w, <1>6, <2>1 DEF Reset, PagedIInv, TypeOK, StoreAims, Fits, Used, Dead, PadEnd
<1>7. CASE UNCHANGED vars
  BY <1>7 DEF vars, PagedIInv, TypeOK, StoreAims, Fits, Used, Dead, PadEnd
<1> QED
  BY <1>1, <1>2, <1>3, <1>4, <1>5, <1>6, <1>7 DEF Next, Core

-----------------------------------------------------------------------------
\* The refinement.  Where a pc of the window is in its page.

Len0 == Len(program[flash_page].code)

LEMMA Position ==
  PagedIInv /\ flash_mode =>
    /\ AtPage = flash_page
    /\ \A k \in 0 .. Len0 : pc = Dead(flash_page) + k => AtIndex = k
    /\ Used(program, flash_page) <= pc /\ pc <= SwitchOffset => AtIndex = Len0
    /\ pc < Dead(flash_page) \/ pc = TrampolineOffset => AtIndex = 0
<1> SUFFICES ASSUME PagedIInv, flash_mode
             PROVE  /\ AtPage = flash_page
                    /\ \A k \in 0 .. Len0 : pc = Dead(flash_page) + k => AtIndex = k
                    /\ Used(program, flash_page) <= pc /\ pc <= SwitchOffset
                         => AtIndex = Len0
                    /\ pc < Dead(flash_page) \/ pc = TrampolineOffset => AtIndex = 0
  OBVIOUS
<1>1. /\ program \in Programs /\ Fits(program)
      /\ flash_page \in DOMAIN program /\ pc \in 0 .. TrampolineOffset
  BY DEF PagedIInv, TypeOK
<1>2. /\ Dead(flash_page) \in 0 .. 1 /\ Len0 \in Nat
      /\ Used(program, flash_page) = Dead(flash_page) + Len0
      /\ Used(program, flash_page) <= PadEnd(program, flash_page)
      /\ PadEnd(program, flash_page) \in {SwitchOffset - 1, SwitchOffset}
      /\ SwitchOffset \in Nat
      /\ TrampolineOffset = SwitchOffset + 1
  BY <1>1, Sizes DEF Len0
<1>3. AtPage = flash_page
  BY DEF AtPage
<1>4. ASSUME NEW k \in 0 .. Len0, pc = Dead(flash_page) + k
      PROVE  AtIndex = k
  <2>1. pc # TrampolineOffset /\ ~(pc < Dead(flash_page))
    BY <1>2, <1>4
  <2>2. pc >= Used(program, flash_page) => k = Len0
    BY <1>2, <1>4
  <2>3. pc - Dead(flash_page) = k
    BY <1>2, <1>4
  <2> QED
    BY <2>1, <2>2, <2>3 DEF AtIndex, Len0
<1>5. ASSUME Used(program, flash_page) <= pc, pc <= SwitchOffset
      PROVE  AtIndex = Len0
  <2>1. pc # TrampolineOffset /\ ~(pc < Dead(flash_page)) /\ pc >= Used(program, flash_page)
    BY <1>1, <1>2, <1>5
  <2> QED
    BY <2>1 DEF AtIndex, Len0
<1>6. pc < Dead(flash_page) \/ pc = TrampolineOffset => AtIndex = 0
  BY DEF AtIndex
<1> QED
  BY <1>3, <1>4, <1>5, <1>6

\* Page and position after a step that stays in the page.
LEMMA Stays ==
  ASSUME PagedIInv, PagedIInv', flash_mode,
         UNCHANGED <<program, flash_mode, flash_page>>
  PROVE  /\ AtPage = flash_page /\ AtPage' = AtPage /\ Len0' = Len0
         /\ \A k \in 0 .. Len0 : pc' = Dead(flash_page) + k => AtIndex' = k
         /\ Used(program, flash_page) <= pc' /\ pc' <= SwitchOffset
              => AtIndex' = Len0
<1>1. (PagedIInv /\ flash_mode =>
         /\ AtPage = flash_page
         /\ \A k \in 0 .. Len0 : pc = Dead(flash_page) + k => AtIndex = k
         /\ Used(program, flash_page) <= pc /\ pc <= SwitchOffset => AtIndex = Len0
         /\ pc < Dead(flash_page) \/ pc = TrampolineOffset => AtIndex = 0)'
  BY Position, PTL
<1>2. Len0' = Len0 /\ Used(program, flash_page)' = Used(program, flash_page)
      /\ Dead(flash_page)' = Dead(flash_page)
  BY DEF Len0, Used, Dead
<1> QED
  BY <1>1, <1>2, Position

LEMMA StepRefines ==
  ASSUME Numbered, PagedIInv, PagedIInv', [Next]_vars
  PROVE  [Pgs!Next]_(Pgs!pagesVars)
<1> DEFINE n == flash_page
<1>0. /\ program \in Programs /\ Fits(program)
      /\ n \in DOMAIN program /\ x30 \in DOMAIN program
      /\ pc \in 0 .. TrampolineOffset
      /\ flash_mode \in BOOLEAN /\ (~flash_mode => pc = 0 /\ n = 0)
      /\ flash_mode /\ pc = SwitchOffset /\ ~program[n].computed => x30 = program[n].next
  BY DEF PagedIInv, TypeOK, StoreAims
<1>s. /\ n \in Nat /\ Dead(n) \in 0 .. 1 /\ Len0 \in Nat
      /\ Used(program, n) = Dead(n) + Len0
      /\ Used(program, n) <= PadEnd(program, n)
      /\ PadEnd(program, n) \in {SwitchOffset - 1, SwitchOffset}
      /\ SwitchOffset \in Nat /\ SwitchOffset >= 1
      /\ TrampolineOffset = SwitchOffset + 1
  BY <1>0, Sizes DEF Len0
<1>w. x30 \in 0 .. PageLimit - 1 /\ PageLimit \in Nat
  BY <1>0, PagedAssumption DEF Numbered
\* A word of the page's code.
<1>c. ASSUME flash_mode, CodeWord(program, n, pc), Straight \/ Aim \/ Branch \/ Jump
      PROVE  Pgs!Step
  <2>1. pc # TrampolineOffset /\ pc # SwitchOffset
    BY <1>0, <1>s, <1>c DEF CodeWord
  <2>2. Fetch = PageWord(program, n, pc)
    <3>1. ~(pc < Dead(n)) /\ ~(Used(program, n) <= pc) /\ pc # PadEnd(program, n)
      BY <1>0, <1>s, <1>c DEF CodeWord
    <3> QED
      BY <1>c, <2>1, <3>1, Fetched
  <2>3. PICK k \in Nat :
          /\ InCode(k)
          /\ LET w == program[n].code[k + 1] IN
               \/ w.op = "plain" /\ Fetch.op = "plain"
               \/ w.op = "aim" /\ Fetch = w /\ w.arg \in DOMAIN program
               \/ /\ w.op \in {"branch", "jal"} /\ Fetch.op = w.op
                  /\ w.arg \in 0 .. Len(program[n].code)
                  /\ pc + Fetch.arg = Dead(n) + w.arg
    BY <1>c, <2>2, CodeFetched
  <2> DEFINE w == program[n].code[k + 1]
  <2>4. /\ pc = Dead(n) + k /\ k < Len0 /\ k \in 0 .. Len0 /\ k + 1 \in 0 .. Len0
        /\ pc + 1 = Dead(n) + (k + 1)
    BY <1>0, <1>s, <2>3 DEF InCode, Len0
  <2>5. AtPage = n /\ AtIndex = k
    BY <1>c, <2>4, Position
  <2>6. UNCHANGED <<program, flash_mode, flash_page>>
    BY <1>c DEF Straight, Aim, Branch, Jump
  <2>7. AtPage' = AtPage
    BY <1>c, <2>6, Stays
  <2>8. x30' = IF w.op = "aim" THEN w.arg ELSE x30
    BY <1>c, <2>3 DEF Straight, Aim, Branch, Jump
  <2>9. \/ w.op \in {"plain", "aim", "branch"} /\ AtIndex' = k + 1
        \/ w.op \in {"branch", "jal"} /\ AtIndex' = w.arg
    <3>1. CASE pc' = pc + 1 /\ w.op \in {"plain", "aim", "branch"}
      BY <1>c, <2>4, <2>6, <3>1, Stays
    <3>2. CASE w.op \in {"branch", "jal"} /\ pc' = Dead(n) + w.arg
      <4>1. w.arg \in 0 .. Len0
        BY <2>3, <3>2 DEF Len0
      <4> QED
        BY <1>c, <2>6, <3>2, <4>1, Stays
    <3> QED
      BY <1>c, <2>3, <3>1, <3>2 DEF Straight, Aim, Branch, Jump
  <2>10. AtPage # -1 /\ program[AtPage].code = program[n].code
    BY <1>s, <2>5
  <2> QED
    BY <2>4, <2>5, <2>6, <2>7, <2>8, <2>9, <2>10 DEF Pgs!Step, Pgs!Off, Pgs!Code, Len0
<1>1. CASE HandOff
  <2>1. ~flash_mode
    <3> SUFFICES ASSUME flash_mode PROVE FALSE
      BY <1>0
    <3>1. Fetch.op = "mode"
      BY <1>1 DEF HandOff
    <3> QED
      BY <3>1, Fetched, CodeFetched DEF NOP, StoreIt, Trampoline, Word
  <2>2. pc' = 1 /\ flash_mode' /\ flash_page' = 0 /\ UNCHANGED <<program, x30>>
    BY <1>0, <1>1, <2>1 DEF HandOff
  <2>3. AtPage = -1 /\ AtPage' = 0
    BY <2>1, <2>2 DEF AtPage
  <2>4. AtIndex' = 0
    <3>1. (PagedIInv /\ flash_mode =>
             /\ AtPage = flash_page
             /\ \A k \in 0 .. Len0 : pc = Dead(flash_page) + k => AtIndex = k
             /\ Used(program, flash_page) <= pc /\ pc <= SwitchOffset => AtIndex = Len0
             /\ pc < Dead(flash_page) \/ pc = TrampolineOffset => AtIndex = 0)'
      BY Position, PTL
    <3>2. Len0' = Len0 /\ Dead(flash_page)' = 1
      BY <1>0, <2>1, <2>2 DEF Len0, Dead
    <3>3. 0 \in 0 .. Len0' /\ pc' = Dead(flash_page)' + 0
      BY <1>s, <2>2, <3>2
    <3> QED
      BY <2>2, <3>1, <3>3
  <2> QED
    BY <2>2, <2>3, <2>4 DEF Pgs!Next, Pgs!Run, Pgs!Start, Pgs!Off
<1>2. CASE Straight
  <2>1. flash_mode /\ Fetch.op = "plain"
    BY <1>0, <1>2 DEF Straight, Fetch, Stub, Word
  <2>2. pc' = pc + 1 /\ UNCHANGED <<program, flash_mode, flash_page, x30>>
    BY <1>2 DEF Straight
  <2>3. CASE CodeWord(program, n, pc)
    BY <1>c, <1>2, <2>1, <2>3 DEF Pgs!Next, Pgs!Run
  <2>4. CASE ~CodeWord(program, n, pc) /\ pc < Dead(n)
    <3>1. 0 \in 0 .. Len0 /\ pc' = Dead(n) + 0
      BY <1>0, <1>s, <2>2, <2>4
    <3>2. AtIndex = 0 /\ AtIndex' = 0 /\ AtPage' = AtPage
      BY <2>1, <2>2, <2>4, <3>1, Position, Stays
    <3> QED
      BY <2>2, <3>2 DEF Pgs!pagesVars
  <2>5. CASE ~CodeWord(program, n, pc) /\ ~(pc < Dead(n))
    <3>1. Used(program, n) <= pc /\ pc < PadEnd(program, n)
      BY <2>1, <2>5, Fetched DEF StoreIt, Trampoline, Word
    <3>2. /\ pc <= SwitchOffset
          /\ Used(program, n) <= pc' /\ pc' <= SwitchOffset
      BY <1>0, <1>s, <2>2, <3>1
    <3>3. AtIndex = Len0 /\ AtIndex' = Len0 /\ AtPage' = AtPage
      BY <2>1, <2>2, <3>1, <3>2, Position, Stays
    <3> QED
      BY <2>2, <3>3 DEF Pgs!pagesVars
  <2> QED
    BY <2>3, <2>4, <2>5
<1>3. CASE Aim
  <2>1. flash_mode /\ Fetch.op = "aim"
    BY <1>0, <1>3 DEF Aim, Fetch, Stub, Word
  <2>2. x30' = Fetch.arg /\ pc' = pc + 1 /\ UNCHANGED <<program, flash_mode, flash_page>>
    BY <1>3 DEF Aim
  <2>3. CASE CodeWord(program, n, pc)
    BY <1>c, <1>3, <2>1, <2>3 DEF Pgs!Next, Pgs!Run
  <2>4. CASE ~CodeWord(program, n, pc)
    <3>1. /\ ~program[n].computed /\ pc = PadEnd(program, n)
          /\ pc = SwitchOffset - 1 /\ Fetch.arg = program[n].next
      BY <2>1, <2>4, Fetched DEF NOP, StoreIt, Trampoline, Word
    <3>2. /\ Used(program, n) <= pc /\ pc <= SwitchOffset
          /\ Used(program, n) <= pc' /\ pc' <= SwitchOffset
      BY <1>0, <1>s, <2>2, <3>1
    <3>3. AtPage = n /\ AtIndex = Len0 /\ AtIndex' = Len0 /\ AtPage' = AtPage
      BY <2>1, <2>2, <3>2, Position, Stays
    <3>4. AtPage # -1 /\ AtIndex = Len(program[AtPage].code)
      BY <1>s, <3>3 DEF Len0
    <3> QED
      BY <2>2, <3>1, <3>3, <3>4 DEF Pgs!Next, Pgs!Run, Pgs!AimNext, Pgs!AtEnd, Pgs!Off, Pgs!Code
  <2> QED
    BY <2>3, <2>4
<1>4. CASE Branch \/ Jump
  <2>1. flash_mode /\ Fetch.op \in {"branch", "jal"}
    BY <1>0, <1>4 DEF Branch, Jump, Fetch, Stub, Word
  <2>2. CASE CodeWord(program, n, pc)
    BY <1>c, <1>4, <2>1, <2>2 DEF Pgs!Next, Pgs!Run
  <2>3. CASE ~CodeWord(program, n, pc)
    <3>1. pc = TrampolineOffset /\ Fetch = Trampoline
      BY <2>1, <2>3, Fetched DEF NOP, StoreIt, Word
    <3>2. pc' = 0 /\ UNCHANGED <<program, flash_mode, flash_page, x30>>
      BY <1>4, <1>s, <3>1 DEF Branch, Jump, Trampoline, Word
    <3>3. AtIndex = 0
      BY <2>1, <3>1, Position
    <3>4. AtIndex' = 0
      <4>1. (PagedIInv /\ flash_mode =>
               /\ AtPage = flash_page
               /\ \A k \in 0 .. Len0 : pc = Dead(flash_page) + k => AtIndex = k
               /\ Used(program, flash_page) <= pc /\ pc <= SwitchOffset => AtIndex = Len0
               /\ pc < Dead(flash_page) \/ pc = TrampolineOffset => AtIndex = 0)'
        BY Position, PTL
      <4>2. Dead(flash_page)' = Dead(n) /\ Len0' = Len0
        BY <3>2 DEF Dead, Len0
      <4>3. CASE Dead(n) = 0
        <5>1. 0 \in 0 .. Len0' /\ pc' = Dead(flash_page)' + 0
          BY <1>s, <3>2, <4>2, <4>3
        <5> QED
          BY <2>1, <3>2, <4>1, <5>1
      <4>4. CASE Dead(n) = 1
        BY <2>1, <3>2, <4>1, <4>2, <4>4
      <4> QED
        BY <1>s, <4>3, <4>4
    <3>5. AtPage' = AtPage
      BY <2>1, <3>2, Stays
    <3> QED
      BY <3>2, <3>3, <3>4, <3>5 DEF Pgs!pagesVars
  <2> QED
    BY <2>2, <2>3
<1>5. CASE Switch
  <2>1. flash_mode /\ Fetch.op = "switch"
    BY <1>0, <1>5 DEF Switch, Fetch, Stub, Word
  <2>2. pc = SwitchOffset
    BY <2>1, Fetched, CodeFetched DEF NOP, Trampoline, Word
  <2>3. flash_page' = x30 /\ pc' = TrampolineOffset /\ UNCHANGED <<program, flash_mode, x30>>
    BY <1>s, <1>w, <1>5, <2>2 DEF Switch
  <2>4. Used(program, n) <= pc /\ pc <= SwitchOffset
    BY <1>s, <2>2
  <2>5. AtPage = n /\ AtIndex = Len0
    BY <2>1, <2>4, Position
  <2>6. AtPage' = x30 /\ AtIndex' = 0
    <3>1. (pc = TrampolineOffset => AtIndex = 0)'
      BY DEF AtIndex, TrampolineOffset
    <3>2. AtPage' = flash_page'
      BY <2>1, <2>3 DEF AtPage
    <3> QED
      BY <2>3, <3>1, <3>2 DEF TrampolineOffset
  <2>7. program[n].computed \/ x30 = program[n].next
    BY <1>0, <2>1, <2>2
  <2>8. AtPage # -1 /\ AtIndex = Len(program[AtPage].code)
    BY <1>s, <2>5 DEF Len0
  <2> QED
    BY <2>3, <2>5, <2>6, <2>7, <2>8 DEF Pgs!Next, Pgs!Run, Pgs!Leave, Pgs!AtEnd, Pgs!Off, Pgs!Code
<1>6. CASE Reset
  <2>1. AtPage' = -1 /\ AtIndex' = 0 /\ UNCHANGED <<program, x30>>
    BY <1>6 DEF Reset, AtPage, AtIndex
  <2> QED
    BY <2>1 DEF Pgs!Next, Pgs!Run, Pgs!Reset, Pgs!Off
<1>7. CASE UNCHANGED vars
  BY <1>7 DEF vars, Pgs!pagesVars, AtPage, AtIndex, Dead, Used
<1> QED
  BY <1>1, <1>2, <1>3, <1>4, <1>5, <1>6, <1>7 DEF Next, Core

-----------------------------------------------------------------------------
\* Every program that fits its pages keeps the pc in the window and the page in
\* the image: PagedAsm's reserved words leave no path out.
THEOREM PagedTypes == ASSUME Numbered PROVE Spec => []TypeOK
<1>1. Init => PagedIInv
  BY InitInv
<1>2. PagedIInv /\ [Next]_vars => PagedIInv'
  BY StepInv
<1>3. PagedIInv => TypeOK
  BY DEF PagedIInv
<1> QED
  BY <1>1, <1>2, <1>3, PTL DEF Spec

\* The store at the end of a page ended by switch_to finds the page's number in
\* x30, whichever way the code of the page goes.
THEOREM PagedAims == ASSUME Numbered PROVE Spec => []StoreAims
<1>1. Init => PagedIInv
  BY InitInv
<1>2. PagedIInv /\ [Next]_vars => PagedIInv'
  BY StepInv
<1>3. PagedIInv => StoreAims
  BY DEF PagedIInv
<1> QED
  BY <1>1, <1>2, <1>3, PTL DEF Spec

\* Run through the window, a program of at most PageLimit pages does what its
\* pages say.
THEOREM PagedRefines == ASSUME Numbered PROVE Spec => ImplementsPages
<1>1. Init => PagedIInv /\ Pgs!Init
  <2> SUFFICES ASSUME Init PROVE Pgs!Init
    BY InitInv
  <2>1. AtPage = -1 /\ AtIndex = 0
    BY DEF Init, AtPage, AtIndex
  <2> QED
    BY <2>1 DEF Init, Pgs!Init, Pgs!Off
<1>2. PagedIInv /\ [Next]_vars => PagedIInv'
  BY StepInv
<1>3. PagedIInv /\ PagedIInv' /\ [Next]_vars => [Pgs!Next]_(Pgs!pagesVars)
  BY StepRefines
<1> QED
  BY <1>1, <1>2, <1>3, PTL DEF Spec, ImplementsPages, Pgs!Safety

=============================================================================
