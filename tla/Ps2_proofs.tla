----------------------------- MODULE Ps2_proofs -----------------------------
(***************************************************************************)
(* For every set of scan codes, and every keyboard that holds its levels   *)
(* for a page and pauses for the longest chain of pages: the PS/2 programs *)
(* never miss an edge, and show what the codes say.                        *)
(***************************************************************************)
EXTENDS Ps2, FiniteSetTheorems, SequenceTheorems, TLAPS

\* A page that waits for an edge takes 11 instructions once it has come; the
\* longest chain of pages between two frames, with the last of those, 72.
EnoughTime == Hold >= 11 /\ Gap >= 72

LEMMA PageNumbers ==
  /\ START_LOW = 1 /\ BIT_PAGES_START = 3 /\ PARITY_LOW = 19 /\ STOP_HIGH = 22
  /\ RESULT_PAGE = 23 /\ PROCESS_BP = 23 /\ PROCESS_F0 = 24 /\ PROCESS_E0 = 25
  /\ PROCESS_EXTCHECK = 26 /\ PROCESS_DISPATCH = 27 /\ EMIT_PAGE = 28
  /\ TABLE_START = 29 /\ MAX_SAFE_SCANCODE = 226
  /\ Waits = 1 .. 22
  /\ Sampling = {3, 5, 7, 9, 11, 13, 15, 17}
<1>1. /\ START_LOW = 1 /\ BIT_PAGES_START = 3 /\ PARITY_LOW = 19 /\ STOP_HIGH = 22
      /\ RESULT_PAGE = 23 /\ PROCESS_BP = 23 /\ PROCESS_F0 = 24 /\ PROCESS_E0 = 25
      /\ PROCESS_EXTCHECK = 26 /\ PROCESS_DISPATCH = 27 /\ EMIT_PAGE = 28
      /\ TABLE_START = 29 /\ MAX_SAFE_SCANCODE = 226
      /\ Waits = 1 .. 22
  BY DEF START_LOW, BIT_PAGES_START, PARITY_LOW, STOP_HIGH, RESULT_PAGE, PROCESS_BP,
         PROCESS_F0, PROCESS_E0, PROCESS_EXTCHECK, PROCESS_DISPATCH, EMIT_PAGE,
         TABLE_START, MAX_SAFE_SCANCODE, Waits
<1>2. Sampling = {3, 5, 7, 9, 11, 13, 15, 17}
  BY <1>1 DEF Sampling
<1> QED  BY <1>1, <1>2

LEMMA TableBytes ==
  \A e \in SCANCODE_TO_ASCII : e[1] \in 13 .. 102 /\ e[2] \in Byte
BY DEF SCANCODE_TO_ASCII, Byte

LEMMA AsciiFacts ==
  ASSUME NEW c \in Int
  PROVE  Ascii(c) \in Byte /\ (c > 226 => Ascii(c) = Ascii(0))
<1>1. CASE \E e \in SCANCODE_TO_ASCII : e[1] = c
  <2> DEFINE e == CHOOSE d \in SCANCODE_TO_ASCII : d[1] = c
  <2>1. e \in SCANCODE_TO_ASCII /\ e[1] = c
    BY <1>1
  <2> QED  BY <1>1, <2>1, TableBytes DEF Ascii
<1>2. CASE ~ \E e \in SCANCODE_TO_ASCII : e[1] = c
  <2>1. ~ \E e \in SCANCODE_TO_ASCII : e[1] = 0
    BY TableBytes
  <2> QED  BY <1>2, <2>1 DEF Ascii, Byte
<1> QED  BY <1>1, <1>2

-----------------------------------------------------------------------------
\* The inductive invariant.

\* Instructions from the start of page p until the program listens again, at most.
Chain(p) ==
  CASE p = 0 -> 10 [] p = 23 -> 61 [] p = 24 -> 55 [] p = 25 -> 47
    [] p = 26 -> 39 [] p = 27 -> 32 [] p = 28 -> 11 [] OTHER -> 22

\* Page p has b instructions to go, the clock is at level l since h instructions:
\* the page that waits for this level looks at it before the level is over, and
\* the program is back from a frame before the first level of the next one is.
PaceOf(H, p, l, h, b) ==
  /\ b \in 0 .. 10
  /\ IF p \in 1 .. 22
       THEN \/ l = p - 1 /\ h + b < H
            \/ l = p - 2
            \/ l = 21 /\ p = 1
       ELSE \/ l = 21 /\ h + b + Chain(p) <= H + 71
            \/ l = 0 /\ h + b + Chain(p) < H

Pace == PaceOf(Hold, page, Level, held, busy)

Types ==
  /\ program \in {"reader", "ascii"}
  /\ page \in Byte /\ (program = "reader" => page <= 23)
  /\ x4 \in Byte /\ x5 \in {0, 1} /\ x6 \in {0, 1} /\ x8 \in Byte
  /\ gpio_out \in Byte
  /\ code \in Codes /\ kbit \in 0 .. 10 /\ clock \in {0, 1} /\ held \in 0 .. Gap

\* Data bits that page p has behind it.
Got(p) == IF p < 3 THEN 0 ELSE IF p > 17 THEN 8 ELSE (p - 2) \div 2

\* The accumulator has the bits of the code so far; then it is a code.
Bits ==
  /\ page \in 1 .. 22 => x4 = code % 2^Got(page)
  /\ page > 22 => x4 \in Codes

\* What is waiting, in terms of the two sides.
Queue(p, l, x, c) ==
  IF p \in 0 .. 1 THEN IF l = 0 THEN << c >> ELSE << >>
  ELSE IF p \in 2 .. 22 THEN << c >>
  ELSE IF l = 0 THEN << x, c >> ELSE << x >>

Pending == waiting = Queue(page, Level, x4, code)

\* What the pages of the chain have found out about the code and the flags.
Found ==
  /\ page = 0 => x5 = 0 /\ x6 = 0
  /\ page > 23 => x5 = 0
  /\ page > 24 => x4 # 240
  /\ page > 25 => x4 # 224
  /\ page > 26 => x6 = 0
  /\ page = 28 => x8 = Ascii(x4)
  /\ page > 28 => Ascii(page - 29) = Ascii(x4)

Ps2IInv == Types /\ Pace /\ Bits /\ Pending /\ Found

LEMMA Powers ==
  /\ 2^0 = 1 /\ 2^1 = 2 /\ 2^2 = 4 /\ 2^3 = 8 /\ 2^4 = 16
  /\ 2^5 = 32 /\ 2^6 = 64 /\ 2^7 = 128 /\ 2^8 = 256
OBVIOUS

LEMMA ConstFacts ==
  /\ Codes \subseteq Byte /\ Hold \in Nat /\ Hold > 0 /\ Gap \in Nat /\ Gap >= Hold
BY Ps2Assumption

\* Queues of one and two codes.
LEMMA QueueFacts ==
  ASSUME NEW a \in Byte, NEW c \in Byte
  PROVE  /\ Append(<< >>, c) = << c >> /\ Append(<< a >>, c) = << a, c >>
         /\ Head(<< a >>) = a /\ Head(<< a, c >>) = a
         /\ Tail(<< a >>) = << >> /\ Tail(<< a, c >>) = << c >>
         /\ << a >> # << >> /\ << a, c >> # << >>
<1>1. Append(<< a >>, c) = << a, c >>
  <2>1. /\ Append(<< a >>, c) \in Seq(Byte) /\ << a, c >> \in Seq(Byte)
        /\ Len(Append(<< a >>, c)) = 2 /\ Len(<< a, c >>) = 2
    OBVIOUS
  <2>2. \A i \in 1 .. 2 : Append(<< a >>, c)[i] = << a, c >>[i]
    OBVIOUS
  <2> QED  BY <2>1, <2>2, SeqEqual
<1> QED
  BY <1>1

LEMMA LevelFacts ==
  ASSUME Types
  PROVE  /\ Level \in 0 .. 21
         /\ Level = 2 * kbit + clock
         /\ Level = 0 <=> kbit = 0 /\ clock = 0
         /\ Level = 21 <=> kbit = 10 /\ clock = 1
         /\ Level % 2 = clock
         /\ held \in Nat /\ held <= Gap
<1>1. \A k \in 0 .. 10, c \in {0, 1} :
        /\ 2 * k + c \in 0 .. 21
        /\ 2 * k + c = 0 <=> k = 0 /\ c = 0
        /\ 2 * k + c = 21 <=> k = 10 /\ c = 1
        /\ (2 * k + c) % 2 = c
  OBVIOUS
<1>2. kbit \in 0 .. 10 /\ clock \in {0, 1}
  BY DEF Types
<1>3. held \in Nat /\ held <= Gap
  BY ConstFacts DEF Types
<1> QED
  BY <1>1, <1>2, <1>3 DEF Level

\* The data line has a bit, and in the data bits that of the code.
LEMMA DataBit ==
  ASSUME Types
  PROVE  /\ DATA \in {0, 1}
         /\ kbit \in 1 .. 8 => DATA = BitOf(code, kbit - 1)
<1>1. \A c \in Byte, i \in 0 .. 7 : BitOf(c, i) \in {0, 1}
  <2> SUFFICES ASSUME NEW c \in Byte, NEW i \in 0 .. 7 PROVE BitOf(c, i) \in {0, 1}
    OBVIOUS
  <2>1. i = 0 \/ i = 1 \/ i = 2 \/ i = 3 \/ i = 4 \/ i = 5 \/ i = 6 \/ i = 7
    OBVIOUS
  <2>2. 2^i \in {1, 2, 4, 8, 16, 32, 64, 128}
    <3>1. \A k \in 0 .. 7 : i = k => 2^i = 2^k
      OBVIOUS
    <3> QED  BY <2>1, <3>1, Powers
  <2>3. \A d \in {1, 2, 4, 8, 16, 32, 64, 128} : (c \div d) % 2 \in {0, 1}
    BY DEF Byte
  <2> QED  BY <2>2, <2>3 DEF BitOf
<1>2. code \in Byte /\ kbit \in 0 .. 10
  BY ConstFacts DEF Types
<1>3. CASE kbit = 0
  BY <1>3 DEF DATA
<1>4. CASE kbit \in 1 .. 8
  <2>1. kbit - 1 \in 0 .. 7
    BY <1>4
  <2>2. DATA = BitOf(code, kbit - 1)
    BY <1>4 DEF DATA
  <2> QED  BY <1>1, <1>2, <2>1, <2>2
<1>5. CASE kbit = 9
  <2>1. \A n : 1 - (n % 2) \in {0, 1} \/ n \notin Int
    OBVIOUS
  <2> DEFINE ones == {i \in 0 .. 7 : BitOf(code, i) = 1}
  <2>2. Cardinality(ones) \in Int
    <3>1. IsFiniteSet(0 .. 7)
      <4>1. 0 \in Int /\ 7 \in Int
        OBVIOUS
      <4> QED  BY <4>1, FS_Interval, Zenon
    <3>2. IsFiniteSet(ones)
      BY <3>1, FS_Subset
    <3> QED  BY <3>2, FS_CardinalityType
  <2>3. DATA = 1 - (Cardinality(ones) % 2)
    BY <1>5 DEF DATA
  <2> HIDE DEF ones
  <2> QED  BY <1>5, <2>1, <2>2, <2>3
<1>6. CASE kbit = 10
  BY <1>6 DEF DATA
<1> QED
  BY <1>2, <1>3, <1>4, <1>5, <1>6

\* One more bit of a code, least significant first.
LEMMA OneMoreBit ==
  ASSUME NEW c \in Byte, NEW k \in 0 .. 7
  PROVE  /\ BitOf(c % 2^k, k) # 1
         /\ c % 2^(k + 1) = IF BitOf(c, k) = 1 THEN (c % 2^k) + 2^k ELSE c % 2^k
         /\ c % 2^(k + 1) \in Byte
         /\ c % 2^8 = c /\ c % 2^0 = 0
<1>1. c % 2^8 = c /\ c % 2^0 = 0
  BY Powers DEF Byte
<1>2. CASE k = 0
  <2>1. 2^k = 1 /\ 2^(k + 1) = 2
    BY <1>2, Powers
  <2> QED
    BY <1>1, <2>1 DEF BitOf, Byte
<1>3. CASE k = 1
  <2>1. 2^k = 2 /\ 2^(k + 1) = 4
    BY <1>3, Powers
  <2> QED
    BY <1>1, <2>1 DEF BitOf, Byte
<1>4. CASE k = 2
  <2>1. 2^k = 4 /\ 2^(k + 1) = 8
    BY <1>4, Powers
  <2> QED
    BY <1>1, <2>1 DEF BitOf, Byte
<1>5. CASE k = 3
  <2>1. 2^k = 8 /\ 2^(k + 1) = 16
    BY <1>5, Powers
  <2> QED
    BY <1>1, <2>1 DEF BitOf, Byte
<1>6. CASE k = 4
  <2>1. 2^k = 16 /\ 2^(k + 1) = 32
    BY <1>6, Powers
  <2> QED
    BY <1>1, <2>1 DEF BitOf, Byte
<1>7. CASE k = 5
  <2>1. 2^k = 32 /\ 2^(k + 1) = 64
    BY <1>7, Powers
  <2> QED
    BY <1>1, <2>1 DEF BitOf, Byte
<1>8. CASE k = 6
  <2>1. 2^k = 64 /\ 2^(k + 1) = 128
    BY <1>8, Powers
  <2> QED
    BY <1>1, <2>1 DEF BitOf, Byte
<1>9. CASE k = 7
  <2>1. 2^k = 128 /\ 2^(k + 1) = 256
    BY <1>9, Powers
  <2> QED
    BY <1>1, <2>1 DEF BitOf, Byte
<1> QED
  BY <1>2, <1>3, <1>4, <1>5, <1>6, <1>7, <1>8, <1>9

-----------------------------------------------------------------------------
\* Time.  The arithmetic is stated of numbers, then used of the variables.

\* Time that passes within a page brings its end no nearer the limit.
LEMMA WorkTime ==
  ASSUME NEW H \in Nat, NEW p \in Byte, NEW l \in 0 .. 21, NEW h \in Nat, NEW g \in Nat,
         NEW b \in Nat, PaceOf(H, p, l, h, b), b > 0, g <= h + 1
  PROVE  PaceOf(H, p, l, g, b - 1)
<1>1. Chain(p) \in Nat
  BY DEF Chain, Byte
<1> QED
  BY <1>1 DEF PaceOf, Byte

\* A page of n instructions.
LEMMA PageTime ==
  ASSUME NEW H \in Nat, NEW p \in Byte, NEW l \in 0 .. 21, NEW h \in Nat, NEW g \in Nat,
         NEW n \in 1 .. 11, PaceOf(H, p, l, h, 0), g <= h + 1, H >= 11
  PROVE  /\ p = 0 /\ n = 10 => PaceOf(H, 1, l, g, n - 1)
         /\ p \in 1 .. 22 /\ l % 2 = p % 2 => PaceOf(H, p, l, g, n - 1)
         /\ p \in 1 .. 22 /\ l % 2 # p % 2 => l = p - 1 /\ PaceOf(H, p + 1, l, g, n - 1)
         /\ p >= 23 /\ p # 27 => PaceOf(H, 1, l, g, n - 1)
         /\ p = 23 /\ n = 6 => PaceOf(H, 24, l, g, n - 1)
         /\ p = 24 /\ n = 8 => PaceOf(H, 25, l, g, n - 1)
         /\ p = 25 /\ n = 8 => PaceOf(H, 26, l, g, n - 1)
         /\ p = 26 /\ n = 7 => PaceOf(H, 27, l, g, n - 1)
         /\ p = 27 /\ n <= 10 => \A q \in 29 .. 255 : PaceOf(H, q, l, g, n - 1)
         /\ p >= 29 => PaceOf(H, 28, l, g, n - 1)
BY DEF PaceOf, Chain, Byte

\* The moves of the keyboard.
LEMMA MoveTime ==
  ASSUME NEW H \in Nat, NEW p \in Byte, NEW l \in 0 .. 21, NEW h \in Nat, NEW b \in Nat,
         NEW G \in Nat, PaceOf(H, p, l, h, b), H >= 11, G >= 72, G >= H
  PROVE  /\ l < 21 /\ h >= H => p = l + 2 /\ PaceOf(H, p, l + 1, 0, b)
         /\ l = 21 /\ h >= G => p \notin 2 .. 22 /\ PaceOf(H, p, 0, 0, b)
<1>1. Chain(p) \in Nat
  BY DEF Chain, Byte
<1> QED
  BY <1>1 DEF PaceOf, Byte

\* What Takes gives PageTime, of the variables.
LEMMA TakesTime ==
  ASSUME EnoughTime, Types, Pace, NEW n \in 1 .. 11, Takes(n)
  PROVE  /\ UNCHANGED <<program, code, kbit, clock>> /\ Level' = Level
         /\ held' \in 0 .. Gap
         /\ page = 0 /\ n = 10 /\ page' = 1 => Pace'
         /\ page \in 1 .. 22 /\ clock = page % 2 /\ page' = page => Pace'
         /\ page \in 1 .. 22 /\ clock # page % 2 => Level = page - 1
         /\ page \in 1 .. 22 /\ clock # page % 2 /\ page' = page + 1 => Pace'
         /\ page >= 23 /\ page # 27 /\ page' = 1 => Pace'
         /\ page = 23 /\ n = 6 /\ page' = 24 => Pace'
         /\ page = 24 /\ n = 8 /\ page' = 25 => Pace'
         /\ page = 25 /\ n = 8 /\ page' = 26 => Pace'
         /\ page = 26 /\ n = 7 /\ page' = 27 => Pace'
         /\ page = 27 /\ n <= 10 /\ page' \in 29 .. 255 => Pace'
         /\ page >= 29 /\ page' = 28 => Pace'
<1>1. /\ UNCHANGED <<program, code, kbit, clock>> /\ busy = 0 /\ busy' = n - 1
      /\ held' = IF held < Gap THEN held + 1 ELSE held
  BY DEF Takes, keyVars, Tick
<1>2. Level' = Level
  BY <1>1 DEF Level
<1>3. held \in Nat /\ held' \in Nat /\ held' <= held + 1 /\ held' \in 0 .. Gap
  BY <1>1, LevelFacts, ConstFacts DEF Types
<1>4. page \in Byte /\ Level \in 0 .. 21 /\ Level % 2 = clock /\ Hold \in Nat /\ Hold >= 11
  BY LevelFacts, ConstFacts DEF Types, EnoughTime
<1>5. PaceOf(Hold, page, Level, held, 0)
  BY <1>1 DEF Pace
<1> DEFINE P(q) == PaceOf(Hold, q, Level, held', n - 1)
<1>6. Pace' <=> P(page')
  BY <1>1, <1>2 DEF Pace
<1>7. /\ page = 0 /\ n = 10 => P(1)
      /\ page \in 1 .. 22 /\ Level % 2 = page % 2 => P(page)
      /\ page \in 1 .. 22 /\ Level % 2 # page % 2 => Level = page - 1 /\ P(page + 1)
      /\ page >= 23 /\ page # 27 => P(1)
      /\ page = 23 /\ n = 6 => P(24)
      /\ page = 24 /\ n = 8 => P(25)
      /\ page = 25 /\ n = 8 => P(26)
      /\ page = 26 /\ n = 7 => P(27)
      /\ page = 27 /\ n <= 10 => \A q \in 29 .. 255 : P(q)
      /\ page >= 29 => P(28)
  BY <1>3, <1>4, <1>5, PageTime, ZenonT(60)
<1> HIDE DEF P
<1> QED
  BY <1>1, <1>2, <1>3, <1>4, <1>6, <1>7

LEMMA InitInv == Init => Ps2IInv
<1> SUFFICES ASSUME Init PROVE Ps2IInv
  OBVIOUS
<1>1. Level = 21
  BY DEF Init, ChipInit, KeyInit, Level
<1>2. Types
  BY ConstFacts DEF Init, ChipInit, KeyInit, Types, Byte
<1>3. Pace
  BY <1>1, ConstFacts DEF Init, ChipInit, KeyInit, Pace, PaceOf, Chain
<1> QED
  BY <1>1, <1>2, <1>3 DEF Init, ChipInit, KeyInit, Ps2IInv, Bits, Pending, Queue, Found

-----------------------------------------------------------------------------
\* The keyboard.

\* A level that is not the last of a frame.
LEMMA WithinFrame ==
  ASSUME EnoughTime, Ps2IInv, KeyRise \/ KeyFall
  PROVE  Ps2IInv'
<1>1. /\ kbit \in 0 .. 10 /\ clock \in {0, 1} /\ page \in Byte
      /\ Level \in 0 .. 21 /\ Level = 2 * kbit + clock
      /\ held \in Nat /\ held >= Hold /\ held' = 0 /\ busy' = busy
      /\ Hold \in Nat /\ Hold >= 11 /\ Gap \in Nat /\ Gap >= 72 /\ Gap >= Hold
  BY LevelFacts, ConstFacts DEF Ps2IInv, Types, KeyRise, KeyFall, Moves, EnoughTime
<1>2. /\ UNCHANGED <<program, page, busy, x4, x5, x6, x8, gpio_out, code, waiting>>
      /\ kbit' \in 0 .. 10 /\ clock' \in {0, 1}
      /\ 2 * kbit' + clock' = 2 * kbit + clock + 1
  BY <1>1 DEF KeyRise, KeyFall, Moves, regVars
<1>3. Level' = Level + 1
  BY <1>1, <1>2 DEF Level
<1>4. Level < 21
  <2>1. \A k, j \in 0 .. 10, c, d \in {0, 1} : 2 * j + d = 2 * k + c + 1 => 2 * k + c < 21
    OBVIOUS
  <2> HIDE DEF Level
  <2> QED  BY <1>1, <1>2, <2>1
<1>5. busy \in Nat /\ PaceOf(Hold, page, Level, held, busy)
  BY DEF Ps2IInv, Pace, PaceOf
<1>6. page = Level + 2 /\ PaceOf(Hold, page, Level + 1, 0, busy)
  <2> QED  BY <1>1, <1>4, <1>5, MoveTime, ZenonT(60)
<1>7. Pace'
  BY <1>1, <1>2, <1>3, <1>6 DEF Pace
<1>8. Types'
  BY <1>1, <1>2 DEF Ps2IInv, Types
<1>9. Bits' /\ Found'
  BY <1>2 DEF Ps2IInv, Bits, Found
<1>10. Pending'
  BY <1>1, <1>2, <1>3, <1>6 DEF Ps2IInv, Pending, Queue
<1> QED
  BY <1>7, <1>8, <1>9, <1>10 DEF Ps2IInv

\* The first level of a frame.
LEMMA NewFrame ==
  ASSUME EnoughTime, Ps2IInv, KeyPress
  PROVE  Ps2IInv' /\ \E c \in Codes : waiting' = Append(waiting, c)
<1>1. /\ page \in Byte /\ Level = 21
      /\ held \in Nat /\ held >= Gap /\ held' = 0 /\ busy' = busy
      /\ Hold \in Nat /\ Hold >= 11 /\ Gap \in Nat /\ Gap >= 72 /\ Gap >= Hold
  BY LevelFacts, ConstFacts DEF Ps2IInv, Types, KeyPress, Moves, EnoughTime
<1>2. /\ UNCHANGED <<program, page, busy, x4, x5, x6, x8, gpio_out>>
      /\ kbit' = 0 /\ clock' = 0 /\ code' \in Codes /\ waiting' = Append(waiting, code')
  BY DEF KeyPress, Moves, regVars
<1>3. Level' = 0
  BY <1>2 DEF Level
<1>4. busy \in Nat /\ PaceOf(Hold, page, Level, held, busy)
  BY DEF Ps2IInv, Pace, PaceOf
<1>5. page \notin 2 .. 22 /\ PaceOf(Hold, page, 0, 0, busy)
  <2>1. 21 \in 0 .. 21
    OBVIOUS
  <2> HIDE DEF PaceOf, Level
  <2> QED  BY <1>1, <1>4, <2>1, MoveTime
<1>6. Pace'
  BY <1>1, <1>2, <1>3, <1>5 DEF Pace
<1>7. Types'
  BY <1>1, <1>2 DEF Ps2IInv, Types
<1>8. Bits'
  <2>1. Got(1) = 0 /\ \A c \in Byte : c % 2^0 = 0
    BY Powers DEF Got, Byte
  <2>2. code \in Byte /\ code' \in Byte
    BY <1>2, ConstFacts DEF Ps2IInv, Types
  <2>3. page \in 1 .. 22 => page = 1
    BY <1>1, <1>5
  <2> QED  BY <1>2, <2>1, <2>2, <2>3 DEF Ps2IInv, Bits
<1>9. Found'
  BY <1>2 DEF Ps2IInv, Found
<1>10. Pending'
  <2>1. waiting = IF page \in 0 .. 1 THEN << >> ELSE << x4 >>
    BY <1>1, <1>5 DEF Ps2IInv, Pending, Queue
  <2>2. /\ Append(<< >>, code') = << code' >>
        /\ Append(<< x4 >>, code') = << x4, code' >>
    BY <1>2, QueueFacts, ConstFacts DEF Ps2IInv, Types
  <2>3. waiting' = IF page \in 0 .. 1 THEN << code' >> ELSE << x4, code' >>
    BY <1>2, <2>1, <2>2, ConstFacts DEF Ps2IInv, Types
  <2> QED  BY <1>1, <1>2, <1>3, <1>5, <2>3 DEF Pending, Queue
<1> QED
  BY <1>2, <1>6, <1>7, <1>8, <1>9, <1>10 DEF Ps2IInv

-----------------------------------------------------------------------------
\* The chip.

LEMMA WorkStep ==
  ASSUME EnoughTime, Ps2IInv, Work
  PROVE  Ps2IInv'
<1>1. /\ UNCHANGED <<program, page, x4, x5, x6, x8, gpio_out, code, kbit, clock, waiting>>
      /\ busy > 0 /\ busy' = busy - 1
      /\ held' = IF held < Gap THEN held + 1 ELSE held
  BY DEF Work, regVars, keyVars, Tick
<1>2. /\ held \in Nat /\ held' \in Nat /\ held' <= held + 1 /\ held' \in 0 .. Gap
  BY <1>1, LevelFacts, ConstFacts DEF Ps2IInv, Types
<1>3. Level' = Level
  BY <1>1 DEF Level
<1>4. busy \in Nat /\ PaceOf(Hold, page, Level, held, busy)
  BY DEF Ps2IInv, Pace, PaceOf
<1>5. PaceOf(Hold, page, Level, held', busy - 1)
  BY <1>1, <1>2, <1>4, LevelFacts, ConstFacts, WorkTime DEF Ps2IInv, Types
<1>6. Pace'
  BY <1>1, <1>3, <1>5 DEF Pace
<1> QED
  BY <1>1, <1>2, <1>3, <1>6 DEF Ps2IInv, Types, Bits, Pending, Queue, Found

\* With no bit yet the accumulator is empty.
LEMMA NoBits ==
  ASSUME page' = 1, x4' = 0, code' \in Byte
  PROVE  Bits'
<1>1. code' % 2^0 = 0
  BY OneMoreBit
<1>2. Got(1) = 0
  BY DEF Got
<1>3. x4' = code' % 2^Got(page')
  BY <1>1, <1>2, Zenon
<1>4. ~ (page' > 22)
  OBVIOUS
<1> QED
  BY <1>3, <1>4, Zenon DEF Bits

\* The program has taken the code at the head of the queue and listens again.
LEMMA TakenStep ==
  ASSUME EnoughTime, Ps2IInv, NEW n \in 1 .. 11, Taken(n), page > 22, page # 27,
         x5' \in {0, 1}, x6' \in {0, 1}, x8' \in Byte, gpio_out' \in Byte
  PROVE  /\ Ps2IInv'
         /\ waiting # << >> /\ Head(waiting) = x4 /\ waiting' = Tail(waiting)
         /\ program' = program
<1>1. page' = 1 /\ x4' = 0 /\ waiting' = Tail(waiting) /\ Takes(n)
  BY PageNumbers DEF Taken
<1>2. page \in Byte /\ page >= 23
  BY DEF Ps2IInv, Types, Byte
<1>3. /\ Pace' /\ Level' = Level /\ held' \in 0 .. Gap
      /\ UNCHANGED <<program, code, kbit, clock>>
  BY <1>1, <1>2, TakesTime DEF Ps2IInv
<1>4. Types'
  BY <1>1, <1>3 DEF Ps2IInv, Types, Byte
<1>5. Bits'
  <2>1. code' \in Byte
    BY <1>4, ConstFacts DEF Types
  <2> QED  BY <1>1, <2>1, NoBits
<1>6. Found'
  BY <1>1 DEF Found
<1>7. x4 \in Byte /\ code \in Byte
  BY ConstFacts DEF Ps2IInv, Types
<1>8. waiting = IF Level = 0 THEN << x4, code >> ELSE << x4 >>
  BY <1>2 DEF Ps2IInv, Pending, Queue
<1>9. /\ waiting # << >> /\ Head(waiting) = x4
      /\ Tail(waiting) = IF Level = 0 THEN << code >> ELSE << >>
  BY <1>7, <1>8, QueueFacts
<1>10. Pending'
  BY <1>1, <1>3, <1>9 DEF Pending, Queue
<1> QED
  BY <1>1, <1>3, <1>4, <1>5, <1>6, <1>9, <1>10 DEF Ps2IInv

\* The chain goes on with the same code.
LEMMA GoesOnStep ==
  ASSUME EnoughTime, Ps2IInv, NEW n \in 1 .. 11, NEW to \in 24 .. 255, GoesOn(n, to),
         page > 22, program = "ascii", Pace', Found',
         x5' \in {0, 1}, x6' \in {0, 1}, x8' \in Byte, gpio_out' \in Byte
  PROVE  Ps2IInv' /\ UNCHANGED <<program, waiting>>
<1>1. page' = to /\ x4' = x4 /\ waiting' = waiting /\ Takes(n)
  BY DEF GoesOn
<1>2. /\ Level' = Level /\ held' \in 0 .. Gap
      /\ UNCHANGED <<program, code, kbit, clock>>
  BY <1>1, TakesTime DEF Ps2IInv
<1>3. Types'
  BY <1>1, <1>2 DEF Ps2IInv, Types, Byte
<1>4. page \in Byte /\ page \notin 0 .. 22 /\ page' \notin 0 .. 22
  BY <1>1 DEF Ps2IInv, Types, Byte
<1>5. Bits'
  BY <1>1, <1>2, <1>4 DEF Ps2IInv, Bits, Types, Byte
<1>6. Pending'
  BY <1>1, <1>2, <1>4 DEF Ps2IInv, Pending, Queue
<1> QED
  BY <1>1, <1>2, <1>3, <1>5, <1>6 DEF Ps2IInv

\* The start page.
LEMMA StartStep ==
  ASSUME EnoughTime, Ps2IInv, Start
  PROVE  Ps2IInv' /\ UNCHANGED <<program, waiting, gpio_out, x5, x6>>
<1>1. /\ page = 0 /\ Takes(10) /\ page' = 1 /\ x4' = 0
      /\ x5 = 0 /\ x6 = 0 /\ x5' = x5 /\ x6' = x6
      /\ UNCHANGED <<x8, gpio_out, waiting>>
  BY PageNumbers DEF Start, Ps2IInv, Found
<1>2. /\ Pace' /\ Level' = Level /\ held' \in 0 .. Gap
      /\ UNCHANGED <<program, code, kbit, clock>>
  BY <1>1, TakesTime DEF Ps2IInv
<1>3. Types'
  BY <1>1, <1>2 DEF Ps2IInv, Types, Byte
<1>4. code' \in Byte
  BY <1>3, ConstFacts DEF Types
<1>5. Bits'
  BY <1>1, <1>4, NoBits
<1>6. Found'
  BY <1>1 DEF Found
<1>7. Pending'
  BY <1>1, <1>2 DEF Ps2IInv, Pending, Queue
<1> QED
  BY <1>1, <1>2, <1>3, <1>5, <1>6, <1>7 DEF Ps2IInv

\* A round of the polling loop.
LEMMA PollStep ==
  ASSUME EnoughTime, Ps2IInv, Poll
  PROVE  Ps2IInv' /\ UNCHANGED <<program, waiting, gpio_out, x5, x6>>
<1>1. /\ page \in 1 .. 22 /\ Takes(3) /\ UNCHANGED <<page, x4, x5, x6, x8, gpio_out, waiting>>
  BY PageNumbers DEF Poll, regVars
<1>2. clock = page % 2
  <2>1. \A p \in 1 .. 22 : p % 2 = 0 \/ p % 2 = 1
    OBVIOUS
  <2> QED  BY <1>1, <2>1 DEF Poll, Awaited, Ps2IInv, Types
<1>3. /\ Pace' /\ Level' = Level /\ held' \in 0 .. Gap
      /\ UNCHANGED <<program, code, kbit, clock>>
  BY <1>1, <1>2, TakesTime DEF Ps2IInv
<1> QED
  BY <1>1, <1>3 DEF Ps2IInv, Types, Bits, Pending, Queue, Found

\* A page that has seen its edge goes on to the next.
LEMMA EdgeStep ==
  ASSUME EnoughTime, Ps2IInv, NEW n \in 1 .. 11, Takes(n), page \in 1 .. 22,
         clock = Awaited, page' = page + 1, x4' \in Byte,
         x4' = code % 2^Got(page + 1),
         UNCHANGED <<x5, x6, x8, gpio_out, waiting>>
  PROVE  Ps2IInv' /\ UNCHANGED <<program, waiting, gpio_out, x5, x6>>
<1>1. clock # page % 2
  <2>1. \A p \in 1 .. 22 : p % 2 = 0 \/ p % 2 = 1
    OBVIOUS
  <2> QED  BY <2>1 DEF Awaited
<1>2. /\ Level = page - 1 /\ Pace' /\ Level' = Level /\ held' \in 0 .. Gap
      /\ UNCHANGED <<program, code, kbit, clock>>
  BY <1>1, TakesTime DEF Ps2IInv
<1>3. Types'
  BY <1>2 DEF Ps2IInv, Types, Byte
<1>4. code \in Codes /\ code \in Byte /\ code % 2^8 = code
  BY ConstFacts, OneMoreBit DEF Ps2IInv, Types
<1>5. page = 22 => x4' = code
  <2>1. page = 22 => page + 1 = 23
    OBVIOUS
  <2>2. Got(23) = 8
    BY DEF Got
  <2> QED  BY <1>4, <2>1, <2>2
<1>6. Bits'
  <2>1. page' \in 1 .. 22 => x4' = code' % 2^Got(page')
    BY <1>2, Zenon
  <2>2. page' > 22 => page = 22
    OBVIOUS
  <2>3. page' > 22 => x4' \in Codes
    BY <1>4, <1>5, <2>2
  <2> QED  BY <2>1, <2>3, Zenon DEF Bits
<1>7. Found'
  BY DEF Found
<1>8. waiting = << code >>
  <2>1. page = 1 => Level = 0
    BY <1>2
  <2> HIDE DEF Level
  <2> QED  BY <2>1 DEF Ps2IInv, Pending, Queue
<1>9. Pending'
  <2>1. CASE page = 22
    <3>1. page' = 23 /\ Level' = 21 /\ x4' = code /\ code' = code
      BY <1>2, <1>5, <2>1
    <3> HIDE DEF Level
    <3> QED  BY <1>8, <3>1 DEF Pending, Queue
  <2>2. CASE page # 22
    <3>1. page' \in 2 .. 22 /\ code' = code
      BY <1>2, <2>2
    <3> HIDE DEF Level
    <3> QED  BY <1>8, <3>1 DEF Pending, Queue
  <2> QED  BY <2>1, <2>2
<1> QED
  BY <1>2, <1>3, <1>6, <1>7, <1>9 DEF Ps2IInv

-----------------------------------------------------------------------------
\* The steps of the promise.

KbStep == [Kb!Next]_(Kb!keysVars)

\* Nothing of what the promise speaks of changes.
LEMMA KbStutter ==
  ASSUME UNCHANGED <<program, waiting, gpio_out, x5, x6>>
  PROVE  KbStep
BY DEF KbStep, Kb!keysVars

\* The program takes the code that waits the longest.
LEMMA KbTake ==
  ASSUME NEW c, waiting # << >>, Head(waiting) = c, waiting' = Tail(waiting),
         program' = program,
         Kb!Show(c) \/ Kb!Release(c) \/ Kb!Prefix(c) \/ Kb!PlainOrExtended(c)
  PROVE  KbStep
<1>1. Kb!Take
  BY Zenon DEF Kb!Take
<1> QED
  BY <1>1, Zenon DEF KbStep, Kb!Next

LEMMA EdgeInv ==
  ASSUME EnoughTime, Ps2IInv, Edge
  PROVE  Ps2IInv' /\ KbStep
<1>1. /\ page \in 1 .. 22 /\ page \notin {3, 5, 7, 9, 11, 13, 15, 17}
      /\ clock = Awaited /\ Takes(11) /\ page' = page + 1
      /\ UNCHANGED <<x4, x5, x6, x8, gpio_out, waiting>>
  BY PageNumbers DEF Edge, regVars
<1>2. Got(page + 1) = Got(page)
  BY <1>1 DEF Got
<1>3. x4 \in Byte /\ x4 = code % 2^Got(page)
  BY <1>1 DEF Ps2IInv, Types, Bits
<1>4. x4' \in Byte /\ x4' = code % 2^Got(page + 1)
  BY <1>1, <1>2, <1>3, Zenon
<1>5. 11 \in 1 .. 11
  OBVIOUS
<1>6. Ps2IInv' /\ UNCHANGED <<program, waiting, gpio_out, x5, x6>>
  BY <1>1, <1>4, <1>5, EdgeStep
<1> QED
  BY <1>6, KbStutter

LEMMA SampleInv ==
  ASSUME EnoughTime, Ps2IInv, Sample
  PROVE  Ps2IInv' /\ KbStep
<1> DEFINE b == (page - 3) \div 2
<1>1. /\ page \in {3, 5, 7, 9, 11, 13, 15, 17}
      /\ clock = Awaited /\ Takes(10 + DATA) /\ page' = page + 1
      /\ x4' = IF DATA = 1 THEN WithBit(b) ELSE x4
      /\ UNCHANGED <<x5, x6, x8, gpio_out, waiting>>
  BY PageNumbers DEF Sample
<1>2. /\ page \in 1 .. 22 /\ page % 2 = 1 /\ b \in 0 .. 7
      /\ Got(page) = b /\ Got(page + 1) = b + 1 /\ page = 2 * b + 3
  BY <1>1 DEF Got
<1>3. DATA \in {0, 1} /\ 10 + DATA \in 1 .. 11
  BY DataBit DEF Ps2IInv
<1>4. clock = 0
  BY <1>1, <1>2 DEF Awaited
<1>5. Level = page - 1 /\ Level = 2 * kbit + clock /\ kbit \in 0 .. 10
  <2>1. page \in 1 .. 22 /\ clock # page % 2 => Level = page - 1
    BY <1>1, <1>3, TakesTime DEF Ps2IInv
  <2> QED  BY <1>2, <1>4, <2>1, LevelFacts DEF Ps2IInv, Types
<1>6. kbit = b + 1
  <2> HIDE DEF b, Level
  <2> QED  BY <1>2, <1>4, <1>5
<1>7. DATA = BitOf(code, b)
  <2>1. kbit \in 1 .. 8 /\ kbit - 1 = b
    <3> HIDE DEF b
    <3> QED  BY <1>2, <1>6
  <2> HIDE DEF b
  <2> QED  BY <2>1, DataBit, Zenon DEF Ps2IInv
<1>8. code \in Byte /\ x4 = code % 2^b
  BY <1>2, ConstFacts DEF Ps2IInv, Types, Bits
<1>9. x4' \in Byte /\ x4' = code % 2^(b + 1)
  <2> HIDE DEF b
  <2>1. /\ BitOf(x4, b) # 1
        /\ code % 2^(b + 1) = IF BitOf(code, b) = 1 THEN (code % 2^b) + 2^b ELSE code % 2^b
        /\ code % 2^(b + 1) \in Byte
    BY <1>2, <1>8, OneMoreBit
  <2>2. WithBit(b) = x4 + 2^b
    BY <2>1 DEF WithBit
  <2>3. x4' = code % 2^(b + 1)
    BY <1>1, <1>7, <1>8, <2>1, <2>2, Zenon
  <2> QED  BY <2>1, <2>3
<1>10. x4' = code % 2^Got(page + 1)
  <2> HIDE DEF b
  <2> QED  BY <1>2, <1>9, Zenon
<1>11. Ps2IInv' /\ UNCHANGED <<program, waiting, gpio_out, x5, x6>>
  <2> HIDE DEF b
  <2> QED  BY <1>1, <1>2, <1>3, <1>9, <1>10, EdgeStep
<1> QED
  BY <1>11, KbStutter

LEMMA ResultInv ==
  ASSUME EnoughTime, Ps2IInv, Result
  PROVE  Ps2IInv' /\ KbStep
<1>1. /\ program = "reader" /\ page = 23 /\ gpio_out' = x4 /\ Taken(11)
      /\ x5' = x5 /\ x6' = x6 /\ x8' = x8
  BY PageNumbers DEF Result
<1>2. /\ Ps2IInv' /\ waiting # << >> /\ Head(waiting) = x4
      /\ waiting' = Tail(waiting) /\ program' = program
  BY <1>1, TakenStep DEF Ps2IInv, Types
<1>3. Kb!Show(x4)
  BY <1>1, Zenon DEF Kb!Show
<1> QED
  BY <1>2, <1>3, KbTake

LEMMA ProcessBpInv ==
  ASSUME EnoughTime, Ps2IInv, ProcessBp
  PROVE  Ps2IInv' /\ KbStep
<1>1. program = "ascii" /\ page = 23 /\ x8' = x8 /\ gpio_out' = gpio_out
  BY PageNumbers DEF ProcessBp
<1>2. CASE x5 = 1
  <2>1. x5' = 0 /\ x6' = 0 /\ Taken(10)
    BY <1>2 DEF ProcessBp
  <2>2. /\ Ps2IInv' /\ waiting # << >> /\ Head(waiting) = x4
        /\ waiting' = Tail(waiting) /\ program' = program
    BY <1>1, <2>1, TakenStep DEF Ps2IInv, Types
  <2>3. ~ (x5' = 1) /\ ~ (x6' = 1)
    BY <2>1
  <2>4. Kb!Release(x4)
    BY <1>1, <1>2, <2>3, Zenon DEF Kb!Release
  <2> QED  BY <2>2, <2>4, KbTake
<1>3. CASE x5 # 1
  <2>1. GoesOn(6, 24) /\ x5' = x5 /\ x6' = x6
    BY <1>3, PageNumbers DEF ProcessBp
  <2>2. page' = 24 /\ Takes(6)
    BY <2>1 DEF GoesOn
  <2>3. Pace'
    BY <1>1, <2>2, TakesTime DEF Ps2IInv
  <2>4. Found'
    BY <1>3, <2>1, <2>2 DEF Found, Ps2IInv, Types
  <2>5. /\ page > 22 /\ 6 \in 1 .. 11 /\ 24 \in 24 .. 255
        /\ x5' \in {0, 1} /\ x6' \in {0, 1} /\ x8' \in Byte /\ gpio_out' \in Byte
    BY <1>1, <2>1 DEF Ps2IInv, Types
  <2>6. Ps2IInv' /\ UNCHANGED <<program, waiting>>
    BY <1>1, <2>1, <2>3, <2>4, <2>5, GoesOnStep
  <2> QED  BY <1>1, <2>1, <2>6, KbStutter
<1> QED
  BY <1>2, <1>3

\* After the first page of the chain it is the ASCII program.
LEMMA AsciiPages ==
  ASSUME Ps2IInv, page > 23
  PROVE  program = "ascii" /\ x5 = 0
BY DEF Ps2IInv, Types, Found, Byte

LEMMA ProcessF0Inv ==
  ASSUME EnoughTime, Ps2IInv, ProcessF0
  PROVE  Ps2IInv' /\ KbStep
<1>1. page = 24 /\ x6' = x6 /\ x8' = x8 /\ gpio_out' = gpio_out
  BY PageNumbers DEF ProcessF0
<1>2. program = "ascii" /\ x5 = 0
  BY <1>1, AsciiPages
<1>3. CASE x4 = 240
  <2>1. x5' = 1 /\ Taken(9)
    BY <1>3 DEF ProcessF0
  <2>2. /\ Ps2IInv' /\ waiting # << >> /\ Head(waiting) = x4
        /\ waiting' = Tail(waiting) /\ program' = program
    BY <1>1, <2>1, TakenStep DEF Ps2IInv, Types
  <2>3. ~ (x5 = 1)
    BY <1>2
  <2>4. Kb!Prefix(x4)
    BY <1>1, <1>2, <1>3, <2>1, <2>3, Zenon DEF Kb!Prefix, Kb!BREAK
  <2> QED  BY <2>2, <2>4, KbTake
<1>4. CASE x4 # 240
  <2>1. GoesOn(8, 25) /\ x5' = x5
    BY <1>4, PageNumbers DEF ProcessF0
  <2>2. page' = 25 /\ Takes(8) /\ x4' = x4
    BY <2>1 DEF GoesOn
  <2>3. Pace'
    BY <1>1, <2>2, TakesTime DEF Ps2IInv
  <2>4. Found'
    BY <1>2, <1>4, <2>1, <2>2 DEF Found
  <2>5. /\ page > 22 /\ 8 \in 1 .. 11 /\ 25 \in 24 .. 255
        /\ x5' \in {0, 1} /\ x6' \in {0, 1} /\ x8' \in Byte /\ gpio_out' \in Byte
    BY <1>1, <2>1 DEF Ps2IInv, Types
  <2>6. Ps2IInv' /\ UNCHANGED <<program, waiting>>
    BY <1>2, <2>1, <2>3, <2>4, <2>5, GoesOnStep
  <2> QED  BY <1>1, <2>1, <2>6, KbStutter
<1> QED
  BY <1>3, <1>4

LEMMA ProcessE0Inv ==
  ASSUME EnoughTime, Ps2IInv, ProcessE0
  PROVE  Ps2IInv' /\ KbStep
<1>1. page = 25 /\ x5' = x5 /\ x8' = x8 /\ gpio_out' = gpio_out
  BY PageNumbers DEF ProcessE0
<1>2. program = "ascii" /\ x5 = 0 /\ x4 # 240
  BY <1>1, AsciiPages DEF Ps2IInv, Found
<1>3. CASE x4 = 224
  <2>1. x6' = 1 /\ Taken(9)
    BY <1>3 DEF ProcessE0
  <2>2. /\ Ps2IInv' /\ waiting # << >> /\ Head(waiting) = x4
        /\ waiting' = Tail(waiting) /\ program' = program
    BY <1>1, <2>1, TakenStep DEF Ps2IInv, Types
  <2>3. ~ (x5 = 1)
    BY <1>2
  <2>4. Kb!Prefix(x4)
    BY <1>1, <1>2, <1>3, <2>1, <2>3, Zenon DEF Kb!Prefix, Kb!EXTENDED
  <2> QED  BY <2>2, <2>4, KbTake
<1>4. CASE x4 # 224
  <2>1. GoesOn(8, 26) /\ x6' = x6
    BY <1>4, PageNumbers DEF ProcessE0
  <2>2. page' = 26 /\ Takes(8) /\ x4' = x4
    BY <2>1 DEF GoesOn
  <2>3. Pace'
    BY <1>1, <2>2, TakesTime DEF Ps2IInv
  <2>4. Found'
    BY <1>1, <1>2, <1>4, <2>1, <2>2 DEF Found
  <2>5. /\ page > 22 /\ 8 \in 1 .. 11 /\ 26 \in 24 .. 255
        /\ x5' \in {0, 1} /\ x6' \in {0, 1} /\ x8' \in Byte /\ gpio_out' \in Byte
    BY <1>1, <2>1 DEF Ps2IInv, Types
  <2>6. Ps2IInv' /\ UNCHANGED <<program, waiting>>
    BY <1>2, <2>1, <2>3, <2>4, <2>5, GoesOnStep
  <2> QED  BY <1>1, <2>1, <2>6, KbStutter
<1> QED
  BY <1>3, <1>4

LEMMA ProcessExtcheckInv ==
  ASSUME EnoughTime, Ps2IInv, ProcessExtcheck
  PROVE  Ps2IInv' /\ KbStep
<1>1. page = 26 /\ x5' = x5 /\ x8' = x8 /\ gpio_out' = gpio_out
  BY PageNumbers DEF ProcessExtcheck
<1>2. program = "ascii" /\ x5 = 0 /\ x4 # 240 /\ x4 # 224
  BY <1>1, AsciiPages DEF Ps2IInv, Found
<1>3. CASE x6 = 1
  <2>1. x6' = 0 /\ Taken(10)
    BY <1>3 DEF ProcessExtcheck
  <2>2. /\ Ps2IInv' /\ waiting # << >> /\ Head(waiting) = x4
        /\ waiting' = Tail(waiting) /\ program' = program
    BY <1>1, <2>1, TakenStep DEF Ps2IInv, Types
  <2>3. ~ (x5 = 1) /\ ~ (x6' = 1)
    BY <1>2, <2>1
  <2>4. Kb!PlainOrExtended(x4)
    BY <1>1, <1>2, <1>3, <2>3, Zenon DEF Kb!PlainOrExtended, Kb!BREAK, Kb!EXTENDED
  <2> QED  BY <2>2, <2>4, KbTake
<1>4. CASE x6 # 1
  <2>1. GoesOn(7, 27) /\ x6' = x6
    BY <1>4, PageNumbers DEF ProcessExtcheck
  <2>2. page' = 27 /\ Takes(7) /\ x4' = x4
    BY <2>1 DEF GoesOn
  <2>3. Pace'
    BY <1>1, <2>2, TakesTime DEF Ps2IInv
  <2>4. Found'
    BY <1>1, <1>2, <1>4, <2>1, <2>2 DEF Found, Ps2IInv, Types
  <2>5. /\ page > 22 /\ 7 \in 1 .. 11 /\ 27 \in 24 .. 255
        /\ x5' \in {0, 1} /\ x6' \in {0, 1} /\ x8' \in Byte /\ gpio_out' \in Byte
    BY <1>1, <2>1 DEF Ps2IInv, Types
  <2>6. Ps2IInv' /\ UNCHANGED <<program, waiting>>
    BY <1>2, <2>1, <2>3, <2>4, <2>5, GoesOnStep
  <2> QED  BY <1>1, <2>1, <2>6, KbStutter
<1> QED
  BY <1>3, <1>4

LEMMA ProcessDispatchInv ==
  ASSUME EnoughTime, Ps2IInv, ProcessDispatch
  PROVE  Ps2IInv' /\ KbStep
<1> DEFINE to == IF 226 < x4 THEN 29 ELSE 29 + x4
<1>1. /\ page = 27 /\ UNCHANGED <<x5, x6, x8, gpio_out>>
      /\ IF 226 < x4 THEN GoesOn(8, 29) ELSE GoesOn(10, (29 + x4) % 256)
  BY PageNumbers DEF ProcessDispatch
<1>2. program = "ascii" /\ x5 = 0 /\ x4 # 240 /\ x4 # 224 /\ x6 = 0 /\ x4 \in 0 .. 255
  BY <1>1, AsciiPages DEF Ps2IInv, Types, Found, Byte
<1>3. to \in 29 .. 255 /\ (x4 <= 226 => (29 + x4) % 256 = to)
  BY <1>2
<1>4. PICK n \in {8, 10} : GoesOn(n, to)
  BY <1>1, <1>2, <1>3
<1>5. Ascii(to - 29) = Ascii(x4)
  <2>1. CASE 226 < x4
    <3>1. to - 29 = 0
      BY <2>1
    <3>2. Ascii(x4) = Ascii(0)
      BY <1>2, <2>1, AsciiFacts
    <3> QED  BY <3>1, <3>2, Zenon
  <2>2. CASE x4 <= 226
    <3>1. to - 29 = x4
      BY <1>2, <2>2
    <3> QED  BY <3>1, Zenon
  <2> QED  BY <1>2, <2>1, <2>2
<1> HIDE DEF to
<1>6. page' = to /\ Takes(n) /\ x4' = x4
  BY <1>4, Zenon DEF GoesOn
<1>7. Pace'
  <2>1. n \in 1 .. 11 /\ n <= 10 /\ page' \in 29 .. 255
    BY <1>3, <1>6
  <2> QED  BY <1>1, <1>6, <2>1, TakesTime DEF Ps2IInv
<1>8. Ascii(page' - 29) = Ascii(x4')
  BY <1>5, <1>6, Zenon
<1>9. Found'
  BY <1>1, <1>2, <1>3, <1>6, <1>8 DEF Found
<1>10. Ps2IInv' /\ UNCHANGED <<program, waiting>>
  <2>1. n \in 1 .. 11 /\ to \in 24 .. 255 /\ page > 22
    BY <1>1, <1>3
  <2> QED  BY <1>1, <1>2, <1>4, <1>7, <1>9, <2>1, GoesOnStep DEF Ps2IInv, Types
<1> QED
  BY <1>1, <1>10, KbStutter

LEMMA TranslateInv ==
  ASSUME EnoughTime, Ps2IInv, Translate
  PROVE  Ps2IInv' /\ KbStep
<1>1. /\ page >= 29 /\ page \in Byte /\ x8' = Ascii(page - 29) /\ GoesOn(11, 28)
      /\ UNCHANGED <<x5, x6, gpio_out>>
  BY PageNumbers DEF Translate, Ps2IInv, Types
<1>2. /\ program = "ascii" /\ x5 = 0 /\ x4 # 240 /\ x4 # 224 /\ x6 = 0
      /\ Ascii(page - 29) = Ascii(x4)
  BY <1>1, AsciiPages DEF Ps2IInv, Found, Byte
<1>3. page' = 28 /\ Takes(11) /\ x4' = x4
  BY <1>1 DEF GoesOn
<1>4. Pace'
  BY <1>1, <1>3, TakesTime DEF Ps2IInv
<1>5. Found'
  BY <1>1, <1>2, <1>3 DEF Found
<1>6. x8' \in Byte
  <2>1. page - 29 \in Int
    BY <1>1 DEF Byte
  <2> QED  BY <1>1, <2>1, AsciiFacts
<1>7. Ps2IInv' /\ UNCHANGED <<program, waiting>>
  <2>1. /\ page > 22 /\ 11 \in 1 .. 11 /\ 28 \in 24 .. 255
        /\ x5' \in {0, 1} /\ x6' \in {0, 1} /\ gpio_out' \in Byte
    BY <1>1 DEF Ps2IInv, Types, Byte
  <2> QED  BY <1>1, <1>2, <1>4, <1>5, <1>6, <2>1, GoesOnStep
<1> QED
  BY <1>1, <1>7, KbStutter

LEMMA EmitInv ==
  ASSUME EnoughTime, Ps2IInv, Emit
  PROVE  Ps2IInv' /\ KbStep
<1>1. page = 28 /\ gpio_out' = x8 /\ Taken(11) /\ x5' = x5 /\ x6' = x6 /\ x8' = x8
  BY PageNumbers DEF Emit
<1>2. program = "ascii" /\ x5 = 0 /\ x4 # 240 /\ x4 # 224 /\ x6 = 0 /\ x8 = Ascii(x4)
  BY <1>1, AsciiPages DEF Ps2IInv, Found
<1>3. /\ Ps2IInv' /\ waiting # << >> /\ Head(waiting) = x4
      /\ waiting' = Tail(waiting) /\ program' = program
  BY <1>1, TakenStep DEF Ps2IInv, Types
<1>4. ~ (x5 = 1) /\ ~ (x6 = 1) /\ ~ (x6' = 1)
  BY <1>1, <1>2
<1>5. Kb!PlainOrExtended(x4)
  BY <1>1, <1>2, <1>4, Zenon DEF Kb!PlainOrExtended, Kb!BREAK, Kb!EXTENDED
<1> QED
  BY <1>3, <1>5, KbTake

LEMMA StepInv ==
  ASSUME EnoughTime, Ps2IInv, [Next]_vars
  PROVE  Ps2IInv' /\ KbStep
<1>1. CASE Work
  <2>1. UNCHANGED <<program, waiting, gpio_out, x5, x6>>
    BY <1>1 DEF Work, regVars
  <2> QED  BY <1>1, <2>1, WorkStep, KbStutter
<1>2. CASE Start
  BY <1>2, StartStep, KbStutter
<1>3. CASE Poll
  BY <1>3, PollStep, KbStutter
<1>4. CASE Edge \/ Sample \/ Result \/ ProcessBp
  BY <1>4, EdgeInv, SampleInv, ResultInv, ProcessBpInv
<1>5. CASE \/ ProcessF0 \/ ProcessE0 \/ ProcessExtcheck
           \/ ProcessDispatch \/ Translate \/ Emit
  BY <1>5, ProcessF0Inv, ProcessE0Inv, ProcessExtcheckInv, ProcessDispatchInv,
     TranslateInv, EmitInv
<1>6. CASE KeyRise \/ KeyFall
  <2>1. UNCHANGED <<program, waiting, gpio_out, x5, x6>>
    BY <1>6 DEF KeyRise, KeyFall, Moves, regVars
  <2> QED  BY <1>6, <2>1, WithinFrame, KbStutter
<1>7. CASE KeyPress
  <2>1. Ps2IInv' /\ \E c \in Codes : waiting' = Append(waiting, c)
    BY <1>7, NewFrame
  <2>2. UNCHANGED <<program, gpio_out, x5, x6>>
    BY <1>7 DEF KeyPress, Moves, regVars
  <2>3. Kb!Press
    BY <2>1, <2>2, Zenon DEF Kb!Press
  <2> QED  BY <2>1, <2>3, Zenon DEF KbStep, Kb!Next
<1>8. CASE UNCHANGED vars
  <2>1. UNCHANGED <<program, page, busy, x4, x5, x6, x8, gpio_out, code, kbit, clock, held, waiting>>
    BY <1>8 DEF vars, regVars, keyVars
  <2>2. Ps2IInv'
    BY <2>1 DEF Ps2IInv, Types, Pace, PaceOf, Level, Chain, Bits, Got, Pending, Queue, Found
  <2> QED  BY <2>1, <2>2, KbStutter
<1> QED
  BY <1>1, <1>2, <1>3, <1>4, <1>5, <1>6, <1>7, <1>8 DEF Next, Chip

-----------------------------------------------------------------------------
LEMMA InvFacts ==
  ASSUME Ps2IInv
  PROVE  TypeOK /\ InStep
<1>1. waiting \in Seq(Codes) /\ Len(waiting) <= 2
  <2>1. code \in Codes /\ (page > 22 => x4 \in Codes) /\ page \in Byte
    BY DEF Ps2IInv, Types, Bits
  <2> HIDE DEF Level
  <2>2. \A c \in Codes, x \in Codes :
          /\ << >> \in Seq(Codes) /\ << c >> \in Seq(Codes) /\ << x, c >> \in Seq(Codes)
          /\ Len(<< >>) = 0 /\ Len(<< c >>) = 1 /\ Len(<< x, c >>) = 2
    OBVIOUS
  <2>3. \/ waiting = << >> \/ waiting = << code >>
        \/ page > 22 /\ waiting = << x4, code >>
        \/ page > 22 /\ waiting = << x4 >>
    BY <2>1 DEF Ps2IInv, Pending, Queue, Byte
  <2>4. CASE waiting = << >>
    BY <2>4
  <2>5. CASE waiting = << code >>
    BY <2>1, <2>2, <2>5
  <2>6. CASE page > 22 /\ waiting = << x4, code >>
    BY <2>1, <2>2, <2>6
  <2>7. CASE page > 22 /\ waiting = << x4 >>
    BY <2>1, <2>2, <2>7
  <2> QED  BY <2>3, <2>4, <2>6, <2>7, <2>5
<1>2. TypeOK
  <2>1. page \in IF program = "reader" THEN 0 .. RESULT_PAGE ELSE Byte
    BY PageNumbers DEF Ps2IInv, Types, Byte
  <2> QED  BY <1>1, <2>1 DEF Ps2IInv, Types, Pace, PaceOf, TypeOK
<1>3. InStep
  <2>1. page \in 1 .. 22 => Level = page - 1 \/ Level = page - 2 \/ (Level = 21 /\ page = 1)
    BY DEF Ps2IInv, Pace, PaceOf
  <2>2. page \notin 1 .. 22 => Level \in {0, 21}
    BY DEF Ps2IInv, Pace, PaceOf
  <2>3. \A p \in 1 .. 22 : (p - 2 + 1) % 22 = p - 1 /\ (21 + 1) % 22 = 0
    OBVIOUS
  <2> HIDE DEF Level
  <2> QED  BY <2>1, <2>2, <2>3, PageNumbers DEF InStep
<1> QED
  BY <1>2, <1>3

\* With time to spare the programs' state stays what its type says, and no more
\* than two codes, one taken whole and the next one's frame begun, ever wait.
THEOREM Ps2Types == ASSUME EnoughTime PROVE Spec => []TypeOK
<1>1. Ps2IInv /\ [Next]_vars => Ps2IInv'
  BY StepInv
<1>2. Ps2IInv => TypeOK
  BY InvFacts
<1> QED
  BY InitInv, <1>1, <1>2, PTL DEF Spec

\* With time to spare no clock edge is missed and none is counted twice, for
\* every scan code: the page always waits for the edge that comes next.
THEOREM Ps2StaysInStep == ASSUME EnoughTime PROVE Spec => []InStep
<1>1. Ps2IInv /\ [Next]_vars => Ps2IInv'
  BY StepInv
<1>2. Ps2IInv => InStep
  BY InvFacts
<1> QED
  BY InitInv, <1>1, <1>2, PTL DEF Spec

\* With time to spare both programs do with the codes sent what Keys promises:
\* each is put together whole from its bits, taken in its turn, and shown.
THEOREM Ps2Refines == ASSUME EnoughTime PROVE Spec => ImplementsKeys
<1>1. Init => Kb!Init
  BY DEF Init, ChipInit, KeyInit, Kb!Init
<1>2. Ps2IInv /\ [Next]_vars => Ps2IInv'
  BY StepInv
<1>3. Ps2IInv /\ [Next]_vars => [Kb!Next]_(Kb!keysVars)
  BY StepInv DEF KbStep
<1> QED
  BY InitInv, <1>1, <1>2, <1>3, PTL DEF Spec, ImplementsKeys, Kb!Safety

=============================================================================
