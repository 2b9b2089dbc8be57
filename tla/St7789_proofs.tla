--------------------------- MODULE St7789_proofs ----------------------------
(***************************************************************************)
(* For every panel, colour and bound on resets: the panel never loses step *)
(* with the driver when the host starts it while the boot ROM has CS high, *)
(* and takes what Display promises when the driver's immediates say what   *)
(* they are meant to.                                                      *)
(***************************************************************************)
EXTENDS St7789, TLAPS

\* The host starts the driver with CS high on the pins.
Deselected == StartAt \subseteq 8 .. 15

\* The counters the driver loads are those it is built for.
Loaded ==
  /\ \A v \in PixelCounts : load_const32(v) = v
  /\ delay_count < 2048

-----------------------------------------------------------------------------
\* Pages and bytes.

LEMMA PageNumbers ==
  /\ RING_START = 147 /\ CTRL_PAGE = 163 /\ DONE_PAGE = 164
  /\ DELAYS = {9, 18} /\ BitPages = (1 .. 162) \ {9, 18}
BY DEF RING_START, RING_LEN, CTRL_PAGE, DONE_PAGE, DELAYS, BitPages

\* A byte's pages follow each other, and after its last one comes the next byte,
\* a delay or the end of the ring.
LEMMA PageFacts ==
  ASSUME NEW n \in BitPages
  PROVE  /\ n \in 1 .. 162 /\ n \notin {9, 18}
         /\ BitOf(n) \in 0 .. 7 /\ ByteOf(n) \in 1 .. 20
         /\ BitOf(n) < 7 => /\ n + 1 \in BitPages
                            /\ BitOf(n + 1) = BitOf(n) + 1 /\ ByteOf(n + 1) = ByteOf(n)
         /\ BitOf(n) = 7 /\ n + 1 \in BitPages =>
              BitOf(n + 1) = 0 /\ ByteOf(n + 1) = ByteOf(n) + 1
         /\ n + 1 \notin BitPages => n + 1 \in {9, 18, 163}
         /\ n + 1 = 9 => BitOf(n) = 7 /\ ByteOf(n) = 1
         /\ n + 1 = 18 => BitOf(n) = 7 /\ ByteOf(n) = 2
         /\ n + 1 = 163 => BitOf(n) = 7 /\ ByteOf(n) = 20
         /\ n \in 19 .. 162 => (ByteOf(n) >= 19 <=> n >= 147)
<1>1. n \in 1 .. 162 /\ n \notin {9, 18}
  BY PageNumbers
<1>2. CASE n < 19
  BY <1>1, <1>2, PageNumbers DEF BitOf, ByteOf
<1>3. CASE n >= 19
  <2>1. \A w \in 0 .. 144 :
          /\ w % 8 \in 0 .. 7 /\ w \div 8 \in 0 .. 18
          /\ w < 144 => w \div 8 \in 0 .. 17
          /\ w % 8 < 7 => (w + 1) % 8 = (w % 8) + 1 /\ (w + 1) \div 8 = w \div 8
          /\ w % 8 = 7 => (w + 1) % 8 = 0 /\ (w + 1) \div 8 = (w \div 8) + 1
          /\ w = 143 => w % 8 = 7 /\ w \div 8 = 17
          /\ w \div 8 >= 16 <=> w >= 128
    OBVIOUS
  <2>2. n - 19 \in 0 .. 144 /\ n + 1 - 19 = n - 19 + 1
    BY <1>1, <1>3
  <2> QED  BY <1>1, <1>3, <2>1, <2>2, PageNumbers DEF BitOf, ByteOf
<1> QED
  BY <1>1, <1>2, <1>3

LEMMA FirstPages ==
  /\ BitOf(1) = 0 /\ ByteOf(1) = 1 /\ BitOf(10) = 0 /\ ByteOf(10) = 2
  /\ BitOf(19) = 0 /\ ByteOf(19) = 3 /\ BitOf(147) = 0 /\ ByteOf(147) = 19
BY DEF BitOf, ByteOf

\* The assumptions on the constants, one by one.
LEMMA ConstFacts ==
  /\ PANEL_WIDTH - 1 \in Nat /\ PANEL_WIDTH - 1 <= 65535
  /\ PANEL_HEIGHT - 1 \in Nat /\ PANEL_HEIGHT - 1 <= 65535
  /\ FILL_COLOR \in Nat /\ FILL_COLOR <= 65535 /\ MADCTL_VALUE \in 0 .. 255
  /\ \A v \in PixelCounts : v \in Nat /\ v > 0
  /\ delay_count \in Nat /\ StartAt \subseteq 0 .. 15 /\ MaxResets \in Nat
<1>1. PANEL_WIDTH - 1 \in Nat /\ PANEL_WIDTH - 1 <= 65535
  BY PanelAssumption
<1>2. PANEL_HEIGHT - 1 \in Nat /\ PANEL_HEIGHT - 1 <= 65535
  BY PanelAssumption
<1>3. FILL_COLOR \in Nat /\ FILL_COLOR <= 65535
  BY ColorAssumption
<1>4. /\ MADCTL_VALUE \in 0 .. 255
      /\ \A v \in PixelCounts : v \in Nat /\ v > 0
      /\ delay_count \in Nat /\ StartAt \subseteq 0 .. 15 /\ MaxResets \in Nat
  BY DriverAssumption
<1> QED
  BY <1>1, <1>2, <1>3, <1>4

\* The bytes, and what Display calls them.
LEMMA SentFacts ==
  ASSUME NEW j \in 1 .. 20
  PROVE  /\ Sent[j][1] \in {0, 4} /\ Sent[j][2] \in 0 .. 255
         /\ \A r \in Nat : (r = 0 \/ j >= 19) =>
              Panel!Item(j + 2 * r) = <<Sent[j][1] \div 4, Sent[j][2]>>
<1>1. /\ (PANEL_WIDTH - 1) \div 256 \in 0 .. 255 /\ (PANEL_WIDTH - 1) % 256 \in 0 .. 255
      /\ (PANEL_HEIGHT - 1) \div 256 \in 0 .. 255 /\ (PANEL_HEIGHT - 1) % 256 \in 0 .. 255
      /\ FILL_COLOR \div 256 \in 0 .. 255 /\ FILL_COLOR % 256 \in 0 .. 255
      /\ MADCTL_VALUE \in 0 .. 255
  <2>1. \A w \in Nat : w <= 65535 => w \div 256 \in 0 .. 255 /\ w % 256 \in 0 .. 255
    OBVIOUS
  <2>2. /\ PANEL_WIDTH - 1 \in Nat /\ PANEL_WIDTH - 1 <= 65535
        /\ PANEL_HEIGHT - 1 \in Nat /\ PANEL_HEIGHT - 1 <= 65535
        /\ FILL_COLOR \in Nat /\ FILL_COLOR <= 65535 /\ MADCTL_VALUE \in 0 .. 255
    BY ConstFacts
  <2> QED  BY <2>1, <2>2
<1>2. Sent[j][1] \in {0, 4} /\ Sent[j][2] \in 0 .. 255
  BY <1>1 DEF Sent, DC_CMD, DC_DATA
<1>3. Len(Panel!Commands) = 18
  BY DEF Panel!Commands
<1>4. CASE j \in 1 .. 18
  <2>1. Panel!Commands[j] = <<Sent[j][1] \div 4, Sent[j][2]>>
    BY <1>4 DEF Panel!Commands, Panel!CMD, Panel!DATA, Sent, DC_CMD, DC_DATA
  <2>2. \A r \in Nat : (r = 0 \/ j >= 19) => j + 2 * r = j /\ j <= Len(Panel!Commands)
    BY <1>3, <1>4
  <2>3. Panel!Item(j) = Panel!Commands[j]
    BY <1>3, <1>4 DEF Panel!Item
  <2> QED  BY <1>2, <2>1, <2>2, <2>3
<1>5. CASE j \in 19 .. 20
  <2>1. Panel!Color[j - 18] = <<Sent[j][1] \div 4, Sent[j][2]>>
    BY <1>5 DEF Panel!Color, Panel!CMD, Panel!DATA, Sent, DC_CMD, DC_DATA
  <2>2. ASSUME NEW r \in Nat
        PROVE  Panel!Item(j + 2 * r) = Panel!Color[j - 18]
    <3>1. ~ (j + 2 * r <= 18) /\ 1 + ((j + 2 * r - 18 - 1) % 2) = j - 18
      BY <1>5
    <3> QED  BY <1>3, <3>1 DEF Panel!Item
  <2> QED  BY <1>2, <2>1, <2>2
<1> QED
  BY <1>4, <1>5

LEMMA PageByte ==
  ASSUME NEW n \in BitPages
  PROVE  Sent[ByteOf(n)][1] \in {0, 4} /\ Sent[ByteOf(n)][2] \in 0 .. 255
<1>1. \A j \in 1 .. 20 : Sent[j][1] \in {0, 4} /\ Sent[j][2] \in 0 .. 255
  BY SentFacts
<1>2. ByteOf(n) \in 1 .. 20
  BY PageFacts
<1> QED
  BY <1>1, <1>2, Zenon

-----------------------------------------------------------------------------
\* Bits and pins.

LEMMA Powers ==
  /\ 2^0 = 1 /\ 2^1 = 2 /\ 2^2 = 4 /\ 2^3 = 8 /\ 2^4 = 16
  /\ 2^5 = 32 /\ 2^6 = 64 /\ 2^7 = 128 /\ 2^8 = 256
OBVIOUS

\* A register of bits.
LEMMA ShiftFacts ==
  ASSUME NEW n \in 0 .. 7, NEW s \in 0 .. 2^n - 1, NEW m \in {0, 1}
  PROVE  /\ s \in Nat
         /\ n < 7 => 2 * s + m \in 0 .. 2^(n + 1) - 1
         /\ n = 7 => 2 * s + m \in 0 .. 255
         /\ 0 \in 0 .. 2^0 - 1
<1>1. \A k \in 0 .. 7 : n = k => 2^n = 2^k /\ 2^(n + 1) = 2^(k + 1)
  OBVIOUS
<1>2. n = 0 \/ n = 1 \/ n = 2 \/ n = 3 \/ n = 4 \/ n = 5 \/ n = 6 \/ n = 7
  OBVIOUS
<1>3. /\ 2^n \in {1, 2, 4, 8, 16, 32, 64, 128} /\ 2^(n + 1) = 2 * 2^n
      /\ n = 7 => 2^n = 128
  BY <1>1, <1>2, Powers
<1> QED
  BY <1>3, Powers

\* A byte sent from its highest bit.
LEMMA NextBit ==
  ASSUME NEW b \in 0 .. 255, NEW k \in 0 .. 7
  PROVE  /\ (b \div 2^(7 - k)) % 2 \in {0, 1}
         /\ 2 * (b \div 2^(8 - k)) + ((b \div 2^(7 - k)) % 2) = b \div 2^(8 - (k + 1))
         /\ b \div 2^(8 - 0) = 0
         /\ k = 7 => 2 * (b \div 2^(8 - k)) + ((b \div 2^(7 - k)) % 2) = b
<1>1. b \div 2^(8 - 0) = 0
  BY Powers
<1>2. CASE k = 0
  <2>1. 2^(7 - k) = 128 /\ 2^(8 - k) = 256 /\ 2^(8 - (k + 1)) = 128
    BY <1>2, Powers
  <2> QED  BY <1>1, <1>2, <2>1
<1>3. CASE k = 1
  <2>1. 2^(7 - k) = 64 /\ 2^(8 - k) = 128 /\ 2^(8 - (k + 1)) = 64
    BY <1>3, Powers
  <2> QED  BY <1>1, <1>3, <2>1
<1>4. CASE k = 2
  <2>1. 2^(7 - k) = 32 /\ 2^(8 - k) = 64 /\ 2^(8 - (k + 1)) = 32
    BY <1>4, Powers
  <2> QED  BY <1>1, <1>4, <2>1
<1>5. CASE k = 3
  <2>1. 2^(7 - k) = 16 /\ 2^(8 - k) = 32 /\ 2^(8 - (k + 1)) = 16
    BY <1>5, Powers
  <2> QED  BY <1>1, <1>5, <2>1
<1>6. CASE k = 4
  <2>1. 2^(7 - k) = 8 /\ 2^(8 - k) = 16 /\ 2^(8 - (k + 1)) = 8
    BY <1>6, Powers
  <2> QED  BY <1>1, <1>6, <2>1
<1>7. CASE k = 5
  <2>1. 2^(7 - k) = 4 /\ 2^(8 - k) = 8 /\ 2^(8 - (k + 1)) = 4
    BY <1>7, Powers
  <2> QED  BY <1>1, <1>7, <2>1
<1>8. CASE k = 6
  <2>1. 2^(7 - k) = 2 /\ 2^(8 - k) = 4 /\ 2^(8 - (k + 1)) = 2
    BY <1>8, Powers
  <2> QED  BY <1>1, <1>8, <2>1
<1>9. CASE k = 7
  <2>1. 2^(7 - k) = 1 /\ 2^(8 - k) = 2 /\ 2^(8 - (k + 1)) = 1
    BY <1>9, Powers
  <2> QED  BY <1>1, <1>9, <2>1
<1> QED
  BY <1>2, <1>3, <1>4, <1>5, <1>6, <1>7, <1>8, <1>9

LEMMA PinFacts ==
  ASSUME NEW out \in 0 .. 15
  PROVE  /\ SCK(out) \in {0, 1} /\ MOSI(out) \in {0, 1} /\ DC(out) \in {0, 1}
         /\ CS(out) \in {0, 1} /\ (CS(out) = 1 <=> out >= 8)
BY DEF SCK, MOSI, DC, CS

\* The bit of a page.
TheBit(n) == (Sent[ByteOf(n)][2] \div 2^(7 - BitOf(n))) % 2

\* What a page puts on the pins: first without SCK, then with it.
LEMMA SetUpFacts ==
  ASSUME NEW n \in BitPages
  PROVE  LET v == setup_val(n)
         IN  /\ v \in 0 .. 15 /\ v + 1 \in 0 .. 15
             /\ SCK(v) = 0 /\ SCK(v + 1) = 1 /\ CS(v) = 0 /\ CS(v + 1) = 0
             /\ MOSI(v) = TheBit(n) /\ MOSI(v + 1) = TheBit(n) /\ TheBit(n) \in {0, 1}
             /\ DC(v) = Sent[ByteOf(n)][1] \div 4
             /\ DC(v + 1) = Sent[ByteOf(n)][1] \div 4
<1> DEFINE d == Sent[ByteOf(n)][1]
           m == TheBit(n)
<1>1. d \in {0, 4} /\ m \in {0, 1}
  <2>1. Sent[ByteOf(n)][2] \in 0 .. 255 /\ BitOf(n) \in 0 .. 7
    BY PageByte, PageFacts
  <2> QED
    BY <2>1, PageByte, NextBit DEF TheBit
<1>2. setup_val(n) = d + 2 * m
  BY DEF setup_val, TheBit
<1> HIDE DEF d, m
<1>3. \A e \in {0, 4}, c \in {0, 1} :
        /\ e + 2 * c \in 0 .. 15 /\ e + 2 * c + 1 \in 0 .. 15
        /\ SCK(e + 2 * c) = 0 /\ SCK(e + 2 * c + 1) = 1
        /\ CS(e + 2 * c) = 0 /\ CS(e + 2 * c + 1) = 0
        /\ MOSI(e + 2 * c) = c /\ MOSI(e + 2 * c + 1) = c
        /\ DC(e + 2 * c) = e \div 4 /\ DC(e + 2 * c + 1) = e \div 4
  BY DEF SCK, MOSI, DC, CS
<1> QED
  BY <1>1, <1>2, <1>3 DEF d, m

\* The panel's registers keep their types, and are empty when it is deselected.
LEMMA DrivesTypes ==
  ASSUME TypeOK, NEW out \in 0 .. 15, Drives(out)
  PROVE  /\ gpio_out' \in 0 .. 15
         /\ nbits' \in 0 .. 7 /\ shift' \in 0 .. 2^nbits' - 1
         /\ count' \in Nat /\ rested' \in Nat
         /\ last' \in {0, 1} \X (0 .. 255)
         /\ gpio_out' >= 8 => nbits' = 0 /\ shift' = 0
         /\ ~on => UNCHANGED <<count, last, rested>>
<1>1. /\ nbits \in 0 .. 7 /\ shift \in 0 .. 2^nbits - 1 /\ count \in Nat /\ rested \in Nat
      /\ last \in {0, 1} \X (0 .. 255) /\ gpio_out' = out
  BY DEF TypeOK, Drives, Captures, Unselected
<1>2. /\ MOSI(out) \in {0, 1} /\ DC(out) \in {0, 1} /\ (CS(out) = 1 <=> out >= 8)
  BY PinFacts
<1>3. 0 \in 0 .. 2^0 - 1 /\ 0 \in 0 .. 7
  BY Powers
<1>4. CASE CS(out) = 1
  <2>1. nbits' = 0 /\ shift' = 0 /\ UNCHANGED <<count, last, rested>>
    BY <1>4 DEF Drives, Captures, Unselected
  <2> QED  BY <1>1, <1>2, <1>3, <2>1
<1>5. CASE CS(out) # 1 /\ ~ (SCK(gpio_out) = 0 /\ SCK(out) = 1)
  <2>1. UNCHANGED <<nbits, shift, count, last, rested>>
    BY <1>5 DEF Drives, Captures, Unselected, panelVars
  <2> QED  BY <1>1, <1>2, <1>5, <2>1
<1>6. CASE CS(out) # 1 /\ SCK(gpio_out) = 0 /\ SCK(out) = 1 /\ nbits < 7
  <2>1. /\ nbits' = nbits + 1 /\ shift' = 2 * shift + MOSI(out)
        /\ UNCHANGED <<count, last, rested>>
    BY <1>6 DEF Drives, Captures, Unselected
  <2>2. 2 * shift + MOSI(out) \in 0 .. 2^(nbits + 1) - 1
    <3> DEFINE B == 0 .. 2^(nbits + 1) - 1
    <3>1. nbits < 7 => 2 * shift + MOSI(out) \in B
      BY <1>1, <1>2, ShiftFacts, Zenon
    <3> QED  BY <1>6, <3>1
  <2>3. shift' \in 0 .. 2^nbits' - 1
    BY <2>1, <2>2, Zenon
  <2> QED  BY <1>1, <1>2, <1>6, <2>1, <2>3
<1>7. CASE CS(out) # 1 /\ SCK(gpio_out) = 0 /\ SCK(out) = 1 /\ ~ (nbits < 7)
  <2>1. /\ nbits' = 0 /\ shift' = 0
        /\ count' = IF on THEN count + 1 ELSE count
        /\ last' = IF on THEN <<DC(out), 2 * shift + MOSI(out)>> ELSE last
        /\ rested' = IF on THEN 0 ELSE rested
    BY <1>7 DEF Drives, Captures, Unselected
  <2>2. nbits = 7
    BY <1>1, <1>7
  <2>3. 2 * shift + MOSI(out) \in 0 .. 255
    BY <1>1, <1>2, <2>2, ShiftFacts
  <2> QED  BY <1>1, <1>2, <1>3, <1>7, <2>1, <2>3
<1> QED
  BY <1>4, <1>5, <1>6, <1>7

-----------------------------------------------------------------------------
\* Numbers of 32 bits.

LEMMA NumberFacts ==
  /\ \A x \in Int32 : x \in Int /\ Decrement(x) \in Int32 /\ (x >= 0 => Decrement(x) = x - 1)
  /\ \A x \in Int : x >= -2048 /\ x < 2048 => x \in Int32
  /\ \A v \in Nat : /\ Immediate(v) \in Int32
                    /\ v < 2048 => Immediate(v) = v
                    /\ load_const32(v) \in Int32
<1>1. MaxInt \in Int /\ MaxInt > 9000000
  BY SMT DEF MaxInt
<1>2. MinInt = -MaxInt - 1
  BY SMT DEF MinInt
<1>3. Int32 = MinInt .. MaxInt
  BY SMT DEF Int32
<1>4. \A v \in Nat : /\ Immediate(v) \in Int /\ Immediate(v) >= -2048 /\ Immediate(v) < 2048
                     /\ v < 2048 => Immediate(v) = v
  <2>1. \A v \in Nat : v % 4096 \in Nat /\ v % 4096 < 4096 /\ (v < 2048 => v % 4096 = v)
    OBVIOUS
  <2> QED  BY <2>1 DEF Immediate
<1>5. \A x \in Int32 : x \in Int /\ Decrement(x) \in Int32 /\ (x >= 0 => Decrement(x) = x - 1)
  BY <1>1, <1>3, <1>2, SMT DEF Decrement
<1>6. \A v \in Nat : v % 4096 \in Nat /\ v \div 4096 \in Nat
  OBVIOUS
<1>7. \A a, b \in Int : a >= -2048 /\ a < 2048 /\ b >= -2048 /\ b < 2048
                          => a + 4096 * b \in Int32
  BY <1>1, <1>3, <1>2, SMT
<1>8. ASSUME NEW v \in Nat PROVE load_const32(v) \in Int32
  <2> DEFINE a == Immediate(v % 4096)
             b == Immediate(v \div 4096)
  <2>1. a \in Int /\ a >= -2048 /\ a < 2048 /\ b \in Int /\ b >= -2048 /\ b < 2048
    BY <1>4, <1>6
  <2>2. load_const32(v) = a + 4096 * b
    BY DEF load_const32
  <2> HIDE DEF a, b
  <2> QED  BY <1>7, <2>1, <2>2
<1>9. \A x \in Int : x >= -2048 /\ x < 2048 => x \in Int32
  BY <1>1, <1>3, <1>2, SMT
<1>10. ASSUME NEW v \in Nat PROVE Immediate(v) \in Int32
  <2>1. Immediate(v) \in Int /\ Immediate(v) >= -2048 /\ Immediate(v) < 2048
    BY <1>4
  <2> QED  BY <1>9, <2>1
<1> QED
  BY <1>4, <1>5, <1>8, <1>9, <1>10

-----------------------------------------------------------------------------
\* The inductive invariant of the pins.

\* SCK is low in the second half of a bit, and the bit is out; a driver that is
\* started finds an empty panel, which the boot ROM's counter has emptied.
Pins ==
  /\ on /\ part = "pulse" => page \in BitPages /\ gpio_out = setup_val(page)
  /\ on /\ page = 0 => gpio_out >= 8
  /\ (~on \/ page = 0) /\ gpio_out >= 8 => nbits = 0 /\ shift = 0

PanelIInv == TypeOK /\ Pins /\ PanelInStep

\* A store to the pins that does not raise SCK.
LEMMA QuietStore ==
  ASSUME NEW out, Drives(out), CS(out) = 0, SCK(out) = 0
  PROVE  gpio_out' = out /\ UNCHANGED <<nbits, shift, count, last, rested>>
BY DEF Drives, Captures, Unselected, panelVars

\* Before its first bit a byte has left nothing in the panel.
LEMMA ByteStart ==
  ASSUME NEW n \in BitPages, BitOf(n) = 0
  PROVE  Sent[ByteOf(n)][2] \div 2^(8 - BitOf(n)) = 0
<1>1. Sent[ByteOf(n)][2] \in 0 .. 255
  BY PageByte
<1>2. Sent[ByteOf(n)][2] \div 2^(8 - 0) = 0
  BY <1>1, NextBit
<1> QED
  BY <1>2, Zenon

LEMMA PanelInit == Init => PanelIInv
<1> SUFFICES ASSUME Init PROVE PanelIInv
  OBVIOUS
<1>1. 0 \in Int32
  BY NumberFacts
<1>2. shift \in 0 .. 2^nbits - 1
  <2>1. 0 \in 0 .. 2^0 - 1
    BY Powers
  <2>2. nbits = 0 /\ shift = 0
    BY DEF Init
  <2> QED  BY <2>1, <2>2, Zenon
<1>3. TypeOK
  <2>1. page \in 0 .. DONE_PAGE /\ resets \in 0 .. MaxResets /\ last \in {0, 1} \X (0 .. 255)
    BY PageNumbers, ConstFacts DEF Init
  <2>2. /\ x2 \in Int32 /\ x5 \in Int32 /\ gpio_out \in 0 .. 15 /\ nbits \in 0 .. 7
        /\ count \in Nat /\ rested \in Nat
    BY <1>1 DEF Init
  <2> QED  BY <1>2, <2>1, <2>2, Zenon DEF Init, TypeOK
<1> QED
  BY <1>3 DEF Init, PanelIInv, Pins, PanelInStep

LEMMA BeginPanel ==
  ASSUME PanelIInv, Begin
  PROVE  PanelIInv' /\ UNCHANGED <<nbits, shift, count, last, rested>>
<1>1. /\ on /\ page = 0 /\ x2' = 0 /\ Drives(0) /\ x5' = load_const32(pixel_count)
      /\ page' = 1 /\ part' = "setup" /\ UNCHANGED <<pixel_count, on, resets>>
  BY DEF Begin, Turns
<1>2. gpio_out' = 0 /\ UNCHANGED <<nbits, shift, count, last, rested>>
  <2>1. CS(0) = 0 /\ SCK(0) = 0
    BY DEF CS, SCK
  <2> QED  BY <1>1, <2>1, QuietStore
<1>3. nbits = 0 /\ shift = 0
  BY <1>1 DEF PanelIInv, Pins
<1>4. x2' \in Int32 /\ x5' \in Int32
  BY <1>1, NumberFacts, ConstFacts DEF PanelIInv, TypeOK
<1>5. TypeOK'
  BY <1>1, <1>2, <1>4, PageNumbers DEF PanelIInv, TypeOK
<1>6. Pins'
  BY <1>1, <1>2 DEF Pins
<1>7. 1 \in BitPages /\ BitOf(1) = 0
  BY PageNumbers, FirstPages
<1>8. Sent[ByteOf(1)][2] \div 2^(8 - BitOf(1)) = 0
  BY <1>7, ByteStart
<1>9. /\ nbits' = IF page' \in BitPages THEN BitOf(page') ELSE 0
      /\ page' \in BitPages => shift' = Sent[ByteOf(page')][2] \div 2^(8 - BitOf(page'))
  BY <1>1, <1>2, <1>3, <1>7, <1>8, Zenon
<1>10. PanelInStep'
  BY <1>9, Zenon DEF PanelInStep
<1> QED
  BY <1>2, <1>5, <1>6, <1>10 DEF PanelIInv

LEMMA SetUpPanel ==
  ASSUME PanelIInv, SetUp
  PROVE  PanelIInv' /\ UNCHANGED <<nbits, shift, count, last, rested>>
<1>1. /\ on /\ page \in BitPages /\ x2' = setup_val(page) /\ Drives(setup_val(page))
      /\ part' = "pulse" /\ UNCHANGED <<pixel_count, on, page, x5, resets>>
  BY DEF SetUp
<1>2. /\ setup_val(page) \in 0 .. 15 /\ CS(setup_val(page)) = 0 /\ SCK(setup_val(page)) = 0
  BY <1>1, SetUpFacts
<1>3. /\ gpio_out' = setup_val(page) /\ UNCHANGED <<nbits, shift, count, last, rested>>
  BY <1>1, <1>2, QuietStore
<1>4. x2' \in Int32
  BY <1>1, <1>2, NumberFacts
<1>5. TypeOK'
  BY <1>1, <1>2, <1>3, <1>4 DEF PanelIInv, TypeOK
<1>6. page # 0
  BY <1>1, PageNumbers
<1>7. page' \in BitPages /\ gpio_out' = setup_val(page')
  BY <1>1, <1>3, Zenon
<1>8. Pins'
  BY <1>1, <1>6, <1>7 DEF Pins
<1>9. PanelInStep'
  BY <1>1, <1>3 DEF PanelIInv, PanelInStep
<1> QED
  BY <1>3, <1>5, <1>8, <1>9 DEF PanelIInv

\* What the panel takes when SCK rises: the next bit of the byte, or its last.
LEMMA PulseTakes ==
  ASSUME PanelIInv, Pulse
  PROVE  /\ on /\ page \in BitPages /\ gpio_out' = setup_val(page) + 1
         /\ BitOf(page) < 7 => /\ nbits' = BitOf(page) + 1
                               /\ shift' = Sent[ByteOf(page)][2] \div 2^(8 - (BitOf(page) + 1))
                               /\ UNCHANGED <<count, last, rested>>
         /\ BitOf(page) = 7 => /\ nbits' = 0 /\ shift' = 0 /\ rested' = 0
                               /\ count' = count + 1
                               /\ last' = <<Sent[ByteOf(page)][1] \div 4, Sent[ByteOf(page)][2]>>
<1> DEFINE v == setup_val(page)
           k == BitOf(page)
           b == Sent[ByteOf(page)]
           m == TheBit(page)
<1>1. /\ on /\ page \in BitPages /\ part = "pulse" /\ Drives(v + 1)
  BY DEF Pulse
<1>2. page > 0
  BY <1>1, PageNumbers
<1>3. /\ v + 1 \in 0 .. 15 /\ SCK(v) = 0 /\ SCK(v + 1) = 1 /\ CS(v + 1) = 0
      /\ MOSI(v + 1) = m /\ DC(v + 1) = b[1] \div 4
  BY <1>1, SetUpFacts
<1>4. gpio_out = v
  BY <1>1 DEF PanelIInv, Pins
<1>5. nbits = k /\ shift = b[2] \div 2^(8 - k)
  BY <1>1, <1>2 DEF PanelIInv, PanelInStep
<1>6. k \in 0 .. 7 /\ b[2] \in 0 .. 255
  BY <1>1, PageFacts, PageByte
<1>7. /\ 2 * shift + m = b[2] \div 2^(8 - (k + 1))
      /\ k = 7 => 2 * shift + m = b[2]
  BY <1>5, <1>6, NextBit DEF TheBit
<1> HIDE DEF v, k, b, m
<1>8. /\ gpio_out' = v + 1
      /\ nbits < 7 => /\ nbits' = nbits + 1 /\ shift' = 2 * shift + m
                      /\ UNCHANGED <<count, last, rested>>
      /\ ~ (nbits < 7) => /\ nbits' = 0 /\ shift' = 0 /\ rested' = 0 /\ count' = count + 1
                          /\ last' = <<b[1] \div 4, 2 * shift + m>>
  BY <1>1, <1>3, <1>4 DEF Drives, Captures, Unselected
<1>9. /\ k < 7 => /\ nbits' = k + 1 /\ shift' = b[2] \div 2^(8 - (k + 1))
                  /\ UNCHANGED <<count, last, rested>>
      /\ k = 7 => /\ nbits' = 0 /\ shift' = 0 /\ rested' = 0 /\ count' = count + 1
                  /\ last' = <<b[1] \div 4, b[2]>>
  BY <1>5, <1>6, <1>7, <1>8
<1> QED
  BY <1>1, <1>8, <1>9 DEF v, k, b

LEMMA PulsePanel ==
  ASSUME PanelIInv, Pulse
  PROVE  PanelIInv'
<1>1. /\ on /\ page \in BitPages /\ x2' = setup_val(page) + 1 /\ Drives(setup_val(page) + 1)
      /\ page' = page + 1 /\ part' = "setup" /\ UNCHANGED <<pixel_count, on, x5, resets>>
  BY DEF Pulse, Turns
<1>2. setup_val(page) + 1 \in 0 .. 15
  BY <1>1, SetUpFacts
<1>3. page \in 1 .. 162 /\ page' \in 1 .. 163
  BY <1>1, PageNumbers
<1>4. TypeOK'
  <2>1. /\ gpio_out' \in 0 .. 15
        /\ nbits' \in 0 .. 7 /\ shift' \in 0 .. 2^nbits' - 1
        /\ count' \in Nat /\ rested' \in Nat /\ last' \in {0, 1} \X (0 .. 255)
    BY <1>1, <1>2, DrivesTypes DEF PanelIInv
  <2>2. x2' \in Int32
    BY <1>1, <1>2, NumberFacts
  <2>3. page' \in 0 .. DONE_PAGE
    BY <1>3, PageNumbers
  <2>4. /\ pixel_count' \in PixelCounts /\ on' \in BOOLEAN /\ x5' \in Int32
        /\ part' \in {"setup", "pulse", "loop"} /\ resets' \in 0 .. MaxResets
    BY <1>1 DEF PanelIInv, TypeOK
  <2> QED  BY <2>1, <2>2, <2>3, <2>4, Zenon DEF TypeOK
<1>5. Pins'
  BY <1>1, <1>3 DEF Pins
<1>6. CASE BitOf(page) < 7
  <2>1. page' \in BitPages /\ BitOf(page') = BitOf(page) + 1 /\ ByteOf(page') = ByteOf(page)
    BY <1>1, <1>6, PageFacts
  <2>2. nbits' = BitOf(page) + 1 /\ shift' = Sent[ByteOf(page)][2] \div 2^(8 - (BitOf(page) + 1))
    BY <1>6, PulseTakes
  <2>3. nbits' = BitOf(page') /\ shift' = Sent[ByteOf(page')][2] \div 2^(8 - BitOf(page'))
    BY <2>1, <2>2, Zenon
  <2>4. PanelInStep'
    BY <2>1, <2>3, Zenon DEF PanelInStep
  <2> QED  BY <1>4, <1>5, <2>4 DEF PanelIInv
<1>7. CASE BitOf(page) = 7
  <2>1. nbits' = 0 /\ shift' = 0
    BY <1>7, PulseTakes
  <2>2. page' \in BitPages => BitOf(page') = 0
    BY <1>1, <1>7, PageFacts
  <2>3. page' \in BitPages => Sent[ByteOf(page')][2] \div 2^(8 - BitOf(page')) = 0
    BY <2>2, ByteStart
  <2>4. PanelInStep'
    BY <2>1, <2>2, <2>3, Zenon DEF PanelInStep
  <2> QED  BY <1>4, <1>5, <2>4 DEF PanelIInv
<1>8. BitOf(page) \in 0 .. 7
  BY <1>1, PageFacts
<1> QED
  BY <1>6, <1>7, <1>8

\* The steps that leave the pins alone.
LEMMA StillPanel ==
  ASSUME PanelIInv, on, page > 0, UNCHANGED <<pixel_count, on, gpio_out, nbits, shift,
                                    count, last, resets>>,
         x2' \in Int32, x5' \in Int32, rested' \in Nat,
         part' \in {"setup", "loop"}, page' \in 1 .. 164,
         nbits = 0, shift = 0,
         page' \in BitPages => BitOf(page') = 0
  PROVE  PanelIInv'
<1>1. page' \in 0 .. DONE_PAGE
  BY PageNumbers
<1>2. TypeOK'
  BY <1>1 DEF PanelIInv, TypeOK
<1>3. Pins'
  BY DEF Pins
<1>4. page' \in BitPages => Sent[ByteOf(page')][2] \div 2^(8 - BitOf(page')) = 0
  BY ByteStart
<1>5. nbits' = 0 /\ shift' = 0
  OBVIOUS
<1>6. PanelInStep'
  BY <1>4, <1>5, Zenon DEF PanelInStep
<1> QED
  BY <1>2, <1>3, <1>6 DEF PanelIInv

LEMMA DelayPanel ==
  ASSUME PanelIInv, DelayLoad \/ DelayRound \/ DelayDone \/ Control
  PROVE  PanelIInv'
<1>1. /\ on /\ page \in {9, 18, 163} /\ UNCHANGED <<pixel_count, on, gpio_out, nbits, shift,
                                           count, last, resets>>
      /\ part' \in {"setup", "loop"}
      /\ page' \in {9, 18, 10, 19, 164, 147}
  BY PageNumbers DEF DelayLoad, DelayRound, DelayDone, Control, Turns, panelVars, PanelIInv, TypeOK
<1>2. x2' \in Int32 /\ x5' \in Int32 /\ rested' \in Nat
  BY NumberFacts, ConstFacts
     DEF DelayLoad, DelayRound, DelayDone, Control, PanelIInv, TypeOK, panelVars
<1>3. nbits = 0 /\ shift \in 0 .. 2^nbits - 1
  <2>1. page > 0 /\ page \notin BitPages
    BY <1>1, PageNumbers
  <2> QED  BY <1>1, <2>1 DEF PanelIInv, PanelInStep, TypeOK
<1>4. shift = 0
  <2>1. shift \in 0 .. 2^0 - 1
    BY <1>3, Zenon
  <2> QED  BY <2>1, Powers
<1>5. page' \in BitPages => BitOf(page') = 0
  BY <1>1, FirstPages, PageNumbers
<1>6. page > 0 /\ page' \in 1 .. 164
  BY <1>1
<1> QED
  BY <1>1, <1>2, <1>3, <1>4, <1>5, <1>6, StillPanel

LEMMA ChipPanel ==
  ASSUME Deselected, PanelIInv, Count \/ HandOver \/ Reset
  PROVE  PanelIInv'
<1>1. CASE Count
  <2> DEFINE out == (gpio_out + 1) % 16
  <2>1. ~on /\ Drives(out) /\ UNCHANGED <<pixel_count, on, page, part, x2, x5, resets>>
    BY <1>1 DEF Count
  <2>2. out \in 0 .. 15
    BY DEF PanelIInv, TypeOK
  <2>3. /\ gpio_out' \in 0 .. 15
        /\ nbits' \in 0 .. 7 /\ shift' \in 0 .. 2^nbits' - 1
        /\ count' \in Nat /\ rested' \in Nat /\ last' \in {0, 1} \X (0 .. 255)
        /\ gpio_out' >= 8 => nbits' = 0 /\ shift' = 0
    BY <2>1, <2>2, DrivesTypes DEF PanelIInv
  <2>4. TypeOK'
    BY <2>1, <2>3 DEF PanelIInv, TypeOK
  <2> QED  BY <2>1, <2>3, <2>4 DEF PanelIInv, Pins, PanelInStep
<1>2. CASE HandOver
  <2>1. /\ ~on /\ gpio_out >= 8 /\ on' = TRUE /\ page' = 0 /\ part' = "setup" /\ x5' = 184
        /\ UNCHANGED <<pixel_count, x2, gpio_out, nbits, shift, count, last, rested, resets>>
    BY <1>2 DEF HandOver, Turns, Deselected
  <2>2. x5' \in Int32 /\ page' \in 0 .. DONE_PAGE
    BY <2>1, NumberFacts, PageNumbers
  <2>3. TypeOK'
    BY <2>1, <2>2 DEF PanelIInv, TypeOK
  <2> QED  BY <2>1, <2>3 DEF PanelIInv, Pins, PanelInStep
<1>3. CASE Reset
  <2>1. /\ on' = FALSE /\ page' = 0 /\ part' = "setup" /\ x2' = 0 /\ x5' = 0 /\ gpio_out' = 0
        /\ count' = 0 /\ rested' = 0 /\ last' = <<0, 0>>
        /\ resets < MaxResets /\ resets' = resets + 1
        /\ UNCHANGED <<pixel_count, nbits, shift>>
    BY <1>3 DEF Reset, Turns
  <2>2. x2' \in Int32 /\ x5' \in Int32 /\ page' \in 0 .. DONE_PAGE
    BY <2>1, NumberFacts, PageNumbers
  <2>3. resets' \in 0 .. MaxResets /\ last' \in {0, 1} \X (0 .. 255)
    BY <2>1, ConstFacts DEF PanelIInv, TypeOK
  <2>4. /\ pixel_count' \in PixelCounts /\ on' \in BOOLEAN
        /\ part' \in {"setup", "pulse", "loop"} /\ gpio_out' \in 0 .. 15
        /\ count' \in Nat /\ rested' \in Nat
    <3>1. pixel_count \in PixelCounts
      BY Zenon DEF PanelIInv, TypeOK
    <3>2. pixel_count' \in PixelCounts /\ on' \in BOOLEAN /\ part' \in {"setup", "pulse", "loop"}
      BY <2>1, <3>1, Zenon
    <3>3. gpio_out' = 0 /\ count' = 0 /\ rested' = 0
      BY <2>1, Zenon
    <3>4. gpio_out' \in 0 .. 15 /\ count' \in Nat /\ rested' \in Nat
      BY <3>3
    <3> QED  BY <3>2, <3>4
  <2>5. nbits' \in 0 .. 7 /\ shift' \in 0 .. 2^nbits' - 1
    BY <2>1, Zenon DEF PanelIInv, TypeOK
  <2>6. TypeOK'
    BY <2>2, <2>3, <2>4, <2>5, Zenon DEF TypeOK
  <2> QED  BY <2>1, <2>6 DEF PanelIInv, Pins, PanelInStep
<1> QED
  BY <1>1, <1>2, <1>3

LEMMA PanelStep == Deselected /\ PanelIInv /\ [Next]_vars => PanelIInv'
<1> SUFFICES ASSUME Deselected, PanelIInv, [Next]_vars PROVE PanelIInv'
  OBVIOUS
<1>1. CASE Begin \/ SetUp \/ Pulse
  BY <1>1, BeginPanel, SetUpPanel, PulsePanel
<1>2. CASE DelayLoad \/ DelayRound \/ DelayDone \/ Control
  BY <1>2, DelayPanel
<1>3. CASE Count \/ HandOver \/ Reset
  BY <1>3, ChipPanel
<1>4. CASE UNCHANGED vars
  BY <1>4 DEF vars, panelVars, PanelIInv, TypeOK, Pins, PanelInStep
<1> QED
  BY <1>1, <1>2, <1>3, <1>4 DEF Next, Program, Spin

-----------------------------------------------------------------------------
\* Bytes and pauses.

\* Bytes sent when page p begins, in the first round of the ring.
Before(p) ==
  CASE p = 9 -> 1 [] p = 18 -> 2 [] p = 163 -> 20 [] OTHER -> ByteOf(p) - 1

\* The panel has had what the page and the pixels left say, and the second and
\* the third byte have waited.
Tally ==
  /\ ~on \/ page = 0 => count = 0 /\ rested = 0
  /\ on /\ page \in 1 .. 146 => x5 = pixel_count /\ count = Before(page)
  /\ on /\ page \in 147 .. 163 =>
       x5 > 0 /\ x5 <= pixel_count /\ count = Before(page) + 2 * (pixel_count - x5)
  /\ on /\ page \in DELAYS /\ part = "setup" => rested = 0
  /\ on /\ page \in DELAYS /\ part = "loop" => x2 = delay_count - rested /\ x2 >= 0
  /\ on /\ page \in (10 .. 17) \cup (19 .. 26) => rested = delay_count

DisplayIInv == PanelIInv /\ Tally

PanelNext == [Panel!Next]_(Panel!displayVars)

LEMMA BeforeFacts ==
  ASSUME NEW n \in BitPages
  PROVE  /\ Before(n) = ByteOf(n) - 1
         /\ BitOf(n) < 7 => Before(n + 1) = Before(n)
         /\ BitOf(n) = 7 => Before(n + 1) = ByteOf(n)
<1>1. n \notin {9, 18, 163}
  BY PageNumbers
<1>2. Before(n) = ByteOf(n) - 1
  BY <1>1 DEF Before
<1>3. CASE BitOf(n) < 7
  <2>1. n + 1 \notin {9, 18, 163} /\ ByteOf(n + 1) = ByteOf(n)
    BY <1>3, PageFacts, PageNumbers
  <2>2. Before(n + 1) = ByteOf(n + 1) - 1
    BY <2>1 DEF Before
  <2> QED  BY <1>2, <1>3, <2>1, <2>2
<1>4. CASE BitOf(n) = 7 /\ n + 1 \in BitPages
  <2>1. n + 1 \notin {9, 18, 163} /\ ByteOf(n + 1) = ByteOf(n) + 1 /\ ByteOf(n) \in 1 .. 20
    BY <1>4, PageFacts, PageNumbers
  <2>2. Before(n + 1) = ByteOf(n + 1) - 1
    BY <2>1 DEF Before
  <2> QED  BY <1>2, <1>4, <2>1, <2>2
<1>5. CASE BitOf(n) = 7 /\ n + 1 \notin BitPages
  <2>1. \/ n + 1 = 9 /\ ByteOf(n) = 1
        \/ n + 1 = 18 /\ ByteOf(n) = 2
        \/ n + 1 = 163 /\ ByteOf(n) = 20
    BY <1>5, PageFacts
  <2> QED  BY <1>2, <1>5, <2>1 DEF Before
<1> QED
  BY <1>3, <1>4, <1>5, PageFacts

\* Nothing of what the promise speaks of changes.
LEMMA DisplayStutter ==
  ASSUME UNCHANGED <<pixel_count, on, count, last, rested>>
  PROVE  PanelNext
BY DEF PanelNext, Panel!displayVars

LEMMA BeginDisplay ==
  ASSUME Loaded, DisplayIInv, Begin
  PROVE  Tally' /\ PanelNext
<1>1. /\ on /\ page = 0 /\ x5' = load_const32(pixel_count)
      /\ page' = 1 /\ part' = "setup" /\ UNCHANGED <<pixel_count, on>>
  BY DEF Begin, Turns
<1>2. UNCHANGED <<count, last, rested>>
  BY BeginPanel DEF DisplayIInv
<1>3. x5' = pixel_count
  BY <1>1 DEF Loaded, DisplayIInv, PanelIInv, TypeOK
<1>4. Before(1) = 0
  BY FirstPages DEF Before
<1>5. Tally'
  BY <1>1, <1>2, <1>3, <1>4, PageNumbers DEF DisplayIInv, Tally
<1> QED
  BY <1>1, <1>2, <1>5, DisplayStutter

LEMMA SetUpDisplay ==
  ASSUME DisplayIInv, SetUp
  PROVE  Tally' /\ PanelNext
<1>1. /\ on /\ page \in 1 .. 162 /\ page \notin DELAYS
      /\ UNCHANGED <<pixel_count, on, page, x5>>
  BY PageNumbers DEF SetUp
<1>2. UNCHANGED <<count, last, rested>>
  BY SetUpPanel DEF DisplayIInv
<1>3. Tally'
  BY <1>1, <1>2 DEF DisplayIInv, Tally, Before, ByteOf
<1> QED
  BY <1>1, <1>2, <1>3, DisplayStutter

\* The pixels and the bytes so far, at a bit.
LEMMA AtBit ==
  ASSUME DisplayIInv, on, page \in BitPages
  PROVE  /\ x5 \in Nat /\ pixel_count \in Nat /\ x5 > 0 /\ x5 <= pixel_count
         /\ count = ByteOf(page) - 1 + 2 * (pixel_count - x5)
         /\ page < 147 => x5 = pixel_count
         /\ count \in {1, 2} => rested = delay_count
         /\ rested \in Nat /\ page \in 1 .. 162
<1>1. /\ page \in 1 .. 162 /\ page \notin {9, 18} /\ ByteOf(page) \in 1 .. 20
      /\ page \in 19 .. 162 => (ByteOf(page) >= 19 <=> page >= 147)
  BY PageFacts
<1>2. pixel_count \in Nat /\ pixel_count > 0 /\ rested \in Nat
  BY ConstFacts DEF DisplayIInv, PanelIInv, TypeOK
<1>3. x5 \in Int
  BY NumberFacts DEF DisplayIInv, PanelIInv, TypeOK
<1>4. Before(page) = ByteOf(page) - 1
  BY BeforeFacts
<1>5. CASE page < 147
  <2>1. x5 = pixel_count /\ count = ByteOf(page) - 1
    BY <1>1, <1>4, <1>5 DEF DisplayIInv, Tally
  <2>2. count \in {1, 2} => page \in (10 .. 17) \cup (19 .. 26)
    <3>1. \A w \in Nat : w \div 8 = 0 => w < 8
      OBVIOUS
    <3>2. CASE page < 19
      BY <1>1, <2>1, <3>2 DEF ByteOf
    <3>3. CASE page >= 19
      <4>1. page - 19 \in Nat /\ ByteOf(page) = 3 + (page - 19) \div 8
        BY <1>1, <3>3 DEF ByteOf
      <4>2. count \in {1, 2} => (page - 19) \div 8 = 0
        BY <2>1, <4>1
      <4> QED  BY <1>1, <3>1, <3>3, <4>1, <4>2
    <3> QED  BY <1>1, <3>2, <3>3
  <2>3. count \in {1, 2} => rested = delay_count
    BY <2>2 DEF DisplayIInv, Tally
  <2> QED  BY <1>1, <1>2, <2>1, <2>3
<1>6. CASE page >= 147
  <2>1. x5 > 0 /\ x5 <= pixel_count /\ count = ByteOf(page) - 1 + 2 * (pixel_count - x5)
    BY <1>1, <1>4, <1>6 DEF DisplayIInv, Tally
  <2> QED  BY <1>1, <1>2, <1>3, <1>6, <2>1
<1> QED
  BY <1>1, <1>5, <1>6

LEMMA PulseDisplay ==
  ASSUME DisplayIInv, Pulse
  PROVE  Tally' /\ PanelNext
<1>1. /\ on /\ page \in BitPages /\ page' = page + 1 /\ part' = "setup"
      /\ UNCHANGED <<pixel_count, on, x5>>
  BY DEF Pulse, Turns
<1>2. /\ x5 \in Nat /\ pixel_count \in Nat /\ x5 > 0 /\ x5 <= pixel_count
      /\ count = ByteOf(page) - 1 + 2 * (pixel_count - x5)
      /\ page < 147 => x5 = pixel_count
      /\ count \in {1, 2} => rested = delay_count
      /\ rested \in Nat /\ page \in 1 .. 162
  BY <1>1, AtBit
<1>3. BitOf(page) \in 0 .. 7 /\ ByteOf(page) \in 1 .. 20
  BY <1>1, PageFacts
<1>4. ASSUME count' = Before(page') + 2 * (pixel_count - x5),
             page' \in DELAYS => rested' = 0,
             page' \in (10 .. 17) \cup (19 .. 26) => rested' = delay_count
      PROVE  Tally'
  <2>1. page' \in 2 .. 163
    BY <1>1, <1>2
  <2>2. page' \in 1 .. 146 => x5' = pixel_count' /\ count' = Before(page')
    <3>1. page' \in 1 .. 146 => x5 = pixel_count
      BY <1>1, <1>2
    <3>2. page' \in 1 .. 163 => Before(page') \in Int
      <4>1. Before(page) = ByteOf(page) - 1 /\ Before(page + 1) \in {Before(page), ByteOf(page)}
        BY <1>1, <1>3, BeforeFacts
      <4> QED  BY <1>1, <1>3, <4>1
    <3> QED  BY <1>1, <1>2, <1>4, <2>1, <3>1, <3>2
  <2> QED  BY <1>1, <1>2, <1>4, <2>1, <2>2 DEF Tally
<1>5. CASE BitOf(page) < 7
  <2>1. UNCHANGED <<count, last, rested>>
    BY <1>5, PulseTakes DEF DisplayIInv
  <2>2. Before(page') = ByteOf(page) - 1
    BY <1>1, <1>5, BeforeFacts
  <2>3. page' \notin DELAYS
    BY <1>1, <1>5, PageFacts, PageNumbers
  <2>4. page' \in (10 .. 17) \cup (19 .. 26) => page \in (10 .. 17) \cup (19 .. 26)
    BY <1>1, <1>2, PageNumbers
  <2>5. page' \in (10 .. 17) \cup (19 .. 26) => rested' = delay_count
    BY <1>1, <2>1, <2>4 DEF DisplayIInv, Tally
  <2>6. count' = Before(page') + 2 * (pixel_count - x5)
    BY <1>2, <2>1, <2>2
  <2> QED  BY <1>1, <1>4, <2>1, <2>3, <2>5, <2>6, DisplayStutter
<1>6. CASE BitOf(page) = 7
  <2>1. /\ rested' = 0 /\ count' = count + 1
        /\ last' = <<Sent[ByteOf(page)][1] \div 4, Sent[ByteOf(page)][2]>>
    BY <1>6, PulseTakes DEF DisplayIInv
  <2>2. Before(page') = ByteOf(page)
    BY <1>1, <1>6, BeforeFacts
  <2>3. page' \notin (10 .. 17) \cup (19 .. 26)
    <3>1. page \notin (9 .. 16) \cup (18 .. 25)
      <4>1. \A w \in 0 .. 6 : w % 8 # 7
        OBVIOUS
      <4>2. page \in 19 .. 25 => BitOf(page) = page - 19
        BY DEF BitOf
      <4>3. page \in 9 .. 16 => BitOf(page) < 7
        BY DEF BitOf
      <4> QED  BY <1>1, <1>6, <4>2, <4>3, PageNumbers
    <3> QED  BY <1>1, <1>2, <3>1
  <2>4. count' = Before(page') + 2 * (pixel_count - x5)
    BY <1>2, <1>3, <2>1, <2>2
  <2>5. Tally'
    BY <1>4, <2>1, <2>3, <2>4
  <2>6. Panel!Receive
    <3> DEFINE r == pixel_count - x5
    <3>1. r \in Nat /\ (r = 0 \/ ByteOf(page) >= 19) /\ count' = ByteOf(page) + 2 * r
      <4>1. page >= 147 => ByteOf(page) >= 19
        BY <1>1, <1>2, PageFacts
      <4> QED  BY <1>2, <1>3, <2>1, <4>1
    <3>2. Panel!Item(count') = last'
      BY <1>3, <2>1, <3>1, SentFacts
    <3>3. Len(Panel!Commands) = 18
      BY DEF Panel!Commands
    <3>4. count < Panel!Total
      BY <1>2, <1>3, <2>1, <3>1, <3>3 DEF Panel!Total
    <3>5. ~ Panel!Pausing
      BY <1>2, ConstFacts DEF Panel!Pausing
    <3> QED  BY <1>1, <2>1, <3>2, <3>4, <3>5, Zenon DEF Panel!Receive
  <2> QED  BY <2>5, <2>6, Zenon DEF PanelNext, Panel!Next
<1> QED
  BY <1>3, <1>5, <1>6

LEMMA DelayDisplay ==
  ASSUME Loaded, DisplayIInv, DelayLoad \/ DelayRound \/ DelayDone
  PROVE  Tally' /\ PanelNext
<1>1. /\ on /\ page \in {9, 18} /\ UNCHANGED <<pixel_count, on, x5, count, last>>
  BY PageNumbers DEF DelayLoad, DelayRound, DelayDone, panelVars
<1>2. /\ x5 = pixel_count /\ count = Before(page) /\ count \in {1, 2}
  BY <1>1 DEF DisplayIInv, Tally, Before
<1>3. rested \in Nat /\ delay_count \in Nat /\ x2 \in Int32
  BY ConstFacts DEF DisplayIInv, PanelIInv, TypeOK
<1>4. CASE DelayLoad
  <2>1. /\ part = "setup" /\ part' = "loop" /\ page' = page /\ rested' = rested
        /\ x2' = delay_count
    BY <1>3, <1>4, NumberFacts DEF DelayLoad, Loaded
  <2>2. rested = 0
    BY <1>1, <2>1, PageNumbers DEF DisplayIInv, Tally
  <2>3. Tally'
    BY <1>1, <1>2, <1>3, <2>1, <2>2, PageNumbers DEF Tally
  <2> QED  BY <1>1, <2>1, <2>3, DisplayStutter
<1>5. CASE DelayRound
  <2>1. /\ part = "loop" /\ part' = "loop" /\ page' = page /\ rested' = rested + 1
        /\ x2 # 0 /\ x2' = Decrement(x2)
    BY <1>5, PageNumbers DEF DelayRound
  <2>2. x2 = delay_count - rested /\ x2 >= 0
    BY <1>1, <2>1, PageNumbers DEF DisplayIInv, Tally
  <2>3. x2' = x2 - 1
    BY <1>3, <2>1, <2>2, NumberFacts
  <2>4. x2' = delay_count - rested' /\ x2' >= 0
    BY <1>3, <2>1, <2>2, <2>3
  <2>5. Tally'
    BY <1>1, <1>2, <2>1, <2>4, PageNumbers DEF Tally
  <2>6. rested < delay_count
    BY <1>3, <2>1, <2>2
  <2>7. Panel!Pause
    BY <1>1, <1>2, <2>1, <2>6 DEF Panel!Pause, Panel!Pausing
  <2> QED  BY <2>5, <2>7, Zenon DEF PanelNext, Panel!Next
<1>6. CASE DelayDone
  <2>1. /\ part = "loop" /\ part' = "setup" /\ page' = page + 1 /\ rested' = rested /\ x2 = 0
    BY <1>6, PageNumbers DEF DelayDone, Turns
  <2>2. rested = delay_count
    BY <1>1, <1>3, <2>1, PageNumbers DEF DisplayIInv, Tally
  <2>3. Before(page') = Before(page)
    BY <1>1, <2>1 DEF Before, ByteOf
  <2>4. page' \in {10, 19}
    BY <1>1, <2>1
  <2>5. Tally'
    BY <1>1, <1>2, <2>1, <2>2, <2>3, <2>4, PageNumbers DEF Tally
  <2> QED  BY <1>1, <2>1, <2>5, DisplayStutter
<1> QED
  BY <1>4, <1>5, <1>6

LEMMA ControlDisplay ==
  ASSUME DisplayIInv, Control
  PROVE  Tally' /\ PanelNext
<1>1. /\ on /\ page = 163 /\ x5' = Decrement(x5)
      /\ page' = IF x5' = 0 THEN 164 ELSE 147
      /\ part' = "setup" /\ UNCHANGED <<pixel_count, on, count, last, rested>>
  BY PageNumbers DEF Control, Turns, panelVars
<1>2. x5 > 0 /\ x5 <= pixel_count /\ count = Before(163) + 2 * (pixel_count - x5)
  BY <1>1 DEF DisplayIInv, Tally
<1>3. pixel_count \in Nat /\ x5 \in Int32 /\ x5 \in Int
  BY ConstFacts, NumberFacts DEF DisplayIInv, PanelIInv, TypeOK
<1>4. x5' = x5 - 1
  BY <1>1, <1>2, <1>3, NumberFacts
<1>5. Before(163) = 20 /\ Before(147) = 18
  BY FirstPages DEF Before
<1>6. page' = 147 =>
        x5' > 0 /\ x5' <= pixel_count' /\ count' = Before(147) + 2 * (pixel_count' - x5')
  BY <1>1, <1>2, <1>3, <1>4, <1>5
<1>7. page' \in {147, 164}
  BY <1>1
<1>8. Tally'
  BY <1>1, <1>6, <1>7, PageNumbers DEF Tally
<1> QED
  BY <1>1, <1>8, DisplayStutter

LEMMA ChipDisplay ==
  ASSUME DisplayIInv, Count \/ HandOver \/ Reset
  PROVE  Tally' /\ PanelNext
<1>1. CASE Count
  <2>1. (gpio_out + 1) % 16 \in 0 .. 15
    BY DEF DisplayIInv, PanelIInv, TypeOK
  <2>2. /\ ~on /\ Drives((gpio_out + 1) % 16) /\ UNCHANGED <<pixel_count, on, page, x5>>
    BY <1>1 DEF Count
  <2>3. UNCHANGED <<count, last, rested>>
    BY <2>1, <2>2, DrivesTypes DEF DisplayIInv, PanelIInv
  <2>4. Tally'
    BY <2>2, <2>3 DEF DisplayIInv, Tally
  <2> QED  BY <2>2, <2>3, <2>4, DisplayStutter
<1>2. CASE HandOver
  <2>1. /\ ~on /\ on' = TRUE /\ page' = 0 /\ UNCHANGED <<pixel_count, count, last, rested>>
    BY <1>2 DEF HandOver, Turns
  <2>2. Tally'
    BY <2>1, PageNumbers DEF DisplayIInv, Tally
  <2>3. Panel!Start
    BY <2>1 DEF Panel!Start
  <2> QED  BY <2>2, <2>3, Zenon DEF PanelNext, Panel!Next
<1>3. CASE Reset
  <2>1. /\ on' = FALSE /\ page' = 0 /\ count' = 0 /\ rested' = 0 /\ last' = <<0, 0>>
        /\ UNCHANGED pixel_count
    BY <1>3 DEF Reset, Turns
  <2>2. Tally'
    BY <2>1 DEF Tally
  <2>3. Panel!Stop
    BY <2>1 DEF Panel!Stop, Panel!CMD
  <2> QED  BY <2>2, <2>3, Zenon DEF PanelNext, Panel!Next
<1> QED
  BY <1>1, <1>2, <1>3

LEMMA DisplayStep ==
  ASSUME Deselected, Loaded, DisplayIInv, [Next]_vars
  PROVE  DisplayIInv' /\ PanelNext
<1>1. PanelIInv'
  BY PanelStep DEF DisplayIInv
<1>2. CASE Begin \/ SetUp \/ Pulse
  BY <1>1, <1>2, BeginDisplay, SetUpDisplay, PulseDisplay DEF DisplayIInv
<1>3. CASE DelayLoad \/ DelayRound \/ DelayDone \/ Control
  BY <1>1, <1>3, DelayDisplay, ControlDisplay DEF DisplayIInv
<1>4. CASE Count \/ HandOver \/ Reset
  BY <1>1, <1>4, ChipDisplay DEF DisplayIInv
<1>5. CASE UNCHANGED vars
  <2>1. UNCHANGED <<pixel_count, on, page, part, x2, x5, count, last, rested>>
    BY <1>5 DEF vars, panelVars
  <2>2. Tally'
    BY <2>1 DEF DisplayIInv, Tally, Before, ByteOf
  <2> QED  BY <1>1, <2>1, <2>2, DisplayStutter DEF DisplayIInv
<1> QED
  BY <1>2, <1>3, <1>4, <1>5 DEF Next, Program, Spin

LEMMA DisplayInit == Init => DisplayIInv /\ Panel!Init
<1> SUFFICES ASSUME Init PROVE Tally /\ Panel!Init
  BY PanelInit DEF DisplayIInv
<1>1. Tally
  BY DEF Init, Tally
<1>2. Panel!Init
  BY ConstFacts DEF Init, Panel!Init, Panel!CMD
<1> QED
  BY <1>1, <1>2

-----------------------------------------------------------------------------
\* Started with the panel deselected, the driver and the panel keep the types of
\* what they hold: the panel's register never has more bits than it has taken.
THEOREM PanelTypes == ASSUME Deselected PROVE Spec => []TypeOK
<1>1. PanelIInv => TypeOK
  BY DEF PanelIInv
<1>2. PanelIInv /\ [Next]_vars => PanelIInv'
  BY PanelStep
<1> QED
  BY PanelInit, <1>1, <1>2, PTL DEF Spec

\* Started with the panel deselected, the driver is never a bit ahead of the panel
\* or behind it, whatever the boot ROM's counter did on the pins before and
\* wherever in a byte a reset came.
THEOREM PanelStaysInStep == ASSUME Deselected PROVE Spec => []PanelInStep
<1>1. PanelIInv => PanelInStep
  BY DEF PanelIInv
<1>2. PanelIInv /\ [Next]_vars => PanelIInv'
  BY PanelStep
<1> QED
  BY PanelInit, <1>1, <1>2, PTL DEF Spec

\* DC and MOSI are steady whenever SCK rises, for the driver and for the counter
\* of the boot ROM.
THEOREM PinsSteady == ASSUME Deselected PROVE Spec => SteadyAtRise
<1>1. PanelIInv /\ [Next]_vars => PanelIInv'
  BY PanelStep
<1>2. ASSUME PanelIInv, [Next]_vars, SCK(gpio_out) = 0, SCK(gpio_out') = 1
      PROVE  MOSI(gpio_out') = MOSI(gpio_out) /\ DC(gpio_out') = DC(gpio_out)
  <2>1. CASE Pulse
    <3>1. page \in BitPages /\ gpio_out = setup_val(page) /\ gpio_out' = setup_val(page) + 1
      <4>1. on /\ part = "pulse" /\ gpio_out' = setup_val(page) + 1
        BY <2>1 DEF Pulse, Drives, Captures, Unselected
      <4> QED  BY <1>2, <4>1 DEF PanelIInv, Pins
    <3> QED  BY <3>1, SetUpFacts
  <2>2. CASE Count
    <3>1. gpio_out \in 0 .. 15 /\ gpio_out' = (gpio_out + 1) % 16
      BY <1>2, <2>2 DEF Count, Drives, Captures, Unselected, PanelIInv, TypeOK
    <3>2. \A g \in 0 .. 15 : g % 2 = 0 =>
            /\ (g + 1) % 16 = g + 1
            /\ (g + 1) \div 2 = g \div 2 /\ (g + 1) \div 4 = g \div 4
      OBVIOUS
    <3> QED  BY <1>2, <3>1, <3>2 DEF SCK, MOSI, DC
  <2>3. CASE Begin \/ Reset
    <3>1. gpio_out' = 0
      BY <2>3 DEF Begin, Drives, Captures, Unselected, Reset
    <3> QED  BY <1>2, <3>1 DEF SCK
  <2>4. CASE SetUp
    <3>1. page \in BitPages /\ gpio_out' = setup_val(page)
      BY <2>4 DEF SetUp, Drives, Captures, Unselected
    <3> QED  BY <1>2, <3>1, SetUpFacts
  <2>5. CASE \/ DelayLoad \/ DelayRound \/ DelayDone \/ Control \/ HandOver
             \/ UNCHANGED vars
    <3>1. gpio_out' = gpio_out
      BY <2>5 DEF DelayLoad, DelayRound, DelayDone, Control, HandOver, vars
    <3> QED  BY <3>1
  <2> QED
    BY <1>2, <2>1, <2>2, <2>3, <2>4, <2>5 DEF Next, Program, Spin
<1>3. PanelIInv /\ [Next]_vars =>
        [SCK(gpio_out) = 0 /\ SCK(gpio_out') = 1
           => MOSI(gpio_out') = MOSI(gpio_out) /\ DC(gpio_out') = DC(gpio_out)]_vars
  BY <1>2
<1> QED
  BY PanelInit, <1>1, <1>3, PTL DEF Spec, SteadyAtRise

\* Started with the panel deselected, and with counters its immediates can hold,
\* the driver sends every byte that Display promises, once and in order, each
\* with its DC, and pauses where Display does, for every panel and colour.
THEOREM DriverRefines == ASSUME Deselected, Loaded PROVE Spec => ImplementsDisplay
<1>1. DisplayIInv /\ [Next]_vars => DisplayIInv'
  BY DisplayStep
<1>2. DisplayIInv /\ [Next]_vars => [Panel!Next]_(Panel!displayVars)
  BY DisplayStep DEF PanelNext
<1> QED
  BY DisplayInit, <1>1, <1>2, PTL DEF Spec, ImplementsDisplay, Panel!Safety

=============================================================================
