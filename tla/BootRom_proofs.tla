--------------------------- MODULE BootRom_proofs ---------------------------
(***************************************************************************)
(* What is proved of the bootload for every program a host may send, every *)
(* content of the memory and every number of resets: a host that leaves    *)
(* its pins alone for long enough is never out of step with the chip, and  *)
(* what the chip runs is what that host sent. After it, that the words of  *)
(* the ROM do what the blocks of BootRom say, instruction by instruction;  *)
(* and last, that the image in the flash, which runs when the stub is      *)
(* loaded, shows its values in the order the benches expect, from page to  *)
(* page.                                                                   *)
(***************************************************************************)
EXTENDS Bench, Words_proofs

LOCAL INSTANCE SequencesExt

\* The host leaves its pins alone for so long that no read comes too late,
\* neither after the self-test nor after a byte stored to the PSRAM.
EnoughTime ==
  /\ Careful
  /\ 3 * Hold >= 2 * PsramTime + 13
  /\ 3 * Hold >= PsramTime + 22
  /\ Hold >= 8

\* How long after its last move, to p, the host has lowered the clock again.
Limit(H, p) == IF p = "high" THEN H ELSE IF p = "low" THEN 2 * H ELSE 3 * H

\* The chip reaches its next read, b instructions from now, in time, when the
\* host made its last move h instructions ago.
PaceOf(H, a, p, h, b) ==
  /\ a = "SELFTEST" => b = 0 /\ h = 0 /\ p \in {"off", "start"}
  /\ a = "MAIN_LOOP" =>
       /\ p # "fall"
       /\ p = "off" => b + 6 < 3 * H
       /\ p # "off" => h + b + 6 < Limit(H, p)
  /\ a = "BIT_WAIT_HIGH" => h + b < Limit(H, p)
  /\ a = "BIT_DATA" => b <= 2 /\ (p = "fall" => h + b <= 2)
  /\ a = "BIT_WAIT_LOW" => b <= 4 /\ (p = "fall" => h + b <= 7)

Pace == PaceOf(Hold, at, phase, held, busy)

\* Where the host is when the chip reads no data.
Place ==
  /\ stage = "listen" => hbyte = 0 /\ hbit = 0
  /\ at = "RUN" => HostAt({"fall"}, Len(image), 7)

BitsGot == IF at = "BIT_WAIT_LOW" THEN x7 + 1 ELSE x7

Content ==
  /\ ~flash_mode
  /\ Fits(image)
  /\ stage = "load" =>
       /\ x7 \in 0 .. 7
       /\ x1 = "BYTE" => /\ x5 \in LOAD_BASE .. LOAD_BASE + Len(image) - 1
                         /\ x4 = Len(image) - (x5 - LOAD_BASE)
       /\ x6 = Sent(Receiving) \div 2^(8 - BitsGot)
  /\ at = "RUN" => Stored = Len(image)
  /\ \A i \in 1 .. Stored : mem[LOAD_BASE + i - 1] = image[i]

BootIInv == TypeOK /\ BitsInStep /\ Pace /\ Place /\ Content

LEMMA BootFacts ==
  /\ LOAD_BASE \in 0 .. 252 /\ RAM_BASE \in 0 .. 252 /\ RAM_BYTES \in 0 .. 252
  /\ EXT_PSRAM_BASE \in 0 .. 239 /\ EXT_PSRAM_BYTES \in 1 .. 252
  /\ RAM_BASE <= LOAD_BASE /\ LOAD_BASE < RAM_BASE + RAM_BYTES
  /\ RAM_BASE + RAM_BYTES <= EXT_PSRAM_BASE
  /\ EXT_PSRAM_BASE + EXT_PSRAM_BYTES <= 240
  /\ Hold \in Nat /\ Hold > 0 /\ PsramTime \in Nat /\ PsramTime > 0
  /\ MaxResets \in Nat
<1>1. \A x \in {4 * k : k \in 0 .. 63} : x \in 0 .. 252
  OBVIOUS
<1>2. /\ LOAD_BASE \in 0 .. 252 /\ RAM_BASE \in 0 .. 252 /\ RAM_BYTES \in 0 .. 252
      /\ EXT_PSRAM_BASE \in 0 .. 252 /\ EXT_PSRAM_BYTES \in 0 .. 252
  BY <1>1, MapAssumption
<1> QED
  BY <1>2, MapAssumption, BootAssumption

LEMMA ImageFacts ==
  ASSUME NEW p \in Images
  PROVE  /\ p \in Seq(MemByte)
         /\ Len(p) \in 0 .. 255
         /\ \A i \in 1 .. Len(p) : p[i] \in MemByte
<1>1. p \in Seq(MemByte) /\ Len(p) <= 255
  BY BootAssumption
<1>2. Len(p) \in Nat
  BY <1>1
<1>3. \A i \in 1 .. Len(p) : p[i] \in MemByte
  BY <1>1
<1>4. \A n \in Nat : n <= 255 => n \in 0 .. 255
  OBVIOUS
<1>5. Len(p) \in 0 .. 255
  BY <1>1, <1>2, <1>4, Zenon
<1> QED
  BY <1>1, <1>3, <1>5

LEMMA BytePowers ==
  /\ 2^0 = 1 /\ 2^1 = 2 /\ 2^2 = 4 /\ 2^3 = 8 /\ 2^4 = 16
  /\ 2^5 = 32 /\ 2^6 = 64 /\ 2^7 = 128 /\ 2^8 = 256
OBVIOUS

\* One more bit of a byte, most significant first.
LEMMA OneMoreBit ==
  ASSUME NEW b \in MemByte, NEW k \in 0 .. 7
  PROVE  /\ (b \div 2^(7 - k)) % 2 \in {0, 1}
         /\ 2 * (b \div 2^(8 - k)) + ((b \div 2^(7 - k)) % 2) = b \div 2^(7 - k)
         /\ b \div 2^(7 - k) \in MemByte
         /\ b \div 2^8 = 0
         /\ b \div 2^0 = b
<1>0. b \div 2^8 = 0 /\ b \div 2^0 = b
  BY BytePowers DEF MemByte
<1>1. CASE k = 0
  <2>1. 2^(7 - k) = 128 /\ 2^(8 - k) = 256
    BY <1>1, BytePowers
  <2> QED
    BY <1>0, <2>1 DEF MemByte
<1>2. CASE k = 1
  <2>1. 2^(7 - k) = 64 /\ 2^(8 - k) = 128
    BY <1>2, BytePowers
  <2> QED
    BY <1>0, <2>1 DEF MemByte
<1>3. CASE k = 2
  <2>1. 2^(7 - k) = 32 /\ 2^(8 - k) = 64
    BY <1>3, BytePowers
  <2> QED
    BY <1>0, <2>1 DEF MemByte
<1>4. CASE k = 3
  <2>1. 2^(7 - k) = 16 /\ 2^(8 - k) = 32
    BY <1>4, BytePowers
  <2> QED
    BY <1>0, <2>1 DEF MemByte
<1>5. CASE k = 4
  <2>1. 2^(7 - k) = 8 /\ 2^(8 - k) = 16
    BY <1>5, BytePowers
  <2> QED
    BY <1>0, <2>1 DEF MemByte
<1>6. CASE k = 5
  <2>1. 2^(7 - k) = 4 /\ 2^(8 - k) = 8
    BY <1>6, BytePowers
  <2> QED
    BY <1>0, <2>1 DEF MemByte
<1>7. CASE k = 6
  <2>1. 2^(7 - k) = 2 /\ 2^(8 - k) = 4
    BY <1>7, BytePowers
  <2> QED
    BY <1>0, <2>1 DEF MemByte
<1>8. CASE k = 7
  <2>1. 2^(7 - k) = 1 /\ 2^(8 - k) = 2
    BY <1>8, BytePowers
  <2> QED
    BY <1>0, <2>1 DEF MemByte
<1> QED
  BY <1>1, <1>2, <1>3, <1>4, <1>5, <1>6, <1>7, <1>8

\* What the host has on its pins.
LEMMA PinFacts ==
  ASSUME TypeOK
  PROVE  /\ Len(image) \in 0 .. 255
         /\ \A n \in 0 .. Len(image) : Sent(n) \in MemByte
         /\ DATA \in {0, 1}
<1>1. Len(image) \in 0 .. 255 /\ \A i \in 1 .. Len(image) : image[i] \in MemByte
  BY ImageFacts DEF TypeOK
<1>2. \A n \in 0 .. Len(image) : Sent(n) \in MemByte
  BY <1>1 DEF Sent, MemByte
<1>3. Sent(hbyte) \in MemByte /\ hbit \in 0 .. 7
  BY <1>2 DEF TypeOK
<1>4. DATA \in {0, 1}
  BY <1>3, OneMoreBit DEF DATA
<1> QED
  BY <1>1, <1>2, <1>4

LEMMA BootInit == EnoughTime /\ Init => BootIInv
<1> SUFFICES ASSUME EnoughTime, Init PROVE BootIInv
  OBVIOUS
<1>1. image \in Images /\ Fits(image)
  BY DEF Init, Sendable, EnoughTime
<1>2. TypeOK
  <2>1. mem \in [Cells -> MemByte]
    BY BootAssumption DEF Init
  <2>2. Len(image) \in 0 .. 255
    BY <1>1, ImageFacts
  <2>3. 0 \in 0 .. LOAD_BASE + 255 /\ 0 \in 0 .. Hold /\ 0 \in 0 .. MaxResets
    BY BootFacts
  <2>4. attached \in BOOLEAN /\ flash_mode \in BOOLEAN
    BY DEF Init
  <2>5. hbyte \in 0 .. Len(image) /\ hbit \in 0 .. 7
    BY <2>2 DEF Init
  <2>6. 0 \in MemByte /\ 0 \in 0 .. 15 /\ 0 \in 0 .. 8
    BY DEF MemByte
  <2> QED
    BY <1>1, <2>1, <2>3, <2>4, <2>5, <2>6 DEF Init, TypeOK, Label, Phase
<1>3. BitsInStep
  BY DEF Init, BitsInStep
<1>4. Pace /\ Place
  BY DEF Init, Pace, PaceOf, Place, stage
<1>5. Content
  BY <1>1 DEF Init, Content, stage, Stored
<1> QED
  BY <1>2, <1>3, <1>4, <1>5 DEF BootIInv

-----------------------------------------------------------------------------
\* Time.  The arithmetic is stated of numbers, then used of the variables.

\* Time that passes in the middle of a block brings no read nearer its limit.
LEMMA WorkTime ==
  ASSUME NEW H \in Nat, NEW h \in Nat, NEW b \in Nat, NEW g \in Nat, NEW c \in Nat,
         NEW a, NEW p, PaceOf(H, a, p, h, b), b > 0, c = b - 1, g <= h + 1
  PROVE  PaceOf(H, a, p, g, c)
BY DEF PaceOf, Limit

\* A block of n instructions from one read to the next.
LEMMA BlockTime ==
  ASSUME NEW H \in Nat, NEW P \in Nat, NEW h \in Nat, NEW g \in Nat, NEW n \in Nat,
         NEW a, NEW p \in Phase, PaceOf(H, a, p, h, 0), g <= h + 1, h <= H, n > 0,
         3 * H >= 2 * P + 13, 3 * H >= P + 22, H >= 8
  PROVE  /\ a = "SELFTEST" /\ n <= 2 * P + 6 => PaceOf(H, "MAIN_LOOP", p, g, n - 1)
         /\ p = "off" /\ n = 8 => PaceOf(H, "MAIN_LOOP", p, g, n - 1)
         /\ a = "MAIN_LOOP" /\ p # "off" /\ n = 6 => PaceOf(H, "BIT_WAIT_HIGH", p, g, n - 1)
         /\ p # "high" /\ n = 3 => PaceOf(H, "BIT_WAIT_HIGH", p, g, n - 1)
         /\ p = "high" /\ n = 3 => PaceOf(H, "BIT_DATA", p, g, n - 1)
         /\ a = "BIT_DATA" /\ n <= 5 => PaceOf(H, "BIT_WAIT_LOW", p, g, n - 1)
         /\ p = "high" /\ n = 3 => PaceOf(H, "BIT_WAIT_LOW", p, g, n - 1)
         /\ a = "BIT_WAIT_LOW" /\ p = "fall" /\ n <= P + 14 =>
              PaceOf(H, "BIT_WAIT_HIGH", p, g, n - 1)
         /\ a = "BIT_WAIT_LOW" /\ p = "fall" /\ n <= 13 =>
              PaceOf(H, "BIT_WAIT_HIGH", p, g, n - 1)
         /\ PaceOf(H, "RUN", p, g, n - 1)
BY DEF PaceOf, Limit, Phase

\* The moves of the host.
LEMMA MoveTime ==
  ASSUME NEW H \in Nat, NEW b \in Nat, NEW a, NEW p, H >= 8
  PROVE  /\ PaceOf(H, a, "off", 0, b) /\ a \in {"SELFTEST", "MAIN_LOOP", "RUN"} =>
              PaceOf(H, a, "start", 0, b)
         /\ PaceOf(H, a, p, H, b) /\ p \in {"start", "fall"} => PaceOf(H, a, "low", 0, b)
         /\ PaceOf(H, a, "low", H, b) /\ a \notin {"BIT_DATA", "BIT_WAIT_LOW"} =>
              PaceOf(H, a, "high", 0, b)
         /\ PaceOf(H, a, "high", H, b) => PaceOf(H, a, "fall", 0, b)
         /\ PaceOf(H, a, "fall", H, b) => a \notin {"SELFTEST", "BIT_DATA", "BIT_WAIT_LOW"}
         /\ PaceOf(H, a, "high", H, b) => a \notin {"SELFTEST", "MAIN_LOOP", "BIT_WAIT_HIGH"}
BY DEF PaceOf, Limit

LEMMA HeldTime ==
  ASSUME TypeOK, held' = IF held < Hold THEN held + 1 ELSE held
  PROVE  /\ held \in Nat /\ held <= Hold
         /\ held' \in Nat /\ held' <= held + 1 /\ held' \in 0 .. Hold
BY BootFacts DEF TypeOK

\* What Takes and TypeOK give BlockTime.
LEMMA TakesTime ==
  ASSUME TypeOK, Pace, NEW n, Takes(n)
  PROVE  /\ busy = 0 /\ busy' = n - 1
         /\ held \in Nat /\ held <= Hold
         /\ held' \in Nat /\ held' <= held + 1 /\ held' \in 0 .. Hold
         /\ PaceOf(Hold, at, phase, held, 0) /\ phase \in Phase
         /\ UNCHANGED <<attached, image, hbyte, hbit, phase, resets>>
BY HeldTime DEF Takes, Pace, TypeOK

\* The same of the variables.
LEMMA BlockStep ==
  ASSUME EnoughTime, TypeOK, Pace, NEW n \in Nat, n > 0, Takes(n)
  PROVE  /\ at = "SELFTEST" /\ n <= 2 * PsramTime + 6 /\ at' = "MAIN_LOOP" => Pace'
         /\ phase = "off" /\ n = 8 /\ at' = "MAIN_LOOP" => Pace'
         /\ at = "MAIN_LOOP" /\ phase # "off" /\ n = 6 /\ at' = "BIT_WAIT_HIGH" => Pace'
         /\ phase # "high" /\ n = 3 /\ at' = "BIT_WAIT_HIGH" => Pace'
         /\ phase = "high" /\ n = 3 /\ at' = "BIT_DATA" => Pace'
         /\ at = "BIT_DATA" /\ n <= 5 /\ at' = "BIT_WAIT_LOW" => Pace'
         /\ phase = "high" /\ n = 3 /\ at' = "BIT_WAIT_LOW" => Pace'
         /\ at = "BIT_WAIT_LOW" /\ phase = "fall" /\ n <= PsramTime + 14
              /\ at' = "BIT_WAIT_HIGH" => Pace'
         /\ at = "BIT_WAIT_LOW" /\ phase = "fall" /\ n <= 13 /\ at' = "BIT_WAIT_HIGH" => Pace'
         /\ at' = "RUN" => Pace'
<1>1. /\ Hold \in Nat /\ PsramTime \in Nat /\ Hold >= 8
      /\ 3 * Hold >= 2 * PsramTime + 13 /\ 3 * Hold >= PsramTime + 22
  BY BootFacts DEF EnoughTime
<1>2. Pace' <=> PaceOf(Hold, at', phase, held', n - 1)
  BY TakesTime DEF Pace
<1>3. /\ held \in Nat /\ held <= Hold /\ held' \in Nat /\ held' <= held + 1
      /\ PaceOf(Hold, at, phase, held, 0) /\ phase \in Phase
  BY TakesTime
<1> DEFINE P(a) == PaceOf(Hold, a, phase, held', n - 1)
<1>4. /\ at = "SELFTEST" /\ n <= 2 * PsramTime + 6 => P("MAIN_LOOP")
      /\ phase = "off" /\ n = 8 => P("MAIN_LOOP")
      /\ at = "MAIN_LOOP" /\ phase # "off" /\ n = 6 => P("BIT_WAIT_HIGH")
      /\ phase # "high" /\ n = 3 => P("BIT_WAIT_HIGH")
      /\ phase = "high" /\ n = 3 => P("BIT_DATA")
      /\ at = "BIT_DATA" /\ n <= 5 => P("BIT_WAIT_LOW")
      /\ phase = "high" /\ n = 3 => P("BIT_WAIT_LOW")
      /\ at = "BIT_WAIT_LOW" /\ phase = "fall" /\ n <= PsramTime + 14 => P("BIT_WAIT_HIGH")
      /\ at = "BIT_WAIT_LOW" /\ phase = "fall" /\ n <= 13 => P("BIT_WAIT_HIGH")
      /\ P("RUN")
  BY <1>1, <1>3, BlockTime
<1>5. Pace' <=> P(at')
  BY <1>2
<1> HIDE DEF P
<1> QED
  BY <1>4, <1>5

LEMMA StoreTimes ==
  ASSUME NEW a
  PROVE  StoreTime(a) \in 1 .. PsramTime
BY BootFacts DEF StoreTime

LEMMA SelfTestTimes ==
  /\ SelfTestTime \in Nat /\ SelfTestTime > 0
  /\ SelfTestTime <= 2 * PsramTime + 6
BY BootFacts DEF SelfTestTime

\* A call of ByteLoop n instructions after a read, n at most m.
LEMMA ByteLoopTime ==
  ASSUME NEW n \in Nat, NEW left, ByteLoop(n, left)
  PROVE  \/ left = 0 /\ Takes(n + 2) /\ at' = "RUN"
         \/ left # 0 /\ Takes(n + 4) /\ at' = "BIT_WAIT_HIGH"
BY DEF ByteLoop

LEMMA PaceKept ==
  ASSUME EnoughTime, BootIInv, Next \/ UNCHANGED vars
  PROVE  Pace'
<1> USE DEF BootIInv
<1>h. /\ Hold \in Nat /\ PsramTime \in Nat /\ Hold >= 8
      /\ 3 * Hold >= 2 * PsramTime + 13 /\ 3 * Hold >= PsramTime + 22
  BY BootFacts DEF EnoughTime
<1>t. busy \in Nat /\ held \in Nat /\ phase \in Phase
  BY BootFacts DEF TypeOK
<1>1. CASE Work
  <2>1. busy > 0 /\ busy' = busy - 1 /\ busy' \in Nat /\ at' = at /\ phase' = phase
    BY <1>1, <1>t DEF Work
  <2>2. held' \in Nat /\ held' <= held + 1
    BY <1>1, HeldTime DEF Work
  <2> QED
    BY <1>h, <1>t, <2>1, <2>2, WorkTime DEF Pace
<1>2. CASE SelfTest
  <2>1. Takes(SelfTestTime) /\ at = "SELFTEST" /\ at' = "MAIN_LOOP"
    BY <1>2 DEF SelfTest
  <2> QED
    BY <1>h, <2>1, SelfTestTimes, BlockStep
<1>3. CASE Count
  <2>1. Takes(8) /\ at = "MAIN_LOOP" /\ at' = at /\ phase = "off"
    BY <1>3 DEF Count, START
  <2> QED
    BY <1>h, <2>1, BlockStep
<1>4. CASE Begin
  <2>1. Takes(6) /\ at = "MAIN_LOOP" /\ at' = "BIT_WAIT_HIGH" /\ phase # "off"
    BY <1>4 DEF Begin, START
  <2> QED
    BY <1>h, <2>1, BlockStep
<1>5. CASE WaitHigh
  <2>1. Takes(3) /\ at' = IF phase = "high" THEN "BIT_DATA" ELSE "BIT_WAIT_HIGH"
    BY <1>5 DEF WaitHigh, CLOCK
  <2> QED
    BY <1>h, <2>1, BlockStep
<1>6. CASE ReadData
  <2>1. /\ Takes(4 + DATA) /\ at = "BIT_DATA" /\ at' = "BIT_WAIT_LOW"
        /\ 4 + DATA \in Nat /\ 4 + DATA > 0 /\ 4 + DATA <= 5
    BY <1>6, PinFacts DEF ReadData
  <2> QED
    BY <1>h, <2>1, BlockStep
<1>7. CASE WaitLow
  <2>1. Takes(3) /\ at' = "BIT_WAIT_LOW" /\ phase = "high"
    BY <1>7 DEF WaitLow, CLOCK
  <2> QED
    BY <1>h, <2>1, BlockStep
<1>f. ASSUME at = "BIT_WAIT_LOW", ~CLOCK PROVE phase = "fall"
  BY <1>f DEF CLOCK, BitsInStep, HostAt
<1>8. CASE NextBit
  <2>1. Takes(6) /\ at = "BIT_WAIT_LOW" /\ at' = "BIT_WAIT_HIGH" /\ phase = "fall"
    BY <1>8, <1>f DEF NextBit
  <2> QED
    BY <1>h, <2>1, BlockStep
<1>9. CASE GotLength
  <2>1. ByteLoop(9, x6) /\ at = "BIT_WAIT_LOW" /\ phase = "fall"
    BY <1>9, <1>f DEF GotLength
  <2>2. CASE Takes(11) /\ at' = "RUN"
    BY <1>h, <2>2, BlockStep
  <2>3. CASE Takes(13) /\ at' = "BIT_WAIT_HIGH"
    BY <1>h, <2>1, <2>3, BlockStep
  <2> QED
    BY <2>1, <2>2, <2>3, ByteLoopTime
<1>10. CASE GotByte
  <2> DEFINE n == 10 + StoreTime(x5 % 256)
  <2>1. ByteLoop(n, x4 - 1) /\ at = "BIT_WAIT_LOW" /\ phase = "fall"
    BY <1>10, <1>f DEF GotByte
  <2>2. n \in Nat /\ n <= PsramTime + 10
    BY <1>h, StoreTimes
  <2> HIDE DEF n
  <2>3. CASE Takes(n + 2) /\ at' = "RUN"
    <3>1. n + 2 \in Nat /\ n + 2 > 0 /\ busy' = (n + 2) - 1
      BY <2>2, <2>3, TakesTime
    <3> QED
      BY <1>h, <2>2, <2>3, <3>1, BlockStep
  <2>4. CASE Takes(n + 4) /\ at' = "BIT_WAIT_HIGH"
    <3>1. n + 4 \in Nat /\ n + 4 > 0 /\ n + 4 <= PsramTime + 14
      BY <1>h, <2>2
    <3> QED
      BY <1>h, <2>1, <2>4, <3>1, BlockStep
  <2> QED
    BY <2>1, <2>2, <2>3, <2>4, ByteLoopTime
<1>11. CASE Loaded
  <2>1. Takes(1) /\ at' = "RUN"
    BY <1>11 DEF Loaded
  <2> QED
    BY <1>h, <2>1, BlockStep
<1>m. ASSUME NEW to, HostMoves(to)
      PROVE  at' = at /\ busy' = busy /\ held' = 0 /\ phase' = to
  BY <1>m DEF HostMoves, chipVars
<1>12. CASE HostStart
  <2>1. at \in {"SELFTEST", "MAIN_LOOP", "RUN"} /\ phase = "off"
    BY <1>12 DEF HostStart, BitsInStep, HostAt, TypeOK, Label
  <2>2. PaceOf(Hold, at, "off", 0, busy)
    BY <1>h, <1>t, <2>1 DEF Pace, PaceOf
  <2> QED
    BY <1>h, <1>t, <1>m, <1>12, <2>1, <2>2, MoveTime DEF Pace, HostStart
<1>13. CASE HostNextBit
  BY <1>h, <1>t, <1>m, <1>13, MoveTime DEF Pace, HostNextBit
<1>14. CASE HostRaise
  <2>1. at \notin {"BIT_DATA", "BIT_WAIT_LOW"}
    BY <1>14 DEF HostRaise, BitsInStep, HostAt
  <2> QED
    BY <1>h, <1>t, <1>m, <1>14, <2>1, MoveTime DEF Pace, HostRaise
<1>15. CASE HostLower
  BY <1>h, <1>t, <1>m, <1>15, MoveTime DEF Pace, HostLower
<1>16. CASE Reset
  BY <1>16 DEF Reset, Pace, PaceOf
<1>17. CASE UNCHANGED vars
  BY <1>17 DEF vars, chipVars, hostVars, Pace
<1> QED
  BY <1>1, <1>2, <1>3, <1>4, <1>5, <1>6, <1>7, <1>8, <1>9, <1>10, <1>11, <1>12, <1>13,
     <1>14, <1>15, <1>16, <1>17 DEF Next, Chip, Sending

-----------------------------------------------------------------------------
\* Bits.

\* A chip that takes a bit or a byte is at a falling clock, host at its bit.
LEMMA AtBit ==
  ASSUME BootIInv, at = "BIT_WAIT_LOW", ~CLOCK
  PROVE  phase = "fall" /\ hbyte = Receiving /\ hbit = x7
BY DEF BootIInv, CLOCK, BitsInStep, HostAt

\* The registers of a load.
LEMMA LoadFacts ==
  ASSUME BootIInv, at \in {"BIT_WAIT_HIGH", "BIT_DATA", "BIT_WAIT_LOW"}
  PROVE  /\ stage = "load" /\ x7 \in 0 .. 7
         /\ x1 \in {"LENGTH", "BYTE"}
         /\ x1 = "LENGTH" => Receiving = 0
         /\ x1 = "BYTE" => /\ Receiving = 1 + (x5 - LOAD_BASE)
                           /\ x5 \in LOAD_BASE .. LOAD_BASE + Len(image) - 1
                           /\ x4 = Len(image) - (x5 - LOAD_BASE)
BY DEF BootIInv, Content, stage, TypeOK, Receiving

LEMMA Count7 ==
  ASSUME NEW i \in Nat
  PROVE  (i + 1) - 1 = i /\ i + 1 > 0
OBVIOUS

\* The pointer as a number of bytes, and its next value.
LEMMA NextByte ==
  ASSUME BootIInv, at = "BIT_WAIT_LOW", x1 = "BYTE", x5' = x5 + 1, x1' = "BYTE"
  PROVE  Receiving' = Receiving + 1 /\ Receiving' > 0 /\ Receiving' - 1 = Receiving
<1>1. \A x, l \in Nat : x \in l .. l + Len(image) - 1 =>
        /\ 1 + ((x + 1) - l) = (1 + (x - l)) + 1 /\ 1 + ((x + 1) - l) > 0
        /\ (1 + ((x + 1) - l)) - 1 = 1 + (x - l)
  BY PinFacts DEF BootIInv
<1>2. x5 \in Nat /\ LOAD_BASE \in Nat
  BY BootFacts DEF BootIInv, TypeOK
<1>3. Receiving = 1 + (x5 - LOAD_BASE) /\ Receiving' = 1 + ((x5 + 1) - LOAD_BASE)
  BY DEF Receiving
<1> QED
  BY <1>1, <1>2, <1>3, LoadFacts

LEMMA StepsKept ==
  ASSUME EnoughTime, BootIInv, Next \/ UNCHANGED vars
  PROVE  BitsInStep'
<1>1. CASE Work
  BY <1>1 DEF BootIInv, Work, BitsInStep, HostAt, Receiving, regVars
<1>2. CASE SelfTest \/ Count \/ Loaded \/ Reset
  BY <1>2 DEF SelfTest, Count, Loaded, Reset, BitsInStep
<1>4. CASE Begin
  <2>1. hbyte = 0 /\ hbit = 0 /\ phase \in {"start", "low", "high"}
    BY <1>4 DEF BootIInv, Begin, START, Place, stage, Pace, PaceOf, TypeOK, Phase
  <2>2. at' = "BIT_WAIT_HIGH" /\ x7' = 0 /\ Receiving' = 0
    BY <1>4 DEF Begin, Receiving
  <2>3. UNCHANGED <<phase, hbyte, hbit>>
    BY <1>4 DEF Begin, Takes
  <2> QED
    BY <2>1, <2>2, <2>3 DEF BitsInStep, HostAt
<1>5. CASE WaitHigh
  BY <1>5 DEF BootIInv, WaitHigh, CLOCK, Takes, BitsInStep, HostAt, Receiving, regVars
<1>6. CASE ReadData
  BY <1>6 DEF BootIInv, ReadData, Takes, BitsInStep, HostAt, Receiving
<1>7. CASE WaitLow
  BY <1>7 DEF BootIInv, WaitLow, Takes, BitsInStep, HostAt, Receiving, regVars
<1>8. CASE NextBit
  <2>1. phase = "fall" /\ hbyte = Receiving /\ hbit = x7 /\ x7 \in Nat
    BY <1>8, AtBit, LoadFacts DEF NextBit
  <2>2. at' = "BIT_WAIT_HIGH" /\ x7' = x7 + 1 /\ Receiving' = Receiving
    BY <1>8 DEF NextBit, Receiving
  <2>3. UNCHANGED <<phase, hbyte, hbit>>
    BY <1>8 DEF NextBit, Takes
  <2>4. x7' > 0 /\ hbit = x7' - 1
    BY <2>1, <2>2, Count7
  <2> QED
    BY <2>1, <2>2, <2>3, <2>4 DEF BitsInStep, HostAt
<1>9. CASE GotLength
  <2>1. phase = "fall" /\ hbyte = 0 /\ hbit = 7
    BY <1>9, AtBit, LoadFacts DEF GotLength
  <2>2. ByteLoop(9, x6) /\ x5' = LOAD_BASE
    BY <1>9 DEF GotLength
  <2>3. CASE x6 = 0
    BY <2>2, <2>3 DEF ByteLoop, BitsInStep
  <2>4. CASE x6 # 0
    <3>1. at' = "BIT_WAIT_HIGH" /\ x1' = "BYTE" /\ x7' = 0 /\ UNCHANGED <<phase, hbyte, hbit>>
      BY <2>2, <2>4 DEF ByteLoop, Takes
    <3>2. Receiving' = 1
      BY <2>2, <3>1, BootFacts DEF Receiving
    <3> QED
      BY <2>1, <3>1, <3>2 DEF BitsInStep, HostAt
  <2> QED
    BY <2>3, <2>4
<1>10. CASE GotByte
  <2>1. phase = "fall" /\ hbyte = Receiving /\ hbit = 7
    BY <1>10, AtBit DEF GotByte
  <2>2. ByteLoop(10 + StoreTime(x5 % 256), x4 - 1)
    BY <1>10 DEF GotByte
  <2>3. CASE x4 - 1 = 0
    BY <2>2, <2>3 DEF ByteLoop, BitsInStep
  <2>4. CASE x4 - 1 # 0
    <3>1. at' = "BIT_WAIT_HIGH" /\ x1' = "BYTE" /\ x7' = 0 /\ UNCHANGED <<phase, hbyte, hbit>>
      BY <2>2, <2>4 DEF ByteLoop, Takes
    <3>2. Receiving' > 0 /\ Receiving' - 1 = Receiving
      BY <1>10, <3>1, NextByte DEF GotByte
    <3> QED
      BY <2>1, <3>1, <3>2 DEF BitsInStep, HostAt
  <2> QED
    BY <2>3, <2>4
<1>h. Hold \in Nat /\ Hold >= 8 /\ busy \in Nat
  BY BootFacts DEF EnoughTime, BootIInv, TypeOK
<1>m. ASSUME NEW to, HostMoves(to)
      PROVE  /\ UNCHANGED <<at, x7, Receiving, image>> /\ phase' = to
  BY <1>m DEF HostMoves, chipVars, regVars, Receiving
<1>11. CASE HostStart
  <2>1. at \notin {"BIT_WAIT_HIGH", "BIT_DATA", "BIT_WAIT_LOW"}
    BY <1>11 DEF BootIInv, HostStart, BitsInStep, HostAt
  <2> QED
    BY <1>m, <1>11, <2>1 DEF HostStart, BitsInStep
<1>12. CASE HostNextBit
  <2>1. HostMoves("low") /\ held = Hold
    BY <1>12 DEF HostNextBit
  <2>2. at \notin {"BIT_DATA", "BIT_WAIT_LOW"}
    BY <1>h, <1>12, <2>1, MoveTime DEF BootIInv, HostNextBit, Pace, BitsInStep, HostAt
  <2>3. CASE at # "BIT_WAIT_HIGH"
    BY <1>m, <2>1, <2>2, <2>3 DEF BitsInStep
  <2>4. CASE at = "BIT_WAIT_HIGH"
    <3>1. HostAt({"low"}, Receiving, x7)'
      <4>1. CASE phase = "start"
        BY <1>m, <1>12, <2>1, <2>4, <4>1 DEF BootIInv, HostNextBit, BitsInStep, HostAt
      <4>2. CASE phase = "fall" /\ x7 > 0 /\ hbyte = Receiving /\ hbit = x7 - 1
        <5>1. x7 \in 0 .. 7 /\ hbit < 7 /\ hbit + 1 = x7
          BY <2>4, <4>2, LoadFacts
        <5>2. hbit' = hbit + 1 /\ hbyte' = hbyte
          BY <1>12, <4>2, <5>1 DEF HostNextBit
        <5> QED
          BY <1>m, <2>1, <4>2, <5>1, <5>2 DEF HostAt
      <4>3. CASE phase = "fall" /\ x7 = 0 /\ Receiving > 0 /\ hbyte = Receiving - 1 /\ hbit = 7
        <5>1. hbyte' = hbyte + 1 /\ hbit' = 0
          BY <1>12, <4>3 DEF HostNextBit
        <5>2. Receiving \in Int
          BY <2>4, LoadFacts, BootFacts, PinFacts DEF BootIInv
        <5>3. hbyte' = Receiving
          BY <4>3, <5>1, <5>2
        <5> QED
          BY <1>m, <2>1, <4>3, <5>1, <5>3 DEF HostAt
      <4> QED
        BY <1>12, <2>4, <4>1, <4>2, <4>3 DEF BootIInv, HostNextBit, BitsInStep, HostAt
    <3> QED
      BY <1>m, <2>1, <2>4, <3>1 DEF BitsInStep, HostAt
  <2> QED
    BY <2>3, <2>4
<1>13. CASE HostRaise
  <2>1. HostMoves("high") /\ phase = "low" /\ UNCHANGED <<hbyte, hbit>>
    BY <1>13 DEF HostRaise
  <2> QED
    BY <1>m, <2>1 DEF BootIInv, BitsInStep, HostAt
<1>14. CASE HostLower
  <2>1. HostMoves("fall") /\ phase = "high" /\ held = Hold /\ UNCHANGED <<hbyte, hbit>>
    BY <1>14 DEF HostLower
  <2>2. at # "BIT_WAIT_HIGH"
    BY <1>h, <2>1, MoveTime DEF BootIInv, Pace
  <2> QED
    BY <1>m, <2>1, <2>2 DEF BootIInv, BitsInStep, HostAt
<1>15. CASE UNCHANGED vars
  BY <1>15 DEF BootIInv, vars, chipVars, regVars, hostVars, BitsInStep, HostAt, Receiving
<1> QED
  BY <1>1, <1>2, <1>4, <1>5, <1>6, <1>7, <1>8, <1>9, <1>10, <1>11, <1>12, <1>13, <1>14,
     <1>15 DEF Next, Chip, Sending

LEMMA PlaceKept ==
  ASSUME EnoughTime, BootIInv, Next \/ UNCHANGED vars
  PROVE  Place'
<1>0. Place /\ TypeOK
  BY DEF BootIInv
<1>1. CASE Work \/ Loaded
  BY <1>0, <1>1 DEF Work, Loaded, Takes, Place, stage, HostAt
<1>2. CASE SelfTest \/ Count
  BY <1>0, <1>2 DEF SelfTest, Count, Takes, Place, stage
<1>3. CASE Begin \/ WaitHigh \/ ReadData \/ WaitLow \/ NextBit
  BY <1>3 DEF Begin, WaitHigh, ReadData, WaitLow, NextBit, Place, stage
<1>4. CASE GotLength
  <2>1. phase = "fall" /\ hbyte = 0 /\ hbit = 7 /\ ByteLoop(9, x6)
    BY <1>4, AtBit, LoadFacts DEF GotLength
  <2>2. x6 = 0 => Len(image) = 0
    <3>1. stage = "load" /\ Receiving = 0 /\ BitsGot = 8
      BY <1>4, LoadFacts DEF GotLength, BitsGot
    <3>2. 8 - BitsGot = 0
      BY <3>1
    <3>3. x6 = Len(image) \div 2^0
      BY <3>1, <3>2 DEF BootIInv, Content, Sent
    <3> QED
      BY <3>3, PinFacts, OneMoreBit DEF BootIInv, MemByte
  <2> QED
    BY <2>1, <2>2 DEF ByteLoop, Takes, Place, stage, HostAt
<1>5. CASE GotByte
  <2>1. /\ phase = "fall" /\ hbyte = Receiving /\ hbit = 7
        /\ ByteLoop(10 + StoreTime(x5 % 256), x4 - 1)
    BY <1>5, AtBit DEF GotByte
  <2>2. x4 - 1 = 0 => Receiving = Len(image)
    <3>1. \A x, l \in Nat : \A n \in 0 .. 255 : (n - (x - l)) - 1 = 0 => 1 + (x - l) = n
      OBVIOUS
    <3>2. x5 \in Nat /\ LOAD_BASE \in Nat /\ Len(image) \in 0 .. 255
      BY <1>0, BootFacts, PinFacts DEF TypeOK
    <3> QED
      BY <1>5, <3>1, <3>2, LoadFacts DEF GotByte
  <2> QED
    BY <2>1, <2>2 DEF ByteLoop, Takes, Place, stage, HostAt
<1>6. CASE HostStart \/ HostRaise \/ HostLower
  BY <1>0, <1>6 DEF HostStart, HostRaise, HostLower, HostMoves, chipVars, Place, stage, HostAt
<1>7. CASE HostNextBit
  <2>1. HostMoves("low") /\ UNCHANGED <<at, image, stage>>
    BY <1>7 DEF HostNextBit, HostMoves, chipVars, stage
  <2>2. CASE stage = "listen"
    <3>1. phase # "fall"
      BY <2>2 DEF BootIInv, Pace, PaceOf, stage
    <3> QED
      BY <1>0, <1>7, <2>1, <2>2, <3>1 DEF HostNextBit, Place, stage
  <2>3. CASE at = "RUN"
    <3>1. phase = "fall" /\ hbyte = Len(image) /\ hbit = 7
      BY <1>0, <2>3 DEF Place, HostAt
    <3>2. Len(image) \in Nat
      BY <1>0, PinFacts
    <3> QED
      BY <1>7, <3>1, <3>2 DEF HostNextBit
  <2> QED
    BY <2>1, <2>2, <2>3 DEF Place, stage
<1>8. CASE Reset
  BY <1>8 DEF Reset, Place, stage
<1>9. CASE UNCHANGED vars
  BY <1>0, <1>9 DEF vars, chipVars, hostVars, Place, stage, HostAt
<1> QED
  BY <1>1, <1>2, <1>3, <1>4, <1>5, <1>6, <1>7, <1>8, <1>9 DEF Next, Chip, Sending

-----------------------------------------------------------------------------
\* Bytes.

\* The byte stored: the next of the image, at its place in the memory, and not
\* one of the registers of the chip.
LEMMA StoreInPlace ==
  ASSUME BootIInv, GotByte
  PROVE  /\ x5 - LOAD_BASE + 1 \in 1 .. Len(image)
         /\ x6 = image[x5 - LOAD_BASE + 1]
         /\ x5 \in Cells /\ x5 <= 239
         /\ mem' = [mem EXCEPT ![x5] = x6]
         /\ UNCHANGED <<gpio_out, flash_mode, flash_page>>
<1>1. /\ at = "BIT_WAIT_LOW" /\ ~CLOCK /\ x7 = 7 /\ x1 = "BYTE"
      /\ StoreByte(x5 % 256, x6)
  BY DEF GotByte
<1>2. x5 \in LOAD_BASE .. LOAD_BASE + Len(image) - 1 /\ Receiving = 1 + (x5 - LOAD_BASE)
  BY <1>1, LoadFacts
<1>3. Len(image) \in 0 .. 255 /\ \A n \in 0 .. Len(image) : Sent(n) \in MemByte
  BY PinFacts DEF BootIInv
<1>4. LOAD_BASE + Len(image) <= (IF attached THEN EXT_PSRAM_BASE + EXT_PSRAM_BYTES
                                 ELSE RAM_BASE + RAM_BYTES)
  BY DEF BootIInv, Content, Fits
<1>5. \A l, x, n, top \in Nat : x \in l .. l + n - 1 /\ l + n <= top /\ top <= 240 =>
        x - l + 1 \in 1 .. n /\ 1 + (x - l) = x - l + 1 /\ x <= 239 /\ x < top /\ x % 256 = x
  OBVIOUS
<1>6. LOAD_BASE \in Nat /\ x5 \in Nat /\ Len(image) \in Nat
  BY <1>3, BootFacts DEF BootIInv, TypeOK
<1>7. /\ EXT_PSRAM_BASE + EXT_PSRAM_BYTES \in Nat /\ EXT_PSRAM_BASE + EXT_PSRAM_BYTES <= 240
      /\ RAM_BASE + RAM_BYTES \in Nat /\ RAM_BASE + RAM_BYTES <= 240
  BY BootFacts
<1>8. /\ x5 - LOAD_BASE + 1 \in 1 .. Len(image) /\ 1 + (x5 - LOAD_BASE) = x5 - LOAD_BASE + 1
      /\ x5 <= 239 /\ x5 % 256 = x5
      /\ attached => x5 < EXT_PSRAM_BASE + EXT_PSRAM_BYTES
      /\ ~attached => x5 < RAM_BASE + RAM_BYTES
  BY <1>2, <1>4, <1>5, <1>6, <1>7
<1>9. x6 = image[x5 - LOAD_BASE + 1]
  <2>1. BitsGot = 8 /\ 8 - BitsGot = 0
    BY <1>1 DEF BitsGot
  <2>2. x6 = Sent(Receiving) \div 2^0
    BY <1>1, <2>1, LoadFacts DEF BootIInv, Content
  <2>3. Receiving \in 1 .. Len(image)
    BY <1>2, <1>8
  <2>4. Sent(Receiving) \in MemByte
    BY <1>3, <1>6, <2>3
  <2>5. x6 = Sent(Receiving)
    BY <2>2, <2>4, OneMoreBit
  <2> QED
    BY <1>2, <1>8, <2>3, <2>5 DEF Sent
<1>10. x5 >= RAM_BASE
  BY <1>2, BootFacts, <1>6
<1>11. x5 \in Cells
  BY <1>6, <1>8, <1>10, BootFacts DEF Cells
<1>12. in_ram(x5, flash_mode) \/ (in_ext_psram(x5) /\ attached)
  <2>1. ~flash_mode
    BY DEF BootIInv, Content
  <2>2. CASE x5 < RAM_BASE + RAM_BYTES
    BY <1>10, <2>1, <2>2 DEF in_ram, in_ram_range, in_ext_flash
  <2>3. CASE ~(x5 < RAM_BASE + RAM_BYTES)
    <3>1. attached /\ x5 < EXT_PSRAM_BASE + EXT_PSRAM_BYTES
      BY <1>8, <2>3 DEF BootIInv, TypeOK
    <3>2. x5 >= EXT_PSRAM_BASE
      BY <1>6, <2>3, BootFacts, BootAssumption
    <3> QED
      BY <3>1, <3>2 DEF in_ext_psram
  <2> QED
    BY <2>2, <2>3
<1>13. x5 # LED_OUT /\ x5 # FLASH_MODE /\ x5 # FLASH_PAGE
  BY <1>6, <1>8 DEF LED_OUT, FLASH_MODE, FLASH_PAGE
<1>14. StoreByte(x5, x6)
  BY <1>1, <1>8
<1>15. mem' = [mem EXCEPT ![x5] = x6]
  BY <1>12, <1>14 DEF StoreByte
<1>16. UNCHANGED <<gpio_out, flash_mode, flash_page>>
  BY <1>13, <1>14 DEF StoreByte, BootIInv, Content, TypeOK
<1> QED
  BY <1>8, <1>9, <1>11, <1>15, <1>16

\* With no byte stored yet there is nothing to say of the memory.
LEMMA NoneStored ==
  ASSUME stage = "listen" \/ x1 = "LENGTH"
  PROVE  Stored = 0 /\ \A i \in 1 .. Stored : mem[LOAD_BASE + i - 1] = image[i]
BY DEF Stored

\* One more byte.
LEMMA OneMoreStored ==
  ASSUME BootIInv, GotByte
  PROVE  /\ Stored \in 0 .. Len(image) - 1 /\ Stored = x5 - LOAD_BASE
         /\ Stored' = Stored + 1 /\ x6 = image[Stored + 1]
         /\ \A i \in 1 .. Stored' : (mem[LOAD_BASE + i - 1] = image[i])'
         /\ stage = "load" /\ x1' = "BYTE" /\ stage' # "listen" /\ image' = image
<1>1. /\ x1 = "BYTE" /\ at = "BIT_WAIT_LOW" /\ x5' = x5 + 1 /\ stage = "load"
      /\ ByteLoop(10 + StoreTime(x5 % 256), x4 - 1)
  BY DEF GotByte, stage
<1>2. at' \in {"RUN", "BIT_WAIT_HIGH"} /\ x1' = "BYTE" /\ image' = image
  BY <1>1 DEF ByteLoop, Takes
<1>3. Stored = x5 - LOAD_BASE /\ Stored' = (x5 + 1) - LOAD_BASE
  BY <1>1, <1>2 DEF Stored, stage
<1>4. x5 \in Nat /\ LOAD_BASE \in Nat /\ Len(image) \in Nat
  BY BootFacts, PinFacts DEF BootIInv, TypeOK
<1>5. \A x, l, n \in Nat : x - l + 1 \in 1 .. n =>
        x - l \in 0 .. n - 1 /\ (x + 1) - l = (x - l) + 1 /\ l + ((x - l) + 1) - 1 = x
  OBVIOUS
<1>6. /\ Stored \in 0 .. Len(image) - 1 /\ Stored' = Stored + 1 /\ x6 = image[Stored + 1]
      /\ LOAD_BASE + (Stored + 1) - 1 = x5
  BY <1>3, <1>4, <1>5, StoreInPlace
<1>7. ASSUME NEW i \in 1 .. Stored' PROVE mem'[LOAD_BASE + i - 1] = image[i]
  <2>1. mem' = [mem EXCEPT ![x5] = x6] /\ mem \in [Cells -> MemByte] /\ x5 \in Cells
    BY StoreInPlace DEF BootIInv, TypeOK
  <2>2. CASE i = Stored + 1
    BY <1>6, <2>1, <2>2
  <2>3. CASE i # Stored + 1
    <3>1. i \in 1 .. Stored
      BY <1>6, <2>3
    <3>2. mem[LOAD_BASE + i - 1] = image[i]
      BY <3>1 DEF BootIInv, Content
    <3>3. LOAD_BASE + i - 1 # x5
      BY <1>4, <1>6, <3>1
    <3>4. LOAD_BASE + i - 1 \in Cells
      <4>1. \A l, k, x, b, e \in Nat : l + (k + 1) - 1 = x /\ x \in b .. e /\ b <= l =>
              \A j \in 1 .. k : l + j - 1 \in b .. e
        OBVIOUS
      <4>2. RAM_BASE \in Nat /\ EXT_PSRAM_BASE + EXT_PSRAM_BYTES - 1 \in Nat /\ RAM_BASE <= LOAD_BASE
        BY BootFacts
      <4> QED
        BY <1>4, <1>6, <2>1, <3>1, <4>1, <4>2 DEF Cells
    <3> QED
      BY <2>1, <3>2, <3>3, <3>4
  <2> QED
    BY <2>2, <2>3
<1> QED
  BY <1>1, <1>2, <1>3, <1>6, <1>7 DEF stage

LEMMA SelfTestStore ==
  ASSUME TypeOK, SelfTest
  PROVE  UNCHANGED <<gpio_out, flash_mode, flash_page>>
BY BootFacts DEF TypeOK, SelfTest, StoreByte, LED_OUT, FLASH_MODE, FLASH_PAGE

\* The contents of the chip that a step of the host or of a wait leaves alone.
LEMMA ContentFrame ==
  ASSUME Content, UNCHANGED <<stage, at = "RUN", x1, x4, x5, x6, x7, BitsGot, mem, flash_mode,
                              attached, image>>
  PROVE  Content'
BY DEF Content, Fits, Stored, Receiving, Sent

LEMMA ContentKept ==
  ASSUME EnoughTime, BootIInv, Next \/ UNCHANGED vars
  PROVE  Content'
<1>0. Content /\ TypeOK
  BY DEF BootIInv
<1>p. /\ Len(image) \in 0 .. 255 /\ \A n \in 0 .. Len(image) : Sent(n) \in MemByte
  BY <1>0, PinFacts
<1>t. ASSUME NEW n, Takes(n)
      PROVE  UNCHANGED <<attached, image, phase, hbyte, hbit>> /\ (Fits(image) => Fits(image)')
  BY <1>t DEF Takes, Fits
<1>1. CASE Work \/ WaitHigh \/ WaitLow \/ Loaded \/ HostStart \/ Sending \/ UNCHANGED vars
  <2>1. UNCHANGED <<x1, x4, x5, x6, x7, mem, flash_mode, attached, image>>
    BY <1>1 DEF Work, WaitHigh, WaitLow, Loaded, Takes, HostStart, Sending, HostNextBit,
       HostRaise, HostLower, HostMoves, vars, chipVars, regVars, memVars, hostVars
  <2>2. UNCHANGED <<stage, at = "RUN", at = "BIT_WAIT_LOW">>
    BY <1>1 DEF Work, WaitHigh, WaitLow, Loaded, Takes, HostStart, Sending, HostNextBit,
       HostRaise, HostLower, HostMoves, vars, chipVars, stage
  <2>3. BitsGot' = BitsGot
    BY <2>1, <2>2 DEF BitsGot
  <2> QED
    BY <1>0, <2>1, <2>2, <2>3, ContentFrame
<1>2. CASE SelfTest \/ Count
  <2>1. stage' = "listen" /\ at' # "RUN"
    BY <1>2 DEF SelfTest, Count, stage
  <2>2. flash_mode' = flash_mode /\ Fits(image)'
    BY <1>0, <1>2, <1>t, SelfTestStore DEF SelfTest, Count, Content
  <2> QED
    BY <1>0, <2>1, <2>2 DEF Content, Stored
<1>3. CASE Begin
  <2>1. stage' = "load" /\ x1' = "LENGTH" /\ x7' = 0 /\ x6' = 0 /\ BitsGot' = 0 /\ at' # "RUN"
    BY <1>3 DEF Begin, stage, BitsGot
  <2>2. flash_mode' = flash_mode /\ Fits(image)' /\ image' = image
    BY <1>0, <1>3, <1>t DEF Begin, Content, memVars
  <2>3. Receiving' = 0 /\ Stored' = 0
    BY <2>1 DEF Receiving, Stored
  <2>4. Sent(Receiving)' \in MemByte
    BY <1>p, <2>2, <2>3 DEF Sent
  <2>5. x6' = Sent(Receiving)' \div 2^8 /\ 8 - BitsGot' = 8
    BY <2>1, <2>4, OneMoreBit
  <2> QED
    BY <1>0, <2>1, <2>2, <2>3, <2>5 DEF Content
<1>4. CASE ReadData
  <2>1. /\ stage = "load" /\ stage' = "load" /\ at' # "RUN" /\ BitsGot = x7 /\ BitsGot' = x7 + 1
        /\ x6' = 2 * x6 + DATA /\ UNCHANGED <<x1, x4, x5, x7, mem, flash_mode>>
    BY <1>4 DEF ReadData, stage, BitsGot, memVars
  <2>2. UNCHANGED image /\ Fits(image)'
    BY <1>0, <1>4, <1>t DEF ReadData, Content
  <2>3. x7 \in 0 .. 7 /\ 8 - BitsGot' = 7 - x7
    BY <1>0, <2>1 DEF Content
  <2>4. phase \in {"high", "fall"} /\ hbyte = Receiving /\ hbit = x7
    BY <1>4 DEF ReadData, BootIInv, BitsInStep, HostAt
  <2>5. Sent(Receiving) \in MemByte
    BY <1>0, <1>p, <2>4 DEF TypeOK
  <2>6. x6 = Sent(Receiving) \div 2^(8 - x7)
    BY <1>0, <2>1 DEF Content
  <2>7. DATA = (Sent(Receiving) \div 2^(7 - x7)) % 2
    BY <2>4 DEF DATA
  <2>8. x6' = Sent(Receiving) \div 2^(7 - x7)
    BY <2>1, <2>3, <2>5, <2>6, <2>7, OneMoreBit
  <2>9. Sent(Receiving)' = Sent(Receiving) /\ Stored' = Stored
    BY <2>1, <2>2 DEF Sent, Receiving, Stored
  <2>10. x6' = Sent(Receiving)' \div 2^(8 - BitsGot')
    BY <2>3, <2>8, <2>9
  <2> QED
    BY <1>0, <2>1, <2>2, <2>9, <2>10 DEF Content
<1>5. CASE NextBit
  <2>1. /\ stage = "load" /\ stage' = "load" /\ at' # "RUN" /\ BitsGot = x7 + 1 /\ BitsGot' = x7 + 1
        /\ x7 < 7 /\ x7' = x7 + 1 /\ UNCHANGED <<x1, x4, x5, x6, mem, flash_mode>>
    BY <1>5 DEF NextBit, stage, BitsGot, memVars
  <2>2. UNCHANGED image /\ Fits(image)'
    BY <1>0, <1>5, <1>t DEF NextBit, Content
  <2>3. x7' \in 0 .. 7
    BY <1>0, <2>1 DEF Content
  <2>4. Sent(Receiving)' = Sent(Receiving) /\ Stored' = Stored
    BY <2>1, <2>2 DEF Sent, Receiving, Stored
  <2> QED
    BY <1>0, <2>1, <2>2, <2>3, <2>4 DEF Content
<1>6. CASE GotLength
  <2>1. /\ ByteLoop(9, x6) /\ x4' = x6 /\ x5' = LOAD_BASE /\ x1 = "LENGTH" /\ stage = "load"
        /\ at = "BIT_WAIT_LOW" /\ x7 = 7 /\ UNCHANGED <<mem, flash_mode>>
    BY <1>6 DEF GotLength, stage, memVars
  <2>2. UNCHANGED image /\ Fits(image)'
    BY <1>0, <1>t, <2>1 DEF ByteLoop, Content
  <2>3. x6 = Len(image)
    <3>1. Receiving = 0 /\ 8 - BitsGot = 0
      BY <2>1 DEF Receiving, BitsGot
    <3>2. x6 = Len(image) \div 2^0
      BY <1>0, <2>1, <3>1 DEF Content, Sent
    <3> QED
      BY <1>p, <3>2, OneMoreBit DEF MemByte
  <2>4. CASE x6 = 0
    <3>1. stage' = "run" /\ x1' = "LENGTH"
      BY <2>1, <2>4 DEF ByteLoop, stage
    <3> QED
      BY <1>0, <2>1, <2>2, <2>3, <2>4, <3>1 DEF Content, Stored
  <2>5. CASE x6 # 0
    <3>1. at' = "BIT_WAIT_HIGH" /\ stage' = "load" /\ x1' = "BYTE" /\ x6' = 0 /\ x7' = 0
      BY <2>1, <2>5 DEF ByteLoop, stage
    <3>2. Receiving' = 1 /\ Stored' = 0 /\ 8 - BitsGot' = 8
      BY <2>1, <3>1, BootFacts DEF Receiving, Stored, BitsGot
    <3>3. x5' \in LOAD_BASE .. LOAD_BASE + Len(image)' - 1 /\ x4' = Len(image)' - (x5' - LOAD_BASE)
      BY <1>p, <2>1, <2>2, <2>3, <2>5, BootFacts
    <3>4. Sent(Receiving)' \in MemByte
      <4>1. 1 \in 0 .. Len(image)
        BY <1>p, <2>3, <2>5
      <4> QED
        BY <1>p, <2>2, <3>2, <4>1 DEF Sent
    <3>5. x6' = Sent(Receiving)' \div 2^8
      BY <3>1, <3>4, OneMoreBit
    <3>6. x6' = Sent(Receiving)' \div 2^(8 - BitsGot')
      BY <3>2, <3>5, Zenon
    <3> QED
      BY <1>0, <2>1, <2>2, <3>1, <3>2, <3>3, <3>6 DEF Content
  <2> QED
    BY <2>4, <2>5
<1>7. CASE GotByte
  <2>1. /\ ByteLoop(10 + StoreTime(x5 % 256), x4 - 1) /\ x5' = x5 + 1 /\ x4' = x4 - 1
        /\ x1 = "BYTE" /\ at = "BIT_WAIT_LOW"
    BY <1>7 DEF GotByte
  <2>2. UNCHANGED image /\ Fits(image)'
    BY <1>0, <1>t, <2>1 DEF ByteLoop, Content
  <2>3. /\ Stored \in 0 .. Len(image) - 1 /\ Stored = x5 - LOAD_BASE
        /\ Stored' = Stored + 1 /\ x1' = "BYTE"
        /\ \A i \in 1 .. Stored' : (mem[LOAD_BASE + i - 1] = image[i])'
    BY <1>7, OneMoreStored
  <2>4. flash_mode' = flash_mode
    BY <1>7, StoreInPlace
  <2>5. x4 = Len(image) - Stored
    BY <2>1, <2>3, LoadFacts
  <2>6. CASE x4 - 1 = 0
    <3>1. at' = "RUN" /\ stage' = "run"
      BY <2>1, <2>6 DEF ByteLoop, stage
    <3>2. Stored' = Len(image)
      BY <1>p, <2>3, <2>5, <2>6
    <3> QED
      BY <1>0, <2>2, <2>3, <2>4, <3>1, <3>2 DEF Content
  <2>7. CASE x4 - 1 # 0
    <3>1. at' = "BIT_WAIT_HIGH" /\ stage' = "load" /\ x6' = 0 /\ x7' = 0
      BY <2>1, <2>7 DEF ByteLoop, stage
    <3>2. x5 \in Nat /\ LOAD_BASE \in Nat /\ Len(image) \in Nat
      BY <1>0, <1>p, BootFacts DEF TypeOK
    <3>3. \A x, l, n \in Nat : x - l \in 0 .. n - 1 /\ (n - (x - l)) - 1 # 0 =>
            /\ x + 1 \in l .. l + n - 1 /\ (n - (x - l)) - 1 = n - ((x + 1) - l)
            /\ 1 + ((x + 1) - l) \in 0 .. n
      OBVIOUS
    <3>4. /\ x5' \in LOAD_BASE .. LOAD_BASE + Len(image)' - 1
          /\ x4' = Len(image)' - (x5' - LOAD_BASE)
          /\ 1 + (x5' - LOAD_BASE) \in 0 .. Len(image)
      BY <2>1, <2>2, <2>3, <2>5, <2>7, <3>2, <3>3
    <3>5. Receiving' = 1 + (x5' - LOAD_BASE) /\ 8 - BitsGot' = 8
      BY <2>3, <3>1 DEF Receiving, BitsGot
    <3>6. Sent(Receiving)' \in MemByte
      BY <1>p, <2>2, <3>4, <3>5 DEF Sent
    <3>7. x6' = Sent(Receiving)' \div 2^8
      BY <3>1, <3>6, OneMoreBit
    <3>8. x6' = Sent(Receiving)' \div 2^(8 - BitsGot')
      BY <3>5, <3>7, Zenon
    <3> QED
      BY <1>0, <2>2, <2>3, <2>4, <3>1, <3>4, <3>8 DEF Content
  <2> QED
    BY <2>6, <2>7
<1>8. CASE Reset
  <2>1. stage' = "listen" /\ at' # "RUN" /\ ~flash_mode'
    BY <1>8 DEF Reset, stage
  <2>2. Fits(image)'
    <3>1. image' \in Sendable /\ attached' = attached
      BY <1>8 DEF Reset
    <3> QED
      BY <3>1 DEF Sendable, EnoughTime, Fits
  <2> QED
    BY <2>1, <2>2 DEF Content, Stored
<1> QED
  BY <1>1, <1>2, <1>3, <1>4, <1>5, <1>6, <1>7, <1>8 DEF Next, Chip

-----------------------------------------------------------------------------
\* Types.

LEMMA BlockTypes ==
  ASSUME TypeOK, NEW n \in Nat, n > 0, Takes(n)
  PROVE  /\ busy' \in Nat /\ held' \in 0 .. Hold
         /\ UNCHANGED <<attached, image, hbyte, hbit, phase, resets>>
<1>1. n - 1 \in Nat
  OBVIOUS
<1> QED
  BY <1>1, HeldTime DEF Takes

LEMMA ByteLoopTypes ==
  ASSUME TypeOK, NEW n \in Nat, NEW left, ByteLoop(n, left), x7 = 7
  PROVE  /\ busy' \in Nat /\ held' \in 0 .. Hold
         /\ UNCHANGED <<attached, image, hbyte, hbit, phase, resets>>
         /\ at' \in Label /\ x1' \in {"LENGTH", "BYTE"} /\ x6' \in MemByte /\ x7' \in 0 .. 8
<1>1. n + 2 \in Nat /\ n + 2 > 0 /\ n + 4 \in Nat /\ n + 4 > 0
  OBVIOUS
<1>2. CASE left = 0
  <2>1. Takes(n + 2) /\ at' = "RUN" /\ x7' = x7 + 1 /\ UNCHANGED <<x1, x6>>
    BY <1>2 DEF ByteLoop
  <2> QED
    BY <1>1, <2>1, BlockTypes DEF TypeOK, Label
<1>3. CASE left # 0
  <2>1. Takes(n + 4) /\ at' = "BIT_WAIT_HIGH" /\ x1' = "BYTE" /\ x6' = 0 /\ x7' = 0
    BY <1>3 DEF ByteLoop
  <2> QED
    BY <1>1, <2>1, BlockTypes DEF Label, MemByte
<1> QED
  BY <1>2, <1>3

LEMMA TypesKept ==
  ASSUME EnoughTime, BootIInv, Next \/ UNCHANGED vars
  PROVE  TypeOK'
<1>0. TypeOK
  BY DEF BootIInv
<1>i. image \in Images /\ Len(image) \in 0 .. 255
  BY <1>0, PinFacts DEF TypeOK
<1>1. CASE Work
  <2>1. busy' \in Nat /\ held' \in 0 .. Hold
    <3>1. \A b \in Nat : b > 0 => b - 1 \in Nat
      OBVIOUS
    <3> QED
      BY <1>0, <1>1, <3>1, HeldTime DEF Work, TypeOK
  <2> QED
    BY <1>0, <1>1, <2>1 DEF Work, TypeOK, regVars, memVars
<1>2. CASE SelfTest
  <2>1. Takes(SelfTestTime)
    BY <1>2 DEF SelfTest
  <2>2. /\ busy' \in Nat /\ held' \in 0 .. Hold
        /\ UNCHANGED <<attached, image, hbyte, hbit, phase, resets>>
    BY <1>0, <2>1, SelfTestTimes, BlockTypes
  <2>3. mem' \in [Cells -> MemByte]
    <3>1. SELFTEST_PATTERN \in MemByte
      BY DEF SELFTEST_PATTERN, MemByte
    <3> QED
      BY <1>0, <1>2, <3>1 DEF SelfTest, StoreByte, TypeOK
  <2>4. /\ at' \in Label /\ x6' \in MemByte /\ x8' \in {0, 128} /\ x9' \in 0 .. 15
        /\ UNCHANGED <<x1, x4, x5, x7, gpio_out, flash_mode, flash_page>>
    BY <1>0, <1>2, SelfTestStore DEF SelfTest, SELFTEST_PATTERN, MemByte, Label
  <2> QED
    BY <1>0, <2>2, <2>3, <2>4 DEF TypeOK
<1>3. CASE Count
  <2>1. Takes(8) /\ UNCHANGED <<at, x1, x4, x5, x6, x7, x8, mem, flash_mode, flash_page>>
    BY <1>3 DEF Count
  <2>2. /\ busy' \in Nat /\ held' \in 0 .. Hold
        /\ UNCHANGED <<attached, image, hbyte, hbit, phase, resets>>
    BY <1>0, <2>1, BlockTypes
  <2>3. x9' \in 0 .. 15 /\ gpio_out' \in MemByte
    BY <1>0, <1>3 DEF Count, TypeOK, MemByte
  <2> QED
    BY <1>0, <2>1, <2>2, <2>3 DEF TypeOK
<1>4. CASE Begin \/ WaitHigh \/ WaitLow \/ Loaded
  <2>1. \/ Takes(6) \/ Takes(3) \/ Takes(1)
    BY <1>4 DEF Begin, WaitHigh, WaitLow, Loaded
  <2>2. /\ busy' \in Nat /\ held' \in 0 .. Hold
        /\ UNCHANGED <<attached, image, hbyte, hbit, phase, resets>>
    BY <1>0, <2>1, BlockTypes
  <2>3. /\ at' \in Label /\ x1' \in {"LENGTH", "BYTE"} /\ x6' \in MemByte /\ x7' \in 0 .. 8
        /\ UNCHANGED <<x4, x5, x8, x9, mem, gpio_out, flash_mode, flash_page>>
    <3>1. CASE Begin
      BY <1>0, <3>1 DEF Begin, TypeOK, Label, MemByte, memVars
    <3>2. CASE WaitHigh
      BY <1>0, <3>2 DEF WaitHigh, TypeOK, Label, regVars, memVars
    <3>3. CASE WaitLow \/ Loaded
      BY <1>0, <3>3 DEF WaitLow, Loaded, TypeOK, regVars, memVars
    <3> QED
      BY <1>4, <3>1, <3>2, <3>3
  <2> QED
    BY <1>0, <2>2, <2>3 DEF TypeOK
<1>5. CASE ReadData
  <2>1. Takes(4 + DATA) /\ 4 + DATA \in Nat /\ 4 + DATA > 0
    BY <1>0, <1>5, PinFacts DEF ReadData
  <2>2. /\ busy' \in Nat /\ held' \in 0 .. Hold
        /\ UNCHANGED <<attached, image, hbyte, hbit, phase, resets>>
    BY <1>0, <2>1, BlockTypes
  <2>3. x6' \in MemByte
    <3>1. Content' /\ BitsInStep' /\ stage' = "load" /\ at' = "BIT_WAIT_LOW" /\ x7' = x7
      BY <1>5, ContentKept, StepsKept DEF ReadData, stage
    <3>2. hbyte' = Receiving' /\ hbyte' = hbyte /\ image' = image
      BY <2>2, <3>1 DEF BitsInStep, HostAt
    <3>3. Sent(Receiving)' \in MemByte
      BY <1>0, <3>2, PinFacts DEF TypeOK, Sent
    <3>4. x6' = Sent(Receiving)' \div 2^(8 - BitsGot') /\ BitsGot' = x7 + 1 /\ x7 \in 0 .. 7
      BY <3>1 DEF Content, BitsGot
    <3>5. 8 - BitsGot' = 7 - x7
      BY <3>4
    <3>6. x6' = Sent(Receiving)' \div 2^(7 - x7)
      BY <3>4, <3>5, Zenon
    <3> QED
      BY <3>3, <3>4, <3>6, OneMoreBit
  <2> QED
    BY <1>0, <1>5, <2>2, <2>3 DEF ReadData, TypeOK, Label, memVars
<1>6. CASE NextBit
  <2>1. Takes(6) /\ x7 \in 0 .. 7 /\ x7 < 7 /\ x7' = x7 + 1
    BY <1>6, LoadFacts DEF NextBit
  <2>2. /\ busy' \in Nat /\ held' \in 0 .. Hold /\ x7' \in 0 .. 8
        /\ UNCHANGED <<attached, image, hbyte, hbit, phase, resets>>
    BY <1>0, <2>1, BlockTypes
  <2> QED
    BY <1>0, <1>6, <2>2 DEF NextBit, TypeOK, Label, memVars
<1>7. CASE GotLength
  <2>1. ByteLoop(9, x6) /\ x7 = 7
    BY <1>7 DEF GotLength
  <2>2. x4' \in MemByte /\ x5' \in 0 .. LOAD_BASE + 255
    BY <1>0, <1>7, BootFacts DEF GotLength, TypeOK
  <2> QED
    BY <1>0, <1>7, <2>1, <2>2, ByteLoopTypes DEF GotLength, TypeOK, memVars
<1>8. CASE GotByte
  <2>1. ByteLoop(10 + StoreTime(x5 % 256), x4 - 1) /\ x7 = 7
    BY <1>8 DEF GotByte
  <2>2. 10 + StoreTime(x5 % 256) \in Nat
    BY BootFacts, StoreTimes
  <2>3. mem' \in [Cells -> MemByte] /\ UNCHANGED <<gpio_out, flash_mode, flash_page>>
    BY <1>0, <1>8, StoreInPlace DEF TypeOK
  <2>4. x4' \in MemByte /\ x5' \in 0 .. LOAD_BASE + 255
    <3>1. \A x, l \in Nat : \A n \in 0 .. 255 : x \in l .. l + n - 1 =>
            (n - (x - l)) - 1 \in 0 .. 255 /\ x + 1 \in 0 .. l + 255
      OBVIOUS
    <3>2. /\ x5 \in LOAD_BASE .. LOAD_BASE + Len(image) - 1 /\ x4 = Len(image) - (x5 - LOAD_BASE)
          /\ x5' = x5 + 1 /\ x4' = x4 - 1
      BY <1>8, LoadFacts DEF GotByte
    <3>3. x5 \in Nat /\ LOAD_BASE \in Nat
      BY <1>0, BootFacts DEF TypeOK
    <3> QED
      BY <1>i, <3>1, <3>2, <3>3 DEF MemByte
  <2>5. /\ busy' \in Nat /\ held' \in 0 .. Hold
        /\ UNCHANGED <<attached, image, hbyte, hbit, phase, resets>>
        /\ at' \in Label /\ x1' \in {"LENGTH", "BYTE"} /\ x6' \in MemByte /\ x7' \in 0 .. 8
    BY <1>0, <2>1, <2>2, ByteLoopTypes
  <2>6. UNCHANGED <<x8, x9>>
    BY <1>8 DEF GotByte
  <2> QED
    BY <1>0, <2>3, <2>4, <2>5, <2>6 DEF TypeOK
<1>m. ASSUME NEW to, HostMoves(to)
      PROVE  /\ held' \in 0 .. Hold /\ phase' = to
             /\ UNCHANGED <<at, busy, x1, x4, x5, x6, x7, x8, x9>>
             /\ UNCHANGED <<mem, gpio_out, flash_mode, flash_page, attached, image, resets>>
  BY <1>m, BootFacts DEF HostMoves, chipVars, regVars, memVars
<1>9. CASE HostStart \/ HostRaise \/ HostLower
  <2>1. \E to \in Phase : HostMoves(to)
    BY <1>9 DEF HostStart, HostRaise, HostLower, Phase
  <2>2. hbyte' = hbyte /\ hbit' = hbit
    BY <1>9 DEF HostStart, HostRaise, HostLower
  <2>3. /\ held' \in 0 .. Hold /\ phase' \in Phase
        /\ UNCHANGED <<at, busy, x1, x4, x5, x6, x7, x8, x9>>
        /\ UNCHANGED <<mem, gpio_out, flash_mode, flash_page, attached, image, resets>>
    BY <1>m, <2>1
  <2> QED
    BY <1>0, <2>2, <2>3 DEF TypeOK
<1>10. CASE HostNextBit
  <2>1. HostMoves("low")
    BY <1>10 DEF HostNextBit
  <2>2. hbyte' \in 0 .. Len(image) /\ hbit' \in 0 .. 7
    BY <1>0, <1>i, <1>10 DEF HostNextBit, TypeOK
  <2>3. /\ held' \in 0 .. Hold /\ phase' \in Phase
        /\ UNCHANGED <<at, busy, x1, x4, x5, x6, x7, x8, x9>>
        /\ UNCHANGED <<mem, gpio_out, flash_mode, flash_page, attached, image, resets>>
    BY <1>m, <2>1 DEF Phase
  <2> QED
    BY <1>0, <2>2, <2>3 DEF TypeOK
<1>11. CASE Reset
  <2>1. image' \in Images /\ Len(image') \in 0 .. 255
    BY <1>11, ImageFacts DEF Reset, Sendable
  <2>2. hbyte' \in 0 .. Len(image') /\ hbit' \in 0 .. 7 /\ held' \in 0 .. Hold
    BY <1>11, <2>1, BootFacts DEF Reset
  <2>3. resets' \in 0 .. MaxResets
    BY <1>0, <1>11, BootFacts DEF Reset, TypeOK
  <2> QED
    <3>1. /\ at' = "SELFTEST" /\ busy' = 0 /\ gpio_out' = 0 /\ flash_mode' = FALSE
          /\ flash_page' = 0 /\ phase' = "off"
          /\ UNCHANGED <<x1, x4, x5, x6, x7, x8, x9, mem, attached>>
      BY <1>11 DEF Reset, regVars
    <3>2. busy' \in Nat /\ gpio_out' \in MemByte /\ flash_page' \in MemByte
      BY <3>1 DEF MemByte
    <3> QED
      BY <1>0, <2>1, <2>2, <2>3, <3>1, <3>2 DEF TypeOK, Label, Phase
<1>12. CASE UNCHANGED vars
  BY <1>0, <1>12 DEF TypeOK, vars, chipVars, regVars, memVars, hostVars
<1> QED
  BY <1>1, <1>2, <1>3, <1>4, <1>5, <1>6, <1>7, <1>8, <1>9, <1>10, <1>11, <1>12
     DEF Next, Chip, Sending

-----------------------------------------------------------------------------
\* Safety.

LEMMA BootStep == EnoughTime /\ BootIInv /\ [Next]_vars => BootIInv'
BY TypesKept, StepsKept, PaceKept, PlaceKept, ContentKept DEF BootIInv

\* With a host that gives the chip the time it needs the invariant of the proof
\* holds throughout.
THEOREM BootInvariant ==
  ASSUME EnoughTime
  PROVE  Spec => []BootIInv
<1>1. Init => BootIInv
  BY BootInit
<1>2. BootIInv /\ [Next]_vars => BootIInv'
  BY BootStep
<1> QED
  BY <1>1, <1>2, PTL DEF Spec

\* Registers, memory and pins keep their widths: no byte received is more than
\* eight bits, and the pointer stays where a load may take it.
THEOREM BootTypes ==
  ASSUME EnoughTime
  PROVE  Spec => []TypeOK
<1>1. BootIInv => TypeOK
  BY DEF BootIInv
<1> QED
  BY <1>1, BootInvariant, PTL

\* No pulse of the clock is missed and none is taken twice, whatever the program
\* and however long: three pulse phases cover a store to the PSRAM.
THEOREM BootBitsInStep ==
  ASSUME EnoughTime
  PROVE  Spec => []BitsInStep
<1>1. BootIInv => BitsInStep
  BY DEF BootIInv
<1> QED
  BY <1>1, BootInvariant, PTL

\* A load that fits leaves FLASH_MODE alone.
THEOREM BootKeepsFlashMode ==
  ASSUME EnoughTime
  PROVE  Spec => []FlashModeUntouched
<1>1. BootIInv => FlashModeUntouched
  BY DEF BootIInv, Content, FlashModeUntouched
<1> QED
  BY <1>1, BootInvariant, PTL

-----------------------------------------------------------------------------
\* The protocol implemented.

LEMMA StoredRange ==
  ASSUME BootIInv
  PROVE  Stored \in 0 .. Len(image)
<1>1. Len(image) \in Nat /\ LOAD_BASE \in Nat /\ x5 \in Nat
  BY BootFacts, PinFacts DEF BootIInv, TypeOK
<1>2. CASE stage = "listen" \/ x1 = "LENGTH"
  BY <1>1, <1>2 DEF Stored
<1>3. CASE stage = "load" /\ x1 # "LENGTH"
  <2>1. x5 \in LOAD_BASE .. LOAD_BASE + Len(image) - 1 /\ Stored = x5 - LOAD_BASE
    BY <1>3 DEF BootIInv, TypeOK, Content, Stored
  <2> QED
    BY <1>1, <2>1
<1>4. CASE stage = "run"
  BY <1>1, <1>4 DEF BootIInv, TypeOK, Content, stage, Label
<1> QED
  BY <1>2, <1>3, <1>4 DEF stage

\* What is in place is the beginning of the image.
LEMMA LoadedPrefix == BootIInv => loaded = [i \in 1 .. Stored |-> image[i]]
BY DEF BootIInv, Content, loaded

LEMMA EmptySequence ==
  ASSUME NEW p
  PROVE  [i \in 1 .. 0 |-> p[i]] = << >>
OBVIOUS

LEMMA WholeSequence ==
  ASSUME NEW S, NEW p \in Seq(S)
  PROVE  [i \in 1 .. Len(p) |-> p[i]] = p
OBVIOUS

LEMMA LongerPrefix ==
  ASSUME NEW S, NEW p \in Seq(S), NEW n \in Nat, n < Len(p)
  PROVE  /\ [i \in 1 .. n + 1 |-> p[i]] = Append([i \in 1 .. n |-> p[i]], p[n + 1])
         /\ Len([i \in 1 .. n |-> p[i]]) = n
<1> DEFINE q == [i \in 1 .. n |-> p[i]]
<1>1. q \in Seq(S) /\ Len(q) = n /\ DOMAIN q = 1 .. n
  <2>1. \A i \in 1 .. n : p[i] \in S
    OBVIOUS
  <2>2. q \in [1 .. n -> S]
    BY <2>1
  <2>3. q \in Seq(S)
    BY <2>2
  <2>4. DOMAIN q = 1 .. n
    OBVIOUS
  <2>5. Len(q) \in Nat /\ DOMAIN q = 1 .. Len(q)
    BY <2>3
  <2> HIDE DEF q
  <2>6. Len(q) = n
    BY <2>4, <2>5
  <2> QED
    BY <2>3, <2>4, <2>6
<1>2. \A i \in 1 .. n : q[i] = p[i]
  OBVIOUS
<1> HIDE DEF q
<1>3. Append(q, p[n + 1]) = [i \in 1 .. n + 1 |-> p[i]]
  BY <1>1, <1>2
<1> QED
  BY <1>1, <1>3 DEF q

LEMMA LoadedNone == stage = "listen" \/ x1 = "LENGTH" => loaded = << >>
<1> SUFFICES ASSUME stage = "listen" \/ x1 = "LENGTH" PROVE loaded = << >>
  OBVIOUS
<1>1. Stored = 0
  BY DEF Stored
<1>2. loaded = [i \in 1 .. 0 |-> mem[LOAD_BASE + i - 1]]
  BY <1>1 DEF loaded
<1> DEFINE f[i \in 1 .. 0] == mem[LOAD_BASE + i - 1]
<1> QED
  BY <1>2

\* The same after a step.
LEMMA LoadedNext ==
  /\ (stage = "listen" \/ x1 = "LENGTH" => loaded = << >>)'
  /\ (BootIInv => loaded = [i \in 1 .. Stored |-> image[i]])'
<1>1. (stage = "listen" \/ x1 = "LENGTH" => loaded = << >>)'
  BY LoadedNone, PTL
<1>2. (BootIInv => loaded = [i \in 1 .. Stored |-> image[i]])'
  BY LoadedPrefix, PTL
<1> QED
  BY <1>1, <1>2

LEMMA ProtocolInit == Init => Protocol!Init
<1> SUFFICES ASSUME Init PROVE Protocol!Init
  OBVIOUS
<1>1. stage = "listen" /\ loaded = << >>
  BY LoadedNone DEF Init, stage
<1>2. image \in Images
  BY DEF Init, Sendable
<1> QED
  BY <1>1, <1>2 DEF Init, Protocol!Init

LEMMA ProtocolStep ==
  EnoughTime /\ BootIInv /\ BootIInv' /\ [Next]_vars => [Protocol!Next]_(Protocol!loaderVars)
<1> SUFFICES ASSUME EnoughTime, BootIInv, BootIInv', Next \/ UNCHANGED vars
             PROVE  Protocol!Next \/ UNCHANGED <<stage, image, loaded, gpio_out>>
  BY DEF Protocol!loaderVars
<1>0. TypeOK
  BY DEF BootIInv
<1>i. image \in Seq(MemByte) /\ Len(image) \in Nat
  BY <1>0, ImageFacts DEF TypeOK
<1>1. CASE Work \/ WaitHigh \/ ReadData \/ WaitLow \/ NextBit \/ Loaded
  <2>1. /\ UNCHANGED <<x1, x5, mem, gpio_out, image>>
        /\ at' = at \/ {at, at'} \subseteq {"BIT_WAIT_HIGH", "BIT_DATA", "BIT_WAIT_LOW"}
    BY <1>1 DEF Work, WaitHigh, ReadData, WaitLow, NextBit, Loaded, Takes, regVars, memVars
  <2>2. stage' = stage
    BY <2>1 DEF stage
  <2>3. loaded' = loaded
    BY <2>1, <2>2 DEF loaded, Stored
  <2> QED
    BY <2>1, <2>2, <2>3
<1>2. CASE HostStart \/ Sending \/ UNCHANGED vars
  <2>1. UNCHANGED <<at, x1, x5, mem, gpio_out, image>>
    BY <1>2 DEF HostStart, Sending, HostNextBit, HostRaise, HostLower, HostMoves, vars, chipVars,
       hostVars, regVars, memVars
  <2>2. stage' = stage
    BY <2>1 DEF stage
  <2>3. loaded' = loaded
    BY <2>1, <2>2 DEF loaded, Stored
  <2> QED
    BY <2>1, <2>2, <2>3
<1>3. CASE SelfTest
  <2>1. stage = "listen" /\ stage' = "listen" /\ image' = image
    BY <1>3 DEF SelfTest, Takes, stage
  <2>2. loaded = << >> /\ loaded' = << >>
    BY <2>1, LoadedNone, LoadedNext
  <2> QED
    BY <1>0, <1>3, <2>1, <2>2, SelfTestStore
<1>4. CASE Count
  <2>1. stage = "listen" /\ stage' = "listen" /\ image' = image
    BY <1>4 DEF Count, Takes, stage
  <2>2. loaded = << >> /\ loaded' = << >>
    BY <2>1, LoadedNone, LoadedNext
  <2>3. gpio_out' \in Protocol!Shown
    BY <1>0, <1>4 DEF Count, TypeOK, Protocol!Shown
  <2> QED
    BY <2>1, <2>2, <2>3 DEF Protocol!Next, Protocol!Count
<1>5. CASE Begin
  <2>1. stage = "listen" /\ stage' = "load" /\ x1' = "LENGTH" /\ image' = image
    BY <1>5 DEF Begin, Takes, stage
  <2>2. loaded = << >> /\ loaded' = << >>
    BY <2>1, LoadedNone, LoadedNext
  <2>3. gpio_out' = gpio_out
    BY <1>5 DEF Begin, memVars
  <2> QED
    BY <2>1, <2>2, <2>3 DEF Protocol!Next, Protocol!Begin
<1>6. CASE GotLength
  <2>1. /\ ByteLoop(9, x6) /\ x5' = LOAD_BASE /\ x1 = "LENGTH" /\ stage = "load"
        /\ UNCHANGED <<mem, gpio_out>>
    BY <1>6 DEF GotLength, stage, memVars
  <2>2. loaded = << >>
    BY <2>1, LoadedNone
  <2>3. CASE x6 = 0
    <3>1. at' = "RUN" /\ stage' = "run" /\ x1' = "LENGTH" /\ image' = image
      BY <2>1, <2>3 DEF ByteLoop, Takes, stage
    <3>2. loaded' = << >> /\ Stored' = 0
      BY <3>1, LoadedNone, LoadedNext DEF Stored
    <3>3. Stored' = Len(image)'
      BY <3>1 DEF BootIInv, Content
    <3>4. image = << >>
      BY <1>i, <3>1, <3>2, <3>3
    <3> QED
      BY <2>1, <2>2, <3>1, <3>2, <3>4 DEF Protocol!Next, Protocol!Run
  <2>4. CASE x6 # 0
    <3>1. at' = "BIT_WAIT_HIGH" /\ stage' = "load" /\ image' = image
      BY <2>1, <2>4 DEF ByteLoop, Takes, stage
    <3>2. Stored' = 0
      BY <2>1, BootFacts DEF Stored
    <3>3. loaded' = [i \in 1 .. 0 |-> image[i]]
      BY <3>1, <3>2, LoadedPrefix, LoadedNext
    <3> QED
      BY <2>1, <2>2, <3>1, <3>3, EmptySequence
  <2> QED
    BY <2>3, <2>4
<1>7. CASE GotByte
  <2>1. /\ Stored \in 0 .. Len(image) - 1 /\ Stored' = Stored + 1
        /\ stage = "load" /\ stage' # "listen" /\ image' = image
    BY <1>7, OneMoreStored
  <2>2. gpio_out' = gpio_out
    BY <1>7, StoreInPlace
  <2>3. loaded = [i \in 1 .. Stored |-> image[i]]
    BY LoadedPrefix, LoadedNext
  <2>4. loaded' = [i \in 1 .. Stored + 1 |-> image[i]]
    BY <2>1, LoadedPrefix, LoadedNext
  <2>5. Stored \in Nat /\ Stored < Len(image)
    BY <1>i, <2>1
  <2>6. Len(loaded) = Stored /\ loaded' = Append(loaded, image[Len(loaded) + 1])
    BY <1>i, <2>3, <2>4, <2>5, LongerPrefix
  <2>7. ASSUME stage' = "run" PROVE loaded' = image
    <3>1. at' = "RUN"
      BY <2>7 DEF stage
    <3>2. Stored' = Len(image)
      BY <2>1, <3>1 DEF BootIInv, Content
    <3> QED
      BY <1>i, <2>1, <2>4, <3>2, WholeSequence
  <2>8. stage' \in {"load", "run"}
    BY <2>1 DEF stage
  <2> QED
    BY <2>1, <2>2, <2>5, <2>6, <2>7, <2>8 DEF Protocol!Next, Protocol!Take
<1>8. CASE Reset
  <2>1. stage' = "listen" /\ image' \in Images /\ gpio_out' = 0
    BY <1>8 DEF Reset, Sendable, stage
  <2>2. loaded' = << >>
    BY <2>1, LoadedNone, LoadedNext
  <2> QED
    BY <2>1, <2>2 DEF Protocol!Next, Protocol!Reset
<1> QED
  BY <1>1, <1>2, <1>3, <1>4, <1>5, <1>6, <1>7, <1>8 DEF Next, Chip

\* Bit by bit, the program in the ROM carries out the protocol: a chip that runs
\* a program runs exactly the image of its host, for every image that fits.
THEOREM BootImplementsLoader ==
  ASSUME EnoughTime
  PROVE  Spec => ImplementsLoader
<1>1. Init => Protocol!Init
  BY ProtocolInit
<1>2. BootIInv /\ BootIInv' /\ [Next]_vars => [Protocol!Next]_(Protocol!loaderVars)
  BY ProtocolStep
<1> QED
  BY <1>1, <1>2, BootInvariant, PTL DEF Spec, ImplementsLoader, Protocol!Spec

-----------------------------------------------------------------------------
\* The operators inside the instance of Isa are those of the modules above.

LEMMA CoreFields ==
  /\ \A w : /\ Core!Opcode(w) = Opcode(w) /\ Core!Funct3(w) = Funct3(w)
            /\ Core!Rs1(w) = Rs1(w) /\ Core!Rs2(w) = Rs2(w) /\ Core!Rd(w) = Rd(w)
            /\ Core!ImmI(w) = ImmI(w) /\ Core!ImmS(w) = ImmS(w) /\ Core!ImmU(w) = ImmU(w)
            /\ Core!ImmB(w) = ImmB(w) /\ Core!ImmJ(w) = ImmJ(w)
            /\ Core!Addr8(w) = Addr8(w) /\ Core!AccessSize(w) = AccessSize(w)
BY DEF Core!Opcode, Opcode, Core!Funct3, Funct3, Core!Rs1, Rs1, Core!Rs2, Rs2, Core!Rd, Rd,
       Core!ImmI, ImmI, Core!ImmS, ImmS, Core!ImmU, ImmU, Core!ImmB, ImmB, Core!ImmJ, ImmJ,
       Core!Addr8, Addr8, Core!AccessSize, AccessSize, Core!Val, Val, Core!Slice, Slice

LEMMA CoreRegisters ==
  /\ \A f, n : Core!Reg(f, n) = Reg(f, n)
  /\ \A x, y : Core!Add(x, y) = Add(x, y)
  /\ \A x : Core!ToBits(x, 32) = ToBits(x, 32)
  /\ \A x, y : Core!LessS(x, y) = LessS(x, y) /\ Core!LessU(x, y) = LessU(x, y)
BY DEF Core!Reg, Reg, Core!Add, Add, Core!AddC, AddC, Core!Carry, Carry, Core!Zeros, Zeros,
       Core!ToBits, ToBits, Core!LessS, LessS, Core!LessU, LessU

LEMMA CoreAlu ==
  \A w, f : Core!AluY(w, f) = AluY(w, f)
<1>1. \A w : Core!AluOp(w) = AluOp(w)
  BY DEF Core!AluOp, AluOp, Core!OP_IMM, OP_IMM, Core!OP_REG, OP_REG,
         Core!OP_BRANCH, OP_BRANCH, Core!Opcode, Opcode, Core!Funct3, Funct3,
         Core!Val, Val, Core!Slice, Slice
<1>4. \A op, x, y : Core!Alu(op, x, y) = Alu(op, x, y)
  BY DEF Core!Alu, Alu, Core!Add, Add, Core!Sub, Sub, Core!AddC, AddC, Core!Carry, Carry,
         Core!LessS, LessS, Core!LessU, LessU, Core!Flag, Flag, Core!ToBits, ToBits,
         Core!Val, Val
<1> QED
  BY CoreFields, CoreRegisters, <1>1, <1>4
     DEF Core!AluY, AluY, Core!OP_IMM, OP_IMM, Core!OP_LOAD, OP_LOAD, Core!OP_STORE, OP_STORE

LEMMA CoreNext ==
  /\ \A w, f, p : Core!NextPc(w, f, p) = NextPc(w, f, p)
  /\ \A w, f, p, y, d : Core!WriteBack(w, f, p, y, d) = WriteBack(w, f, p, y, d)
<1>1. \A w, f : Core!BranchCond(w, f) = BranchCond(w, f)
  BY CoreFields, CoreRegisters DEF Core!BranchCond, BranchCond
<1>2. \A w, d : Core!LoadValue(w, d) = LoadValue(w, d)
  BY CoreFields DEF Core!LoadValue, LoadValue, Core!Extend, Extend
<1> USE DEF Core!OP_LUI, OP_LUI, Core!OP_AUIPC, OP_AUIPC, Core!OP_JAL, OP_JAL,
            Core!OP_JALR, OP_JALR, Core!OP_BRANCH, OP_BRANCH, Core!OP_LOAD, OP_LOAD,
            Core!OP_IMM, OP_IMM, Core!OP_REG, OP_REG
<1>3. \A w, f, p : Core!NextPc(w, f, p) = NextPc(w, f, p)
  BY <1>1, CoreFields, CoreRegisters DEF Core!NextPc, NextPc
<1>4. \A w, f, p, y, d : Core!WriteBack(w, f, p, y, d) = WriteBack(w, f, p, y, d)
  BY DEF Core!WriteBack, WriteBack, Core!Opcode, Opcode, Core!Rd, Rd,
         Core!ImmU, ImmU, Core!Add, Add, Core!AddC, AddC, Core!Carry, Carry,
         Core!LoadValue, LoadValue, Core!Extend, Extend, Core!Funct3, Funct3,
         Core!ToBits, ToBits, Core!Val, Val, Core!Slice, Slice
<1> QED
  BY <1>3, <1>4

LEMMA CoreMemory ==
  /\ \A r, fm, a, n, wd : Core!StoreRam(r, fm, a, n, wd) = StoreRam(r, fm, a, n, wd)
  /\ \A s, fm, a, n, wd : Core!StorePsram(s, fm, a, n, wd) = StorePsram(s, fm, a, n, wd)
  /\ \A a, n, fm : Core!InContract(a, n, fm) <=> InContract(a, n, fm)
  /\ \A m, r, s, fm, pg, o, pins, a, n :
       Core!LoadAt(m, r, s, fm, pg, o, pins, a, n) = LoadAt(m, r, s, fm, pg, o, pins, a, n)
BY DEF Core!StoreRam, StoreRam, Core!StorePsram, StorePsram, Core!InContract, InContract,
       Core!LoadAt, LoadAt, Core!RegisterAt, RegisterAt, Core!ByteAt, ByteAt,
       Core!Region, Region, Core!in_rom, in_rom, Core!in_ram, in_ram,
       Core!in_ram_range, in_ram_range, Core!in_ext_flash, in_ext_flash,
       Core!in_load_range, in_load_range, Core!in_ext_psram, in_ext_psram,
       Core!Lane, Lane, Core!Idx, Idx, Core!Low, Low, Core!ToBits, ToBits,
       Core!Wide, Wide, Core!Zeros, Zeros, Core!WINDOW_BYTES, WINDOW_BYTES,
       Core!LED_OUT, LED_OUT, Core!SW_IN, SW_IN, Core!FLASH_PAGE, FLASH_PAGE,
       Core!BusAddr, BusAddr

\* One instruction, w, on the computer of the bench.
ReadsAt(a, n) == LoadAt(rom, ram, store, mode, page, out, InPins, a, n)

Steps(w) ==
  LET a  == Addr8(AluY(w, regs))
      n  == Bytes(AccessSize(w))
      wd == Reg(regs, Rs2(w))
  IN  /\ InContract(pc, 4, mode)
      /\ Opcode(w) \in {OP_LOAD, OP_STORE} => InContract(a, n, mode)
      /\ pc' = NextPc(w, regs, pc)
      /\ regs' = WriteBack(w, regs, pc, AluY(w, regs),
                           IF Opcode(w) = OP_LOAD THEN ReadsAt(a, n) ELSE Zeros(32))
      /\ IF Opcode(w) = OP_STORE
           THEN /\ ram' = StoreRam(ram, mode, a, n, wd)
                /\ store' = StorePsram(store, mode, a, n, wd)
                /\ out' = IF a = LED_OUT THEN Lane(wd, 0) ELSE out
                /\ mode' = (mode \/ a = FLASH_MODE)
                /\ page' = IF a = FLASH_PAGE THEN Addr8(wd) ELSE page
           ELSE UNCHANGED <<ram, store, out, mode, page>>
      /\ UNCHANGED rom
      /\ stall' = IF Opcode(w) \in {OP_LOAD, OP_STORE} /\ in_ext_psram(a)
                    THEN PsramTime - 1 ELSE 0
      /\ seen' = IF mode /\ Opcode(w) = OP_STORE /\ a = LED_OUT
                   THEN Append(seen, Val(wd, 8)) ELSE seen

LEMMA InstructionIs ==
  ASSUME Instruction
  PROVE  stall = 0 /\ Steps(ReadsAt(pc, 4))
<1> DEFINE w == Core!Fetched(InPins)
           a == Core!Accessed(w)
<1>1. /\ stall = 0
      /\ Core!Execute(w, InPins)
      /\ stall' = IF Core!IsAccess(w) /\ in_ext_psram(a) THEN PsramTime - 1 ELSE 0
      /\ seen' = IF mode /\ Opcode(w) = OP_STORE /\ a = LED_OUT
                   THEN Append(seen, Val(Reg(regs, Rs2(w)), 8)) ELSE seen
  BY DEF Instruction
<1>2. w = ReadsAt(pc, 4)
  BY CoreMemory DEF Core!Fetched, Core!Load, ReadsAt
<1> HIDE DEF w
<1>3. /\ a = Addr8(AluY(w, regs)) /\ Core!Length(w) = Bytes(AccessSize(w))
      /\ Core!IsAccess(w) <=> Opcode(w) \in {OP_LOAD, OP_STORE}
  BY CoreFields, CoreAlu
     DEF Core!Accessed, Core!Length, Core!Bytes, Bytes, Core!IsAccess, Core!OP_LOAD, OP_LOAD,
         Core!OP_STORE, OP_STORE
<1> HIDE DEF a
<1>4. /\ Core!Proper(w)
      /\ pc' = NextPc(w, regs, pc)
      /\ regs' = WriteBack(w, regs, pc, AluY(w, regs),
                           IF Opcode(w) = OP_LOAD THEN ReadsAt(a, Core!Length(w)) ELSE Zeros(32))
      /\ UNCHANGED rom
  BY <1>1, CoreFields, CoreAlu, CoreNext, CoreMemory
     DEF Core!Execute, Core!Load, ReadsAt, Core!OP_LOAD, OP_LOAD, Core!Zeros, Zeros, a
<1>5. IF Opcode(w) = OP_STORE
        THEN /\ ram' = StoreRam(ram, mode, a, Core!Length(w), Reg(regs, Rs2(w)))
             /\ store' = StorePsram(store, mode, a, Core!Length(w), Reg(regs, Rs2(w)))
             /\ out' = IF a = LED_OUT THEN Lane(Reg(regs, Rs2(w)), 0) ELSE out
             /\ mode' = (mode \/ a = FLASH_MODE)
             /\ page' = IF a = FLASH_PAGE THEN Addr8(Reg(regs, Rs2(w))) ELSE page
        ELSE UNCHANGED <<ram, store, out, mode, page>>
  BY <1>1, CoreFields, CoreRegisters, CoreMemory
     DEF Core!Execute, Core!OP_STORE, OP_STORE, Core!Lane, Lane, Core!LED_OUT, LED_OUT,
         Core!FLASH_MODE, FLASH_MODE, Core!FLASH_PAGE, FLASH_PAGE, a
<1>6. /\ InContract(pc, 4, mode)
      /\ Opcode(w) \in {OP_LOAD, OP_STORE} => InContract(a, Core!Length(w), mode)
  BY <1>3, <1>4, CoreMemory DEF Core!Proper, a
<1>7. Steps(w)
  BY <1>1, <1>3, <1>4, <1>5, <1>6 DEF Steps
<1> QED  BY <1>1, <1>2, <1>7

-----------------------------------------------------------------------------
\* The words of the boot ROM, by address.

\* The ROM is large enough for its program.
RomFits == 4 * Len(BootCode) <= ROM_BYTES

IsWord(w) == w = [i \in 0 .. 31 |-> w[i]]

Joins(T, s, t, r) ==
  /\ r \in Seq(T) /\ Len(r) = Len(s) + Len(t)
  /\ \A i \in 1 .. Len(s) : r[i] = s[i]
  /\ \A i \in Len(s) + 1 .. Len(s) + Len(t) : r[i] = t[i - Len(s)]

LEMMA Joined ==
  ASSUME NEW T, NEW s \in Seq(T), NEW t \in Seq(T)
  PROVE  Joins(T, s, t, s \o t)
<1>1. s \o t \in Seq(T)
  OBVIOUS
<1>2. Len(s) \in Nat /\ Len(t) \in Nat /\ Len(s \o t) = Len(s) + Len(t)
  OBVIOUS
<1>3. \A i \in 1 .. Len(s) + Len(t) :
        (s \o t)[i] = IF i <= Len(s) THEN s[i] ELSE t[i - Len(s)]
  OBVIOUS
<1> QED  BY <1>1, <1>2, <1>3 DEF Joins

LEMMA CodeParts ==
  /\ Len(BootCode) = 44
  /\ \A k \in 0 .. 8   : BootCode[k + 1] = SelfTestCode[k + 1]
  /\ \A k \in 9 .. 16  : BootCode[k + 1] = MainLoopCode[k - 8]
  /\ \A k \in 17 .. 26 : BootCode[k + 1] = BootloadCode[k - 16]
  /\ \A k \in 27 .. 43 : BootCode[k + 1] = RecvByteCode[k - 26]
<1> DEFINE a == SelfTestCode
           b == MainLoopCode
           c == BootloadCode
           d == RecvByteCode
<1>1. a \in Seq({a[i] : i \in 1 .. 9}) /\ Len(a) = 9
  BY DEF SelfTestCode
<1>2. b \in Seq({b[i] : i \in 1 .. 8}) /\ Len(b) = 8
  BY DEF MainLoopCode
<1>3. c \in Seq({c[i] : i \in 1 .. 10}) /\ Len(c) = 10
  BY DEF BootloadCode
<1>4. d \in Seq({d[i] : i \in 1 .. 17}) /\ Len(d) = 17
  BY DEF RecvByteCode
<1> HIDE DEF a, b, c, d
<1> DEFINE T == {a[i] : i \in 1 .. 9} \cup {b[i] : i \in 1 .. 8}
                  \cup {c[i] : i \in 1 .. 10} \cup {d[i] : i \in 1 .. 17}
<1>5. a \in Seq(T) /\ b \in Seq(T) /\ c \in Seq(T) /\ d \in Seq(T)
  BY <1>1, <1>2, <1>3, <1>4
<1> HIDE DEF T
<1> DEFINE ab  == a \o b
           abc == ab \o c
<1>6. Joins(T, a, b, ab)
  BY <1>5, Joined, Zenon
<1>7. Joins(T, ab, c, abc)
  <2>1. ab \in Seq(T)
    BY <1>6 DEF Joins
  <2> QED  BY <1>5, <2>1, Joined, Zenon
<1>8. Joins(T, abc, d, BootCode)
  <2>1. abc \in Seq(T)
    BY <1>7 DEF Joins
  <2>2. BootCode = abc \o d
    BY DEF BootCode, a, b, c, d
  <2> QED  BY <1>5, <2>1, <2>2, Joined, Zenon
<1> HIDE DEF ab, abc
<1>9. /\ Len(ab) = 17
      /\ \A i \in 1 .. 9 : ab[i] = a[i]
      /\ \A i \in 10 .. 17 : ab[i] = b[i - 9]
  BY <1>1, <1>2, <1>6 DEF Joins
<1>10. /\ Len(abc) = 27
       /\ \A i \in 1 .. 17 : abc[i] = ab[i]
       /\ \A i \in 18 .. 27 : abc[i] = c[i - 17]
  BY <1>3, <1>7, <1>9 DEF Joins
<1>11. /\ Len(BootCode) = 44
       /\ \A i \in 1 .. 27 : BootCode[i] = abc[i]
       /\ \A i \in 28 .. 44 : BootCode[i] = d[i - 27]
  BY <1>4, <1>8, <1>10 DEF Joins
<1>12. \A k \in 0 .. 8 : BootCode[k + 1] = a[k + 1]
  <2> SUFFICES ASSUME NEW k \in 0 .. 8
               PROVE  BootCode[k + 1] = a[k + 1]
    OBVIOUS
  <2>1. k + 1 \in 1 .. 9 /\ k + 1 \in 1 .. 17 /\ k + 1 \in 1 .. 27
    OBVIOUS
  <2> QED  BY <2>1, <1>9, <1>10, <1>11
<1>13. \A k \in 9 .. 16 : BootCode[k + 1] = b[k - 8]
  <2> SUFFICES ASSUME NEW k \in 9 .. 16
               PROVE  BootCode[k + 1] = b[k - 8]
    OBVIOUS
  <2>1. k + 1 \in 10 .. 17 /\ k + 1 \in 1 .. 17 /\ k + 1 \in 1 .. 27 /\ (k + 1) - 9 = k - 8
    OBVIOUS
  <2> QED  BY <2>1, <1>9, <1>10, <1>11
<1>14. \A k \in 17 .. 26 : BootCode[k + 1] = c[k - 16]
  <2> SUFFICES ASSUME NEW k \in 17 .. 26
               PROVE  BootCode[k + 1] = c[k - 16]
    OBVIOUS
  <2>1. k + 1 \in 18 .. 27 /\ k + 1 \in 1 .. 27 /\ (k + 1) - 17 = k - 16
    OBVIOUS
  <2> QED  BY <2>1, <1>10, <1>11
<1>15. \A k \in 27 .. 43 : BootCode[k + 1] = d[k - 26]
  <2> SUFFICES ASSUME NEW k \in 27 .. 43
               PROVE  BootCode[k + 1] = d[k - 26]
    OBVIOUS
  <2>1. k + 1 \in 28 .. 44 /\ (k + 1) - 27 = k - 26
    OBVIOUS
  <2> QED  BY <2>1, <1>11
<1> QED  BY <1>11, <1>12, <1>13, <1>14, <1>15 DEF a, b, c, d

\* What is fetched from the ROM.
LEMMA RomLine ==
  ASSUME NEW k \in 0 .. 43, RomFits, rom = RomImage, pc = 4 * k,
         IsWord(BootCode[k + 1])
  PROVE  ReadsAt(pc, 4) = BootCode[k + 1]
<1> DEFINE w == BootCode[k + 1]
<1>1. Len(BootCode) = 44 /\ 176 <= ROM_BYTES
  BY CodeParts DEF RomFits
<1>2. rom[k] = w
  BY <1>1 DEF RomImage
<1> HIDE DEF w
<1>3. \A j \in 0 .. 3 : Region(4 * k + j, mode) = "rom"
  BY <1>1, MapFacts DEF Region, in_rom
<1>4. \A j \in 0 .. 3 : (4 * k + j) \div 4 = k /\ (4 * k + j) % 4 = j
  OBVIOUS
<1>5. \A j \in 0 .. 3 : ByteAt(rom, ram, store, mode, page, 4 * k + j) = Lane(w, j)
  BY <1>2, <1>3, <1>4 DEF ByteAt
<1>6. ReadsAt(pc, 4) = [i \in 0 .. 31 |-> IF i < 8 * 4 THEN
                          ByteAt(rom, ram, store, mode, page, 4 * k + (i \div 8))[i % 8] ELSE 0]
  BY <1>3 DEF ReadsAt, LoadAt
<1>7. \A i \in 0 .. 31 : Lane(w, i \div 8)[i % 8] = w[i]
  <2> SUFFICES ASSUME NEW i \in 0 .. 31
               PROVE  Lane(w, i \div 8)[i % 8] = w[i]
    OBVIOUS
  <2>1. i % 8 \in 0 .. 7 /\ 8 * (i \div 8) + (i % 8) = i
    OBVIOUS
  <2> QED  BY <2>1 DEF Lane
<1>8. \A i \in 0 .. 31 : i \div 8 \in 0 .. 3 /\ i < 8 * 4
  OBVIOUS
<1>9. ReadsAt(pc, 4) = [i \in 0 .. 31 |-> w[i]]
  BY <1>5, <1>6, <1>7, <1>8
<1> QED  BY <1>9 DEF IsWord, w

LEMMA AreWords ==
  /\ \A f7, rs2, rs1, f3, rd, op : IsWord(EncR(f7, rs2, rs1, f3, rd, op))
  /\ \A imm20, rd, op : IsWord(EncU(imm20, rd, op))
BY DEF IsWord, EncR, EncU

-----------------------------------------------------------------------------
\* The computer of the bench as the boot ROM sees it: nine registers that hold
\* numbers below 256, bytes in the cells, numbers on the pins.

file  == [n \in 1 .. 9 |-> Val(regs[n], 8)]
cells == [a \in Cells |-> Val(Cell(a), 8)]

Pins == (IF START THEN 4 ELSE 0) + (IF CLOCK THEN 2 ELSE 0) + DATA

\* Byte b of the PSRAM window has a place of its own in the device.
Fitting == RomFits /\ EXT_PSRAM_BYTES <= 2^IdxBits

Framed ==
  /\ rom = RomImage /\ mode = FALSE /\ page = 0
  /\ regs = [n \in 1 .. 31 |-> regs[n]]
  /\ file \in [1 .. 9 -> 0 .. 255]
  /\ \A n \in 1 .. 9 : regs[n] = Num(file[n])
  /\ ram = [a \in RAM_BASE .. RAM_BASE + RAM_BYTES - 1 |-> ram[a]]
  /\ "psram" \in DOMAIN store
  /\ store["psram"] = [x \in Index |-> store["psram"][x]]
  /\ cells \in [Cells -> 0 .. 255]
  /\ \A a \in Cells : Cell(a) = ToBits(cells[a], 8)

PutFile(f, rd, v) == IF rd = 0 THEN f ELSE [f EXCEPT ![rd] = v]

\* An instruction that leaves memory and output pins alone.
Quiet(rd, v, to) ==
  /\ Framed'
  /\ pc' = to
  /\ file' = PutFile(file, rd, v)
  /\ UNCHANGED <<cells, out>>
  /\ stall' = 0

\* One that stores b at a.
Stores(a, b, to) ==
  /\ Framed'
  /\ pc' = to
  /\ cells' = [cells EXCEPT ![a] = b]
  /\ UNCHANGED <<file, out>>
  /\ stall' = IF in_ext_psram(a) THEN PsramTime - 1 ELSE 0

LEMMA PutKeeps ==
  ASSUME NEW rd \in 0 .. 9, NEW v \in 0 .. 255, Framed,
         regs' = Put(regs, rd, Num(v)), UNCHANGED <<rom, ram, store, mode, page>>
  PROVE  Framed' /\ file' = PutFile(file, rd, v) /\ cells' = cells
<1>1. regs' = [n \in 1 .. 31 |-> IF rd # 0 /\ n = rd THEN Num(v) ELSE regs[n]]
  BY DEF Put, Framed
<1>2. regs' = [n \in 1 .. 31 |-> regs'[n]]
  BY <1>1
<1>3. \A n \in 1 .. 9 : n \in 1 .. 31
  OBVIOUS
<1>4. \A n \in 1 .. 9 : regs'[n] = IF rd # 0 /\ n = rd THEN Num(v) ELSE regs[n]
  BY <1>1, <1>3
<1>5. Val(Num(v), 8) = v
  BY NumFacts
<1>6. file' = [n \in 1 .. 9 |-> Val(regs'[n], 8)]
  BY DEF file
<1>7. file = [n \in 1 .. 9 |-> Val(regs[n], 8)]
  BY DEF file
<1>8. \A n \in 1 .. 9 : file'[n] = IF rd # 0 /\ n = rd THEN v ELSE file[n]
  BY <1>4, <1>5, <1>6, <1>7
<1>9. file' = PutFile(file, rd, v)
  <2>1. file' = [n \in 1 .. 9 |-> file'[n]] /\ file = [n \in 1 .. 9 |-> file[n]]
    BY <1>6, <1>7
  <2> QED  BY <1>8, <2>1 DEF PutFile
<1>10. \A n \in 1 .. 9 : regs[n] = Num(file[n]) /\ file[n] \in 0 .. 255
  BY DEF Framed
<1>11. \A n \in 1 .. 9 : regs'[n] = Num(file'[n]) /\ file'[n] \in 0 .. 255
  BY <1>4, <1>8, <1>10
<1>12. file' = [n \in 1 .. 9 |-> file'[n]]
  BY <1>6
<1>13. file' \in [1 .. 9 -> 0 .. 255]
  BY <1>11, <1>12
<1>14. cells' = cells /\ \A a \in Cells : Cell(a)' = Cell(a)
  BY DEF cells, Cell
<1>15. /\ rom' = RomImage /\ mode' = FALSE /\ page' = 0
       /\ ram' = [a \in RAM_BASE .. RAM_BASE + RAM_BYTES - 1 |-> ram'[a]]
       /\ "psram" \in DOMAIN store'
       /\ store'["psram"] = [x \in Index |-> store'["psram"][x]]
  BY DEF Framed
<1>16. cells' \in [Cells -> 0 .. 255] /\ \A a \in Cells : Cell(a)' = ToBits(cells'[a], 8)
  BY <1>14 DEF Framed
<1>17. \A n \in 1 .. 9 : regs'[n] = Num(file'[n])
  BY <1>11
<1>18. Framed'
  BY <1>2, <1>13, <1>15, <1>16, <1>17, Zenon DEF Framed
<1> QED  BY <1>9, <1>14, <1>18

\* Registers as the instructions name them.
LEMMA Registers ==
  ASSUME Framed
  PROVE  /\ Reg(regs, 0) = Num(0)
         /\ \A n \in 1 .. 9 : Reg(regs, n) = Num(file[n]) /\ file[n] \in 0 .. 255
<1>1. Zeros(32) = Num(0)
  <2>1. 0 \in 0 .. 255
    OBVIOUS
  <2> QED  BY <2>1, OtherNums, Zenon
<1>2. \A n \in 1 .. 9 : regs[n] = Num(file[n]) /\ file[n] \in 0 .. 255
  BY DEF Framed
<1>3. \A n \in 1 .. 9 : n # 0
  OBVIOUS
<1>4. Reg(regs, 0) = Num(0)
  BY <1>1 DEF Reg
<1>5. \A n \in 1 .. 9 : Reg(regs, n) = regs[n]
  BY <1>3, Zenon DEF Reg
<1> QED  BY <1>2, <1>4, <1>5

-----------------------------------------------------------------------------
\* One lemma for each kind of instruction.

LEMMA SetLine ==
  ASSUME NEW w, NEW rd \in 0 .. 9, NEW v \in 0 .. 255, NEW u, Framed, Steps(w),
         Sets(w, regs, pc, rd, u), u = Num(v)
  PROVE  Quiet(rd, v, (pc + 4) % 256)
<1>1. Opcode(w) \notin {OP_LOAD, OP_STORE} /\ Opcode(w) # OP_STORE
  BY DEF Sets
<1>2. /\ pc' = (pc + 4) % 256
      /\ regs' = Put(regs, rd, Num(v))
  BY DEF Sets, Steps
<1>3. UNCHANGED <<ram, store, out, mode, page, rom>> /\ stall' = 0
  BY <1>1 DEF Steps
<1>4. Framed' /\ file' = PutFile(file, rd, v) /\ cells' = cells
  BY <1>2, <1>3, PutKeeps
<1> QED  BY <1>2, <1>3, <1>4 DEF Quiet

LEMMA GoLine ==
  ASSUME NEW w, NEW to, Framed, Steps(w), GoesTo(w, regs, pc, to)
  PROVE  Quiet(0, 0, to)
<1>1. Opcode(w) \notin {OP_LOAD, OP_STORE} /\ Opcode(w) # OP_STORE
  BY DEF GoesTo
<1>2. /\ pc' = to
      /\ regs' = Put(regs, 0, Num(0))
  BY DEF GoesTo, Steps, Put
<1>3. UNCHANGED <<ram, store, out, mode, page, rom>> /\ stall' = 0
  BY <1>1 DEF Steps
<1>4. Framed' /\ file' = PutFile(file, 0, 0) /\ cells' = cells
  <2>1. 0 \in 0 .. 9 /\ 0 \in 0 .. 255
    OBVIOUS
  <2> QED  BY <1>2, <1>3, <2>1, PutKeeps
<1> QED  BY <1>2, <1>3, <1>4 DEF Quiet

LEMMA JumpLine ==
  ASSUME NEW w, NEW rd \in 0 .. 9, NEW to, Framed, pc \in 0 .. 251, Steps(w),
         JumpsTo(w, regs, pc, rd, to)
  PROVE  Quiet(rd, pc + 4, to)
<1>1. Opcode(w) \notin {OP_LOAD, OP_STORE} /\ Opcode(w) # OP_STORE
  BY DEF JumpsTo
<1>2. Add(ToBits(pc, 32), ToBits(4, 32)) = Num(pc + 4)
  <2>1. pc \in 0 .. 255 /\ pc + 4 <= 255
    OBVIOUS
  <2>2. 4 \in 0 .. 255
    OBVIOUS
  <2>3. Add(Num(pc), Num(4)) = Num(pc + 4)
    BY <2>1, <2>2, AddNums, Zenon
  <2> QED  BY <2>3 DEF Num
<1>3. /\ pc' = to
      /\ regs' = Put(regs, rd, Num(pc + 4))
  BY <1>2 DEF JumpsTo, Steps
<1>4. UNCHANGED <<ram, store, out, mode, page, rom>> /\ stall' = 0
  BY <1>1 DEF Steps
<1>5. Framed' /\ file' = PutFile(file, rd, pc + 4) /\ cells' = cells
  <2>1. pc + 4 \in 0 .. 255
    OBVIOUS
  <2> QED  BY <1>3, <1>4, <2>1, PutKeeps
<1> QED  BY <1>3, <1>4, <1>5 DEF Quiet

\* Where things are on the bus.
LEMMA Places ==
  /\ SW_IN \in 0 .. 255 /\ LED_OUT \in 0 .. 255 /\ SW_IN = 244 /\ LED_OUT = 240
  /\ FLASH_MODE = 248 /\ FLASH_PAGE = 252
  /\ Region(SW_IN, FALSE) = "register" /\ Region(LED_OUT, FALSE) = "register"
  /\ ~in_ext_psram(SW_IN) /\ ~in_ext_psram(LED_OUT)
  /\ Cells \subseteq 0 .. 239 /\ EXT_PSRAM_BASE \in Cells
  /\ \A a \in Cells :
       \/ in_ram_range(a) /\ ~in_ext_psram(a) /\ Region(a, FALSE) = "ram"
       \/ ~in_ram_range(a) /\ in_ext_psram(a) /\ Region(a, FALSE) = "psram"
            /\ a - EXT_PSRAM_BASE \in 0 .. EXT_PSRAM_BYTES - 1
<1> USE BootFacts, MapFacts, BootAssumption
        DEF SW_IN, LED_OUT, FLASH_MODE, FLASH_PAGE, Region, in_rom, in_ram, in_ram_range,
            in_ext_flash, in_ext_psram, Cells
<1>1. /\ SW_IN \in 0 .. 255 /\ LED_OUT \in 0 .. 255 /\ SW_IN = 244 /\ LED_OUT = 240
      /\ FLASH_MODE = 248 /\ FLASH_PAGE = 252
  OBVIOUS
<1>2. /\ Region(SW_IN, FALSE) = "register" /\ Region(LED_OUT, FALSE) = "register"
      /\ ~in_ext_psram(SW_IN) /\ ~in_ext_psram(LED_OUT)
  OBVIOUS
<1>3. Cells \subseteq 0 .. 239 /\ EXT_PSRAM_BASE \in Cells
  OBVIOUS
<1>4. ASSUME NEW a \in Cells
      PROVE  \/ in_ram_range(a) /\ ~in_ext_psram(a) /\ Region(a, FALSE) = "ram"
             \/ ~in_ram_range(a) /\ in_ext_psram(a) /\ Region(a, FALSE) = "psram"
                  /\ a - EXT_PSRAM_BASE \in 0 .. EXT_PSRAM_BYTES - 1
  OBVIOUS
<1> QED  BY <1>1, <1>2, <1>3, <1>4

\* The address of a load or store.
LEMMA AddressOf ==
  ASSUME NEW b \in 0 .. 255, NEW imm \in 0 .. 255, b + imm <= 255
  PROVE  Addr8(Add(Num(b), Signed12(imm))) = b + imm
<1>1. Signed12(imm) = Num(imm) /\ b + imm \in 0 .. 255
  BY SignedFacts
<1>2. Add(Num(b), Num(imm)) = Num(b + imm)
  BY AddNums, Zenon
<1>3. Val(Num(b + imm), 8) = b + imm
  BY <1>1, NumFacts
<1> QED  BY <1>1, <1>2, <1>3 DEF Addr8

\* A number the index of a device can hold has no bits above it.
LEMMA BitsAbove ==
  ASSUME NEW x \in Nat, IdxBits \in 1 .. 7, x < 2^IdxBits
  PROVE  \A i \in 0 .. 7 : i >= IdxBits => Bit(x, i) = 0
<1>1. x \in Nat /\ x < 2^IdxBits
  OBVIOUS
<1>2. /\ Bit(x, 1) = (x \div 2) % 2 /\ Bit(x, 2) = (x \div 4) % 2
      /\ Bit(x, 3) = (x \div 8) % 2 /\ Bit(x, 4) = (x \div 16) % 2
      /\ Bit(x, 5) = (x \div 32) % 2 /\ Bit(x, 6) = (x \div 64) % 2
      /\ Bit(x, 7) = (x \div 128) % 2
  BY PowersOfTwo DEF Bit
<1>3. CASE IdxBits = 1
  <2>1. x < 2
    BY <1>1, <1>3, PowersOfTwo
  <2>2. \A i \in 1 .. 7 : Bit(x, i) = 0
    BY <1>1, <1>2, <2>1, OneOfEight
  <2> QED  BY <1>3, <2>2
<1>4. CASE IdxBits = 2
  <2>1. x < 4
    BY <1>1, <1>4, PowersOfTwo
  <2>2. \A i \in 2 .. 7 : Bit(x, i) = 0
    BY <1>1, <1>2, <2>1, OneOfEight
  <2> QED  BY <1>4, <2>2
<1>5. CASE IdxBits = 3
  <2>1. x < 8
    BY <1>1, <1>5, PowersOfTwo
  <2>2. \A i \in 3 .. 7 : Bit(x, i) = 0
    BY <1>1, <1>2, <2>1, OneOfEight
  <2> QED  BY <1>5, <2>2
<1>6. CASE IdxBits = 4
  <2>1. x < 16
    BY <1>1, <1>6, PowersOfTwo
  <2>2. \A i \in 4 .. 7 : Bit(x, i) = 0
    BY <1>1, <1>2, <2>1, OneOfEight
  <2> QED  BY <1>6, <2>2
<1>7. CASE IdxBits = 5
  <2>1. x < 32
    BY <1>1, <1>7, PowersOfTwo
  <2>2. \A i \in 5 .. 7 : Bit(x, i) = 0
    BY <1>1, <1>2, <2>1, OneOfEight
  <2> QED  BY <1>7, <2>2
<1>8. CASE IdxBits = 6
  <2>1. x < 64
    BY <1>1, <1>8, PowersOfTwo
  <2>2. \A i \in 6 .. 7 : Bit(x, i) = 0
    BY <1>1, <1>2, <2>1, OneOfEight
  <2> QED  BY <1>8, <2>2
<1>9. CASE IdxBits = 7
  <2>1. x < 128
    BY <1>1, <1>9, PowersOfTwo
  <2> QED  BY <1>1, <1>2, <1>9, <2>1
<1> QED  BY <1>3, <1>4, <1>5, <1>6, <1>7, <1>8, <1>9

LEMMA InIndex ==
  ASSUME NEW x \in 0 .. 255
  PROVE  Idx(ToBits(x, 24)) \in Index
<1>1. IdxBits \in 1 .. 24
  BY IdxBitsAssumption
<1>2. \A i \in 0 .. IdxBits - 1 : i \in 0 .. 23
  BY <1>1
<1>3. \A i \in 0 .. 23 : ToBits(x, 24)[i] \in {0, 1}
  <2>1. Byteful(Num(x), x)
    BY NumDigits
  <2>2. \A i \in 0 .. 31 : Num(x)[i] \in {0, 1}
    <3>1. \A i \in 0 .. 31 : i \in 0 .. 7 \/ i \in 8 .. 31
      OBVIOUS
    <3> QED  BY <2>1, <3>1 DEF Byteful, Digits
  <2>3. \A i \in 0 .. 23 : i \in 0 .. 31 /\ ToBits(x, 24)[i] = Num(x)[i]
    BY DEF Num, ToBits
  <2> QED  BY <2>2, <2>3
<1> QED  BY <1>2, <1>3 DEF Idx, Low, Index, Bits, BIT

\* The number of a byte's place in a device that has as many.
LEMMA PlaceOf ==
  ASSUME NEW m \in 0 .. 255, m < 2^IdxBits
  PROVE  Val(Idx(ToBits(m, 24)), IdxBits) = m
<1>1. IdxBits \in 1 .. 24 /\ m \in 0 .. 255 /\ m < 2^IdxBits
  BY IdxBitsAssumption
<1> DEFINE v == Idx(ToBits(m, 24))
           b == [i \in 0 .. 7 |-> Bit(m, i)]
<1>2. \A i \in 0 .. 7 : i < IdxBits => v[i] = Bit(m, i)
  <2> SUFFICES ASSUME NEW i \in 0 .. 7, i < IdxBits PROVE v[i] = Bit(m, i)
    OBVIOUS
  <2>1. i \in 0 .. IdxBits - 1 /\ i < 30 /\ i \in 0 .. 23
    BY <1>1
  <2> QED  BY <2>1 DEF Idx, Low, ToBits, Bit
<1>3. \A i \in 0 .. 7 : i >= IdxBits => Bit(m, i) = 0
  BY <1>1, BitsAbove
<1>4. \A i \in 0 .. 7 : b[i] = Bit(m, i) /\ (IF i < IdxBits THEN v[i] ELSE 0) = b[i]
  <2>1. \A i \in 0 .. 7 : i < IdxBits \/ i >= IdxBits
    BY <1>1
  <2> QED  BY <1>2, <1>3, <2>1
<1> HIDE DEF v, b
<1>5. Val(v, IdxBits) = b[0] + 2 * b[1] + 4 * b[2] + 8 * b[3] + 16 * b[4] + 32 * b[5]
                          + 64 * b[6] + 128 * b[7]
  BY <1>4 DEF Val
<1>6. Digits(b, m)
  BY <1>1, <1>4, BitsAreDigits
<1> QED  BY <1>5, <1>6 DEF Digits, v

\* The place of byte m of the PSRAM window in the device.
LEMMA PlaceNumber ==
  ASSUME Fitting, NEW m \in 0 .. EXT_PSRAM_BYTES - 1
  PROVE  Val(Idx(ToBits(m, 24)), IdxBits) = m
<1>1. EXT_PSRAM_BYTES \in Nat /\ EXT_PSRAM_BYTES <= 252 /\ IdxBits \in 1 .. 24
  BY BootFacts, IdxBitsAssumption
<1>2. 2^IdxBits \in Nat /\ EXT_PSRAM_BYTES <= 2^IdxBits
  BY <1>1 DEF Fitting
<1> HIDE DEF Fitting
<1>3. m \in 0 .. 255 /\ m < 2^IdxBits
  BY <1>1, <1>2
<1> QED  BY <1>3, PlaceOf

\* Two bytes of the window are two places of the device.
LEMMA PlacesDiffer ==
  ASSUME Fitting,
         NEW m \in 0 .. EXT_PSRAM_BYTES - 1, NEW n \in 0 .. EXT_PSRAM_BYTES - 1,
         Idx(ToBits(m, 24)) = Idx(ToBits(n, 24))
  PROVE  m = n
BY PlaceNumber

-----------------------------------------------------------------------------
\* One lemma for each mnemonic of the boot ROM, in numbers.

\* The number in register n.
Of(n) == IF n = 0 THEN 0 ELSE file[n]

Runs(w) == Framed /\ Steps(w) /\ pc \in 0 .. 251 /\ DATA \in {0, 1}

LEMMA RunFacts ==
  ASSUME NEW w, Runs(w)
  PROVE  /\ Framed /\ Steps(w) /\ pc \in 0 .. 251 /\ pc \in 0 .. 255
         /\ (pc + 4) % 256 = pc + 4
         /\ \A n \in 0 .. 9 : Reg(regs, n) = Num(Of(n)) /\ Of(n) \in 0 .. 255 /\ n \in 0 .. 31
<1>1. Framed /\ Steps(w) /\ pc \in 0 .. 251
  BY DEF Runs
<1>2. Reg(regs, 0) = Num(0) /\ Of(0) = 0
  BY <1>1, Registers DEF Of
<1>3. ASSUME NEW n \in 1 .. 9
      PROVE  Reg(regs, n) = Num(Of(n)) /\ Of(n) \in 0 .. 255
  <2>1. n # 0
    OBVIOUS
  <2>2. Of(n) = file[n]
    BY <2>1, Zenon DEF Of
  <2> QED  BY <1>1, <2>2, Registers
<1>4. \A n \in 0 .. 9 : n \in 0 .. 31 /\ (n = 0 \/ n \in 1 .. 9)
  OBVIOUS
<1>5. 0 \in 0 .. 255
  OBVIOUS
<1>6. \A n \in 0 .. 9 : Reg(regs, n) = Num(Of(n)) /\ Of(n) \in 0 .. 255 /\ n \in 0 .. 31
  BY <1>2, <1>3, <1>4, <1>5, ZenonT(30)
<1>7. pc \in 0 .. 255 /\ (pc + 4) % 256 = pc + 4
  BY <1>1
<1> QED  BY <1>1, <1>6, <1>7

LEMMA AddsLine ==
  ASSUME NEW rd \in 0 .. 9, NEW rs \in 0 .. 9, NEW imm \in 0 .. 255,
         Runs(ADDI(rd, rs, imm)), Of(rs) + imm <= 255
  PROVE  Quiet(rd, Of(rs) + imm, pc + 4)
<1> DEFINE w == ADDI(rd, rs, imm)
<1>1. Framed /\ Steps(w) /\ (pc + 4) % 256 = pc + 4 /\ Reg(regs, rs) = Num(Of(rs))
      /\ Of(rs) \in 0 .. 255 /\ rd \in 0 .. 31 /\ rs \in 0 .. 31
  BY RunFacts
<1>2. imm \in Int /\ Of(rs) + imm \in 0 .. 255
  <2> DEFINE x == Of(rs)
  <2>1. x \in 0 .. 255 /\ x + imm <= 255
    BY <1>1
  <2> HIDE DEF x
  <2>2. imm \in Int /\ x + imm \in 0 .. 255
    BY <2>1
  <2> QED  BY <2>2 DEF x
<1>3. Sets(w, regs, pc, rd, Add(Num(Of(rs)), Signed12(imm)))
  <2>1. ImmediateMnemonics(rd, rs, imm, regs, pc)
    BY <1>1, <1>2, ImmediatesMean, Zenon
  <2> QED  BY <1>1, <2>1, Zenon DEF ImmediateMnemonics
<1>4. Add(Num(Of(rs)), Signed12(imm)) = Num(Of(rs) + imm)
  <2>1. Signed12(imm) = Num(imm)
    BY SignedFacts, Zenon
  <2>2. Add(Num(Of(rs)), Num(imm)) = Num(Of(rs) + imm)
    BY <1>1, AddNums, Zenon
  <2> QED  BY <2>1, <2>2, Zenon
<1> HIDE DEF w
<1>5. Quiet(rd, Of(rs) + imm, (pc + 4) % 256)
  BY <1>1, <1>2, <1>3, <1>4, SetLine, Zenon
<1> QED  BY <1>1, <1>5

LEMMA LessLine ==
  ASSUME NEW rd \in 0 .. 9, NEW rs \in 0 .. 9, Runs(ADDI(rd, rs, -1)), Of(rs) > 0
  PROVE  Quiet(rd, Of(rs) - 1, pc + 4)
<1> DEFINE w == ADDI(rd, rs, -1)
<1>1. Framed /\ Steps(w) /\ (pc + 4) % 256 = pc + 4 /\ Reg(regs, rs) = Num(Of(rs))
      /\ Of(rs) \in 0 .. 255 /\ rd \in 0 .. 31 /\ rs \in 0 .. 31
  BY RunFacts
<1>2. -1 \in Int /\ Of(rs) - 1 \in 0 .. 255 /\ Of(rs) \in 1 .. 255
  BY <1>1
<1>3. Sets(w, regs, pc, rd, Add(Num(Of(rs)), Signed12(-1)))
  <2>1. ImmediateMnemonics(rd, rs, -1, regs, pc)
    BY <1>1, <1>2, ImmediatesMean, Zenon
  <2> QED  BY <1>1, <2>1, Zenon DEF ImmediateMnemonics
<1>4. Add(Num(Of(rs)), Signed12(-1)) = Num(Of(rs) - 1)
  BY <1>2, AddNums, Zenon
<1> HIDE DEF w
<1>5. Quiet(rd, Of(rs) - 1, (pc + 4) % 256)
  BY <1>1, <1>2, <1>3, <1>4, SetLine, Zenon
<1> QED  BY <1>1, <1>5

\* x & m, for the masks of the program.
Masked(x, m) ==
  CASE m = 1 -> x % 2
    [] m = 2 -> 2 * ((x \div 2) % 2)
    [] m = 4 -> 4 * ((x \div 4) % 2)
    [] m = 15 -> x % 16

LEMMA MaskLine ==
  ASSUME NEW rd \in 0 .. 9, NEW rs \in 0 .. 9, NEW m \in {1, 2, 4, 15},
         Runs(ANDI(rd, rs, m))
  PROVE  Quiet(rd, Masked(Of(rs), m), pc + 4)
<1> DEFINE w == ANDI(rd, rs, m)
<1>1. Framed /\ Steps(w) /\ (pc + 4) % 256 = pc + 4 /\ Reg(regs, rs) = Num(Of(rs))
      /\ Of(rs) \in 0 .. 255 /\ rd \in 0 .. 31 /\ rs \in 0 .. 31
  BY RunFacts
<1>2. m \in Int /\ m \in 0 .. 255
  OBVIOUS
<1>3. Sets(w, regs, pc, rd, Alu("and", Num(Of(rs)), Signed12(m)))
  <2>1. ImmediateMnemonics(rd, rs, m, regs, pc)
    BY <1>1, <1>2, ImmediatesMean, Zenon
  <2> QED  BY <1>1, <2>1, Zenon DEF ImmediateMnemonics
<1>4. Alu("and", Num(Of(rs)), Signed12(m)) = Num(Masked(Of(rs), m))
  <2>1. Signed12(m) = Num(m)
    BY <1>2, SignedFacts
  <2>2. /\ Alu("and", Num(Of(rs)), Num(1)) = Num(Of(rs) % 2)
        /\ Alu("and", Num(Of(rs)), Num(2)) = Num(2 * ((Of(rs) \div 2) % 2))
        /\ Alu("and", Num(Of(rs)), Num(4)) = Num(4 * ((Of(rs) \div 4) % 2))
        /\ Alu("and", Num(Of(rs)), Num(15)) = Num(Of(rs) % 16)
    BY <1>1, AndNums
  <2> HIDE DEF Num, Alu
  <2> QED  BY <2>1, <2>2 DEF Masked
<1>5. Masked(Of(rs), m) \in 0 .. 255
  <2> DEFINE x == Of(rs)
  <2>1. x \in 0 .. 255
    BY <1>1
  <2> HIDE DEF x
  <2>2. Masked(x, m) \in 0 .. 255
    BY <2>1 DEF Masked
  <2> QED  BY <2>2 DEF x
<1> HIDE DEF w
<1>6. Quiet(rd, Masked(Of(rs), m), (pc + 4) % 256)
  BY <1>1, <1>3, <1>4, <1>5, SetLine, Zenon
<1> QED  BY <1>1, <1>6

LEMMA DoubleLine ==
  ASSUME NEW rd \in 0 .. 9, NEW rs \in 0 .. 9, Runs(SLLI(rd, rs, 1)), Of(rs) <= 127
  PROVE  Quiet(rd, 2 * Of(rs), pc + 4)
<1> DEFINE w == SLLI(rd, rs, 1)
<1>1. Framed /\ Steps(w) /\ (pc + 4) % 256 = pc + 4 /\ Reg(regs, rs) = Num(Of(rs))
      /\ Of(rs) \in 0 .. 255 /\ rd \in 0 .. 31 /\ rs \in 0 .. 31
  BY RunFacts
<1>2. 1 \in Int /\ 1 % 32 = 1 /\ 2 * Of(rs) \in 0 .. 255
  BY <1>1
<1>3. Sets(w, regs, pc, rd, Alu("sll", Num(Of(rs)), Num(1)))
  <2>1. ShiftMnemonics(rd, rs, 1, regs, pc)
    BY <1>1, <1>2, ShiftsMean, Zenon
  <2>2. Sets(w, regs, pc, rd, Alu("sll", Reg(regs, rs), ToBits(1 % 32, 32)))
    BY <2>1 DEF ShiftMnemonics
  <2> QED  BY <1>1, <1>2, <2>2, Zenon DEF Num
<1>4. Alu("sll", Num(Of(rs)), Num(1)) = Num(2 * Of(rs))
  BY <1>1, OtherNums, Zenon
<1> HIDE DEF w
<1>5. Quiet(rd, 2 * Of(rs), (pc + 4) % 256)
  BY <1>1, <1>2, <1>3, <1>4, SetLine, Zenon
<1> QED  BY <1>1, <1>5

LEMMA OneLine ==
  ASSUME NEW rd \in 0 .. 9, NEW rs \in 0 .. 9, Runs(ORI(rd, rs, 1)), Of(rs) % 2 = 0
  PROVE  Quiet(rd, Of(rs) + 1, pc + 4)
<1> DEFINE w == ORI(rd, rs, 1)
<1>1. Framed /\ Steps(w) /\ (pc + 4) % 256 = pc + 4 /\ Reg(regs, rs) = Num(Of(rs))
      /\ Of(rs) \in 0 .. 255 /\ rd \in 0 .. 31 /\ rs \in 0 .. 31
  BY RunFacts
<1>2. 1 \in Int /\ 1 \in 0 .. 255 /\ Of(rs) + 1 \in 0 .. 255
  <2> DEFINE x == Of(rs)
  <2>1. x \in 0 .. 255 /\ x % 2 = 0
    BY <1>1
  <2> HIDE DEF x
  <2>2. x + 1 \in 0 .. 255
    BY <2>1
  <2> QED  BY <2>2 DEF x
<1>3. Sets(w, regs, pc, rd, Alu("or", Num(Of(rs)), Signed12(1)))
  BY <1>1, <1>2, ImmediatesMean DEF ImmediateMnemonics
<1>4. Alu("or", Num(Of(rs)), Signed12(1)) = Num(Of(rs) + 1)
  <2>1. Signed12(1) = Num(1)
    BY <1>2, SignedFacts
  <2> QED  BY <1>1, <2>1, OtherNums, Zenon
<1> HIDE DEF w
<1>5. Quiet(rd, Of(rs) + 1, (pc + 4) % 256)
  BY <1>1, <1>2, <1>3, <1>4, SetLine, Zenon
<1> QED  BY <1>1, <1>5

\* Of two registers, the first of which is zero.
LEMMA EitherLine ==
  ASSUME NEW rd \in 0 .. 9, NEW r1 \in 0 .. 9, NEW r2 \in 0 .. 9,
         Runs(OR(rd, r1, r2)), Of(r1) = 0
  PROVE  Quiet(rd, Of(r2), pc + 4)
<1> DEFINE w == OR(rd, r1, r2)
<1>1. Framed /\ Steps(w) /\ (pc + 4) % 256 = pc + 4 /\ Reg(regs, r1) = Num(0)
      /\ Reg(regs, r2) = Num(Of(r2)) /\ Of(r2) \in 0 .. 255
      /\ rd \in 0 .. 31 /\ r1 \in 0 .. 31 /\ r2 \in 0 .. 31
  BY RunFacts
<1>2. Sets(w, regs, pc, rd, Alu("or", Num(0), Num(Of(r2))))
  <2>1. RegisterMnemonics(rd, r1, r2, regs, pc)
    BY <1>1, RegistersMean, Zenon
  <2> QED  BY <1>1, <2>1, Zenon DEF RegisterMnemonics
<1>3. Alu("or", Num(0), Num(Of(r2))) = Num(Of(r2))
  BY <1>1, OtherNums, Zenon
<1> DEFINE v == Of(r2)
<1> HIDE DEF w, v
<1>4. Framed /\ Steps(w) /\ v \in 0 .. 255
  BY <1>1 DEF v
<1>5. Sets(w, regs, pc, rd, Num(v))
  BY <1>2, <1>3 DEF v
<1>6. Quiet(rd, v, (pc + 4) % 256)
  BY <1>4, <1>5, SetLine, ZenonT(30)
<1> QED  BY <1>1, <1>6 DEF v

LEMMA CopyLine ==
  ASSUME NEW rd \in 0 .. 9, NEW r1 \in 0 .. 9, Runs(ADD(rd, r1, 0))
  PROVE  Quiet(rd, Of(r1), pc + 4)
<1> DEFINE w == ADD(rd, r1, 0)
<1>0. 0 \in 0 .. 9 /\ 0 \in 0 .. 255 /\ Of(0) = 0
  BY DEF Of
<1>1. Framed /\ Steps(w) /\ (pc + 4) % 256 = pc + 4 /\ Reg(regs, r1) = Num(Of(r1))
      /\ Reg(regs, 0) = Num(0) /\ Of(r1) \in 0 .. 255
      /\ rd \in 0 .. 31 /\ r1 \in 0 .. 31 /\ 0 \in 0 .. 31
  BY <1>0, RunFacts
<1>2. Sets(w, regs, pc, rd, Add(Num(Of(r1)), Num(0)))
  <2>1. RegisterMnemonics(rd, r1, 0, regs, pc)
    BY <1>1, RegistersMean, Zenon
  <2> QED  BY <1>1, <2>1, Zenon DEF RegisterMnemonics
<1>3. Add(Num(Of(r1)), Num(0)) = Num(Of(r1))
  <2> DEFINE x == Of(r1)
  <2>1. x \in 0 .. 255
    BY <1>1
  <2> HIDE DEF x
  <2>2. x + 0 = x /\ x + 0 <= 255
    BY <2>1
  <2>3. Add(Num(x), Num(0)) = Num(x + 0)
    BY <1>0, <2>1, <2>2, AddNums, Zenon
  <2> QED  BY <2>2, <2>3 DEF x
<1> HIDE DEF w
<1>4. Quiet(rd, Of(r1), (pc + 4) % 256)
  BY <1>1, <1>2, <1>3, SetLine, Zenon
<1> QED  BY <1>1, <1>4

LEMMA EqualLine ==
  ASSUME NEW r1 \in 0 .. 9, NEW r2 \in 0 .. 9, NEW to \in 0 .. 255, (to - pc) % 2 = 0
  PROVE  /\ Runs(BEQ(r1, r2, pc, to)) => Quiet(0, 0, IF Of(r1) = Of(r2) THEN to ELSE pc + 4)
         /\ Runs(BNE(r1, r2, pc, to)) => Quiet(0, 0, IF Of(r1) # Of(r2) THEN to ELSE pc + 4)
<1>1. ASSUME NEW w, Runs(w)
      PROVE  /\ BranchMnemonics(r1, r2, pc, to, regs) /\ (pc + 4) % 256 = pc + 4
             /\ Reg(regs, r1) = Reg(regs, r2) <=> Of(r1) = Of(r2)
             /\ Framed /\ Steps(w)
  <2>1. /\ Reg(regs, r1) = Num(Of(r1)) /\ Of(r1) \in 0 .. 255 /\ r1 \in 0 .. 31
        /\ Reg(regs, r2) = Num(Of(r2)) /\ Of(r2) \in 0 .. 255 /\ r2 \in 0 .. 31
        /\ pc \in 0 .. 255 /\ (pc + 4) % 256 = pc + 4 /\ Framed /\ Steps(w)
    BY <1>1, RunFacts
  <2>2. BranchMnemonics(r1, r2, pc, to, regs)
    BY <2>1, BranchesMean, Zenon
  <2>3. Num(Of(r1)) = Num(Of(r2)) <=> Of(r1) = Of(r2)
    BY <2>1, OtherNums, Zenon
  <2> QED  BY <2>1, <2>2, <2>3
<1>2. ASSUME Runs(BEQ(r1, r2, pc, to))
      PROVE  Quiet(0, 0, IF Of(r1) = Of(r2) THEN to ELSE pc + 4)
  <2> DEFINE w == BEQ(r1, r2, pc, to)
  <2>1. GoesTo(w, regs, pc, IF Reg(regs, r1) = Reg(regs, r2) THEN to ELSE (pc + 4) % 256)
    BY <1>1, <1>2 DEF BranchMnemonics
  <2>2. Framed /\ Steps(w)
    BY <1>1, <1>2
  <2> HIDE DEF w
  <2>3. GoesTo(w, regs, pc, IF Of(r1) = Of(r2) THEN to ELSE pc + 4)
    BY <1>1, <1>2, <2>1
  <2> QED  BY <2>2, <2>3, GoLine, Zenon
<1>3. ASSUME Runs(BNE(r1, r2, pc, to))
      PROVE  Quiet(0, 0, IF Of(r1) # Of(r2) THEN to ELSE pc + 4)
  <2> DEFINE w == BNE(r1, r2, pc, to)
  <2>1. GoesTo(w, regs, pc, IF Reg(regs, r1) # Reg(regs, r2) THEN to ELSE (pc + 4) % 256)
    BY <1>1, <1>3 DEF BranchMnemonics
  <2>2. Framed /\ Steps(w)
    BY <1>1, <1>3
  <2> HIDE DEF w
  <2>3. GoesTo(w, regs, pc, IF Of(r1) # Of(r2) THEN to ELSE pc + 4)
    BY <1>1, <1>3, <2>1
  <2> QED  BY <2>2, <2>3, GoLine, Zenon
<1> QED  BY <1>2, <1>3

LEMMA CountsLine ==
  ASSUME NEW r1 \in 0 .. 9, NEW r2 \in 0 .. 9, NEW to \in 0 .. 255, (to - pc) % 2 = 0,
         Runs(BLT(r1, r2, pc, to)), Of(r1) \in 1 .. 8, Of(r2) = 8
  PROVE  Quiet(0, 0, IF Of(r1) < 8 THEN to ELSE pc + 4)
<1> DEFINE w == BLT(r1, r2, pc, to)
<1>1. /\ Reg(regs, r1) = Num(Of(r1)) /\ Of(r1) \in 0 .. 255 /\ r1 \in 0 .. 31
      /\ Reg(regs, r2) = Num(8) /\ r2 \in 0 .. 31
      /\ pc \in 0 .. 255 /\ (pc + 4) % 256 = pc + 4 /\ Framed /\ Steps(w)
  BY RunFacts
<1>2. BranchMnemonics(r1, r2, pc, to, regs)
  BY <1>1, BranchesMean, Zenon
<1>3. GoesTo(w, regs, pc, IF LessS(Num(Of(r1)), Num(8)) THEN to ELSE (pc + 4) % 256)
  BY <1>1, <1>2 DEF BranchMnemonics
<1>4. LessS(Num(Of(r1)), Num(8)) <=> Of(r1) < 8
  BY <1>1, OtherNums, Zenon
<1> HIDE DEF w
<1>5. GoesTo(w, regs, pc, IF Of(r1) < 8 THEN to ELSE pc + 4)
  BY <1>1, <1>3, <1>4
<1> QED  BY <1>1, <1>5, GoLine, Zenon

LEMMA CallLine ==
  ASSUME NEW rd \in 0 .. 9, NEW to \in 0 .. 255, (to - pc) % 2 = 0, Runs(JAL(rd, pc, to))
  PROVE  Quiet(rd, pc + 4, to)
<1> DEFINE w == JAL(rd, pc, to)
<1>1. /\ rd \in 0 .. 31 /\ pc \in 0 .. 255 /\ pc \in 0 .. 251 /\ Framed /\ Steps(w)
  BY RunFacts
<1>2. 0 \in 0 .. 31 /\ 0 \in Int
  OBVIOUS
<1>3. JumpMnemonics(rd, 0, 0, pc, to, regs)
  BY <1>1, <1>2, JumpsMean, Zenon
<1>4. JumpsTo(w, regs, pc, rd, to)
  BY <1>3 DEF JumpMnemonics
<1> HIDE DEF w
<1> QED  BY <1>1, <1>4, JumpLine, Zenon

LEMMA ReturnLine ==
  ASSUME NEW r1 \in 0 .. 9, Runs(JALR(0, r1, 0)), Of(r1) % 2 = 0
  PROVE  Quiet(0, pc + 4, Of(r1))
<1> DEFINE w == JALR(0, r1, 0)
           x == Of(r1)
<1>1. /\ r1 \in 0 .. 31 /\ pc \in 0 .. 255 /\ pc \in 0 .. 251 /\ Framed /\ Steps(w)
      /\ Reg(regs, r1) = Num(x) /\ x \in 0 .. 255
  BY RunFacts
<1>2. 0 \in 0 .. 31 /\ 0 \in Int /\ 0 \in 0 .. 255 /\ 0 \in 0 .. 9
  OBVIOUS
<1>3. (pc - pc) % 2 = 0
  BY <1>1
<1>4. JumpMnemonics(0, r1, 0, pc, pc, regs)
  BY <1>1, <1>2, <1>3, JumpsMean, Zenon
<1>5. JumpsTo(w, regs, pc, 0, Even((Addr8(Num(x)) + (0 % 256)) % 256))
  BY <1>1, <1>4 DEF JumpMnemonics
<1>6. Addr8(Num(x)) = x
  BY <1>1, NumFacts DEF Addr8
<1>7. x \in 0 .. 255 /\ x % 2 = 0
  BY <1>1
<1> HIDE DEF w, x
<1>8. Even((x + (0 % 256)) % 256) = x
  BY <1>7 DEF Even
<1>9. JumpsTo(w, regs, pc, 0, x)
  BY <1>5, <1>6, <1>8
<1>10. Quiet(0, pc + 4, x)
  BY <1>1, <1>2, <1>9, JumpLine, Zenon
<1> QED  BY <1>10 DEF x

\* The pins are read as one byte.
LEMMA PinsLine ==
  ASSUME NEW rd \in 0 .. 9, Runs(LW(rd, 0, SW_IN))
  PROVE  Quiet(rd, Pins, pc + 4) /\ Pins \in 0 .. 7
<1> DEFINE w == LW(rd, 0, SW_IN)
<1>0. 0 \in 0 .. 9 /\ 0 \in 0 .. 255 /\ Of(0) = 0 /\ SW_IN \in 0 .. 255 /\ SW_IN \in Int
      /\ 0 + SW_IN = SW_IN /\ 0 + SW_IN <= 255
  BY Places DEF Of
<1>1. /\ rd \in 0 .. 31 /\ 0 \in 0 .. 31 /\ (pc + 4) % 256 = pc + 4
      /\ Reg(regs, 0) = Num(0) /\ Framed /\ Steps(w) /\ DATA \in {0, 1}
  BY <1>0, RunFacts DEF Runs
<1>2. AccessMnemonics(rd, 0, SW_IN, regs, pc)
  BY <1>0, <1>1, AccessesMean, Zenon
<1>3. LoadsFrom(w, regs, pc, rd, Num(0), SW_IN, 2, FALSE)
  BY <1>1, <1>2 DEF AccessMnemonics
<1>4. Addr8(Add(Num(0), Signed12(SW_IN))) = SW_IN
  BY <1>0, AddressOf, Zenon
<1> HIDE DEF w
<1>5. /\ Opcode(w) = OP_LOAD /\ Opcode(w) # OP_STORE /\ Addr8(AluY(w, regs)) = SW_IN
      /\ \A y, rdata : WriteBack(w, regs, pc, y, rdata) = Put(regs, rd, rdata)
      /\ NextPc(w, regs, pc) = pc + 4
  BY <1>1, <1>3, <1>4, OpsDiffer DEF LoadsFrom, Widened
<1>6. Pins \in 0 .. 7 /\ InPins = ToBits(Pins, 8)
  BY <1>1 DEF Pins, InPins, START_MASK, CLOCK_MASK
<1>7. \A n : ReadsAt(SW_IN, n) = Num(Pins)
  <2>0. mode = FALSE
    BY <1>1 DEF Framed
  <2>1. Region(SW_IN, mode) = "register" /\ SW_IN # LED_OUT /\ SW_IN # FLASH_PAGE
    <3>1. SW_IN # LED_OUT /\ SW_IN # FLASH_PAGE
      BY DEF SW_IN, LED_OUT, FLASH_PAGE
    <3> QED  BY <2>0, <3>1, Places, Zenon
  <2>2. \A n : ReadsAt(SW_IN, n) = Wide(InPins)
    BY <2>1 DEF ReadsAt, LoadAt, RegisterAt, Wide
  <2>3. Pins \in 0 .. 255
    BY <1>6
  <2> QED  BY <1>6, <2>2, <2>3, NumFacts
<1>8. /\ pc' = pc + 4 /\ regs' = Put(regs, rd, Num(Pins))
      /\ UNCHANGED <<ram, store, out, mode, page, rom>> /\ stall' = 0
  BY <1>1, <1>5, <1>7, Places DEF Steps
<1>9. Framed' /\ file' = PutFile(file, rd, Pins) /\ cells' = cells
  <2>1. Pins \in 0 .. 255
    BY <1>6
  <2> QED  BY <1>1, <1>8, <2>1, PutKeeps
<1> QED  BY <1>6, <1>8, <1>9 DEF Quiet

\* A byte changed in the memory.
LEMMA CellsAfter ==
  ASSUME NEW a \in Cells, NEW v \in 0 .. 255, Framed, UNCHANGED <<rom, mode, page, regs>>,
         ram' = [c \in RAM_BASE .. RAM_BASE + RAM_BYTES - 1 |-> ram'[c]],
         "psram" \in DOMAIN store',
         store'["psram"] = [x \in Index |-> store'["psram"][x]],
         \A c \in Cells : Cell(c)' = IF c = a THEN ToBits(v, 8) ELSE Cell(c)
  PROVE  Framed' /\ cells' = [cells EXCEPT ![a] = v] /\ file' = file
<1>1. Val(ToBits(v, 8), 8) = v
  BY NumFacts
<1>2. cells = [c \in Cells |-> Val(Cell(c), 8)] /\ cells' = [c \in Cells |-> Val(Cell(c)', 8)]
  BY DEF cells, Cell
<1>3. \A c \in Cells : cells'[c] = IF c = a THEN v ELSE cells[c]
  BY <1>1, <1>2
<1>4. cells \in [Cells -> 0 .. 255] /\ \A c \in Cells : Cell(c) = ToBits(cells[c], 8)
  BY DEF Framed
<1>5. cells' = [cells EXCEPT ![a] = v]
  <2>1. cells' = [c \in Cells |-> cells'[c]] /\ cells = [c \in Cells |-> cells[c]]
    BY <1>2
  <2> QED  BY <1>3, <2>1
<1>6. cells' \in [Cells -> 0 .. 255]
  BY <1>4, <1>5
<1>7. \A c \in Cells : Cell(c)' = ToBits(cells'[c], 8)
  BY <1>3, <1>4
<1>8. file' = file
  BY DEF file
<1>9. /\ regs' = [n \in 1 .. 31 |-> regs'[n]] /\ file' \in [1 .. 9 -> 0 .. 255]
      /\ \A n \in 1 .. 9 : regs'[n] = Num(file'[n])
  BY <1>8 DEF Framed
<1>10. rom' = RomImage /\ mode' = FALSE /\ page' = 0
  BY DEF Framed
<1>11. Framed'
  BY <1>6, <1>7, <1>9, <1>10, Zenon DEF Framed
<1> QED  BY <1>5, <1>8, <1>11

LEMMA RamCells ==
  ASSUME NEW a \in Cells, NEW wd, NEW v, Framed, Lane(wd, 0) = ToBits(v, 8),
         ram' = StoreRam(ram, mode, a, 1, wd), store' = StorePsram(store, mode, a, 1, wd),
         in_ram_range(a)
  PROVE  /\ ram' = [c \in RAM_BASE .. RAM_BASE + RAM_BYTES - 1 |-> ram'[c]]
         /\ "psram" \in DOMAIN store'
         /\ store'["psram"] = [x \in Index |-> store'["psram"][x]]
         /\ \A c \in Cells : Cell(c)' = IF c = a THEN ToBits(v, 8) ELSE Cell(c)
<1>1. mode = FALSE /\ Region(a, mode) = "ram"
  BY Places DEF Framed
<1>2. ram = [c \in RAM_BASE .. RAM_BASE + RAM_BYTES - 1 |-> ram[c]]
      /\ "psram" \in DOMAIN store
      /\ store["psram"] = [x \in Index |-> store["psram"][x]]
  BY DEF Framed
<1>3. DOMAIN ram = RAM_BASE .. RAM_BASE + RAM_BYTES - 1
  BY <1>2
<1>4. ram' = [c \in RAM_BASE .. RAM_BASE + RAM_BYTES - 1 |->
                IF c - a \in 0 .. 1 - 1 THEN Lane(wd, c - a) ELSE ram[c]]
  BY <1>1, <1>3 DEF StoreRam
<1>5. a \in Int /\ RAM_BASE \in Int /\ RAM_BYTES \in Int
  BY Places, BootFacts
<1>6. \A c \in RAM_BASE .. RAM_BASE + RAM_BYTES - 1 :
        ram'[c] = IF c = a THEN ToBits(v, 8) ELSE ram[c]
  <2> SUFFICES ASSUME NEW c \in RAM_BASE .. RAM_BASE + RAM_BYTES - 1
               PROVE  ram'[c] = IF c = a THEN ToBits(v, 8) ELSE ram[c]
    OBVIOUS
  <2>1. (c - a \in 0 .. 1 - 1 <=> c = a) /\ (c = a => c - a = 0)
    BY <1>5
  <2> QED  BY <1>4, <2>1
<1>7. store' = store
  BY <1>1 DEF StorePsram
<1>8. \A c \in Cells : c \in Int
  BY BootFacts DEF Cells
<1>9. \A c \in Cells : Cell(c)' = IF c = a THEN ToBits(v, 8) ELSE Cell(c)
  BY <1>5, <1>6, <1>7, <1>8 DEF Cell, in_ram_range
<1> QED  BY <1>2, <1>4, <1>7, <1>9

LEMMA PsramCells ==
  ASSUME NEW a \in Cells, NEW wd, NEW v, Fitting, Framed, Lane(wd, 0) = ToBits(v, 8),
         ram' = StoreRam(ram, mode, a, 1, wd), store' = StorePsram(store, mode, a, 1, wd),
         ~in_ram_range(a)
  PROVE  /\ ram' = [c \in RAM_BASE .. RAM_BASE + RAM_BYTES - 1 |-> ram'[c]]
         /\ "psram" \in DOMAIN store'
         /\ store'["psram"] = [x \in Index |-> store'["psram"][x]]
         /\ \A c \in Cells : Cell(c)' = IF c = a THEN ToBits(v, 8) ELSE Cell(c)
<1>1. mode = FALSE /\ Region(a, mode) = "psram"
  BY Places DEF Framed
<1>2. ram = [c \in RAM_BASE .. RAM_BASE + RAM_BYTES - 1 |-> ram[c]]
      /\ "psram" \in DOMAIN store
      /\ store["psram"] = [x \in Index |-> store["psram"][x]]
  BY DEF Framed
<1>3. ram' = ram
  BY <1>1 DEF StoreRam
<1> DEFINE at_cell(c) == Idx(ToBits(c - EXT_PSRAM_BASE, 24))
<1>4. a \in Int /\ EXT_PSRAM_BASE \in Int /\ (a - EXT_PSRAM_BASE) + 0 = a - EXT_PSRAM_BASE
  BY Places, BootFacts
<1>5. \A c \in Cells : ~in_ram_range(c) => c - EXT_PSRAM_BASE \in 0 .. EXT_PSRAM_BYTES - 1
  BY Places
<1>6. \A c \in Cells : ~in_ram_range(c) => at_cell(c) \in Index
  <2>1. \A n \in 0 .. EXT_PSRAM_BYTES - 1 : n \in 0 .. 255
    BY BootFacts
  <2> QED  BY <1>5, <2>1, InIndex
<1>7. \A c \in Cells : ~in_ram_range(c) /\ at_cell(c) = at_cell(a) => c = a
  <2> SUFFICES ASSUME NEW c \in Cells, ~in_ram_range(c), at_cell(c) = at_cell(a)
               PROVE  c = a
    OBVIOUS
  <2>1. c - EXT_PSRAM_BASE = a - EXT_PSRAM_BASE
    BY <1>5, PlacesDiffer, Zenon
  <2>2. c \in Int
    BY BootFacts DEF Cells
  <2> QED  BY <1>4, <2>1, <2>2
<1>8. store' = [store EXCEPT !["psram"] =
                  [store["psram"] EXCEPT ![at_cell(a)] = ToBits(v, 8)]]
  <2> DEFINE p == a - EXT_PSRAM_BASE
  <2>1. p + 0 = p
    BY <1>4
  <2> HIDE DEF p
  <2>2. StorePsram(store, mode, a, 1, wd)
          = [store EXCEPT !["psram"] = [store["psram"] EXCEPT ![Idx(ToBits(p + 0, 24))] = Lane(wd, 0)]]
    BY <1>1 DEF StorePsram, p
  <2>3. Idx(ToBits(p, 24)) = at_cell(a)
    BY DEF p
  <2> QED  BY <2>1, <2>2, <2>3
<1> HIDE DEF at_cell
<1>9. /\ "psram" \in DOMAIN store'
      /\ store'["psram"] = [store["psram"] EXCEPT ![at_cell(a)] = ToBits(v, 8)]
  BY <1>2, <1>8
<1>10. /\ store'["psram"] = [x \in Index |-> store'["psram"][x]]
       /\ \A x \in Index : store'["psram"][x] = IF x = at_cell(a) THEN ToBits(v, 8)
                                                ELSE store["psram"][x]
  BY <1>2, <1>9
<1>11. \A c \in Cells : /\ Cell(c) = IF in_ram_range(c) THEN ram[c] ELSE store["psram"][at_cell(c)]
                        /\ Cell(c)' = IF in_ram_range(c) THEN ram[c]
                                      ELSE store'["psram"][at_cell(c)]
  BY <1>3 DEF Cell, at_cell
<1>12. \A c \in Cells : Cell(c)' = IF c = a THEN ToBits(v, 8) ELSE Cell(c)
  BY <1>6, <1>7, <1>10, <1>11
<1> QED  BY <1>2, <1>3, <1>9, <1>10, <1>12

LEMMA StoreLine ==
  ASSUME Fitting, NEW r \in 1 .. 9, NEW b \in 0 .. 9, NEW imm \in 0 .. 255,
         Runs(SB(r, b, imm)), Of(b) + imm \in Cells
  PROVE  Stores(Of(b) + imm, Of(r), pc + 4)
<1> DEFINE w == SB(r, b, imm)
           v == Of(r)
           n == Of(b)
           wd == Num(v)
<1>1. /\ r \in 0 .. 9 /\ r \in 0 .. 31 /\ b \in 0 .. 31 /\ imm \in Int
  OBVIOUS
<1>2. /\ (pc + 4) % 256 = pc + 4 /\ Framed /\ Steps(w)
      /\ Reg(regs, r) = wd /\ v \in 0 .. 255 /\ Reg(regs, b) = Num(n) /\ n \in 0 .. 255
  BY <1>1, RunFacts
<1>3. AccessMnemonics(r, b, imm, regs, pc)
  BY <1>1, AccessesMean, Zenon
<1>4. StoresTo(w, regs, pc, r, Num(n), imm, 0)
  BY <1>2, <1>3 DEF AccessMnemonics
<1> HIDE DEF w, v, n
<1> DEFINE a == n + imm
<1>5. a \in Cells /\ a \in 0 .. 239 /\ a <= 255
  <2>1. a \in Cells
    BY DEF n
  <2> HIDE DEF a
  <2>2. Cells \subseteq 0 .. 239
    BY Places
  <2> QED  BY <2>1, <2>2
<1>6. Addr8(Add(Num(n), Signed12(imm))) = a
  BY <1>2, <1>5, AddressOf, Zenon
<1>7. a # LED_OUT /\ a # FLASH_MODE /\ a # FLASH_PAGE
  BY <1>5 DEF LED_OUT, FLASH_MODE, FLASH_PAGE
<1> HIDE DEF a, wd
<1>8. /\ Opcode(w) = OP_STORE /\ Addr8(AluY(w, regs)) = a /\ Bytes(AccessSize(w)) = 1
      /\ Reg(regs, Rs2(w)) = wd /\ NextPc(w, regs, pc) = pc + 4
      /\ \A y, rdata : WriteBack(w, regs, pc, y, rdata) = regs
  BY <1>2, <1>4, <1>6 DEF StoresTo, Bytes
<1>9. /\ pc' = pc + 4 /\ regs' = regs
      /\ ram' = StoreRam(ram, mode, a, 1, wd) /\ store' = StorePsram(store, mode, a, 1, wd)
      /\ UNCHANGED <<out, mode, page, rom>>
      /\ stall' = IF in_ext_psram(a) THEN PsramTime - 1 ELSE 0
  <2>1. mode = FALSE
    BY <1>2 DEF Framed
  <2> QED  BY <1>2, <1>7, <1>8, <2>1, OpsDiffer DEF Steps
<1>10. Lane(wd, 0) = ToBits(v, 8)
  BY <1>2, NumFacts DEF wd
<1>11. /\ ram' = [c \in RAM_BASE .. RAM_BASE + RAM_BYTES - 1 |-> ram'[c]]
       /\ "psram" \in DOMAIN store'
       /\ store'["psram"] = [x \in Index |-> store'["psram"][x]]
       /\ \A c \in Cells : Cell(c)' = IF c = a THEN ToBits(v, 8) ELSE Cell(c)
  BY <1>2, <1>5, <1>9, <1>10, RamCells, PsramCells, Zenon
<1>12. Framed' /\ cells' = [cells EXCEPT ![a] = v] /\ file' = file
  <2>1. UNCHANGED <<rom, mode, page, regs>>
    BY <1>9
  <2> QED  BY <1>2, <1>5, <1>11, <2>1, CellsAfter, Zenon
<1>13. Stores(a, v, pc + 4)
  BY <1>9, <1>12 DEF Stores
<1> QED  BY <1>13 DEF a, n, v

\* One that shows v on the output pins.
Emits(v, to) ==
  /\ Framed'
  /\ pc' = to
  /\ out' = ToBits(v, 8)
  /\ UNCHANGED <<file, cells>>
  /\ stall' = 0

\* One that loads from the PSRAM.
Probes(rd, to) ==
  /\ Framed'
  /\ pc' = to
  /\ file' = PutFile(file, rd, cells[EXT_PSRAM_BASE])
  /\ UNCHANGED <<cells, out>>
  /\ stall' = PsramTime - 1

LEMMA OutLine ==
  ASSUME NEW r \in 1 .. 9, Runs(SW(r, 0, LED_OUT))
  PROVE  Emits(Of(r), pc + 4)
<1> DEFINE w == SW(r, 0, LED_OUT)
           v == Of(r)
<1>0. /\ 0 \in 0 .. 9 /\ 0 \in 0 .. 255 /\ Of(0) = 0 /\ LED_OUT \in 0 .. 255 /\ LED_OUT \in Int
      /\ 0 + LED_OUT = LED_OUT /\ 0 + LED_OUT <= 255
      /\ r \in 0 .. 9 /\ r \in 0 .. 31 /\ 0 \in 0 .. 31
  BY DEF Of, LED_OUT
<1>1. /\ (pc + 4) % 256 = pc + 4 /\ Framed /\ Steps(w)
      /\ Reg(regs, r) = Num(v) /\ v \in 0 .. 255 /\ Reg(regs, 0) = Num(0)
  BY <1>0, RunFacts
<1>2. AccessMnemonics(r, 0, LED_OUT, regs, pc)
  BY <1>0, AccessesMean, Zenon
<1>3. StoresTo(w, regs, pc, r, Num(0), LED_OUT, 2)
  BY <1>1, <1>2 DEF AccessMnemonics
<1>4. Addr8(Add(Num(0), Signed12(LED_OUT))) = LED_OUT
  BY <1>0, AddressOf, Zenon
<1> HIDE DEF w, v
<1>5. /\ Opcode(w) = OP_STORE /\ Addr8(AluY(w, regs)) = LED_OUT /\ Bytes(AccessSize(w)) = 4
      /\ Reg(regs, Rs2(w)) = Num(v) /\ NextPc(w, regs, pc) = pc + 4
      /\ \A y, rdata : WriteBack(w, regs, pc, y, rdata) = regs
  BY <1>1, <1>3, <1>4 DEF StoresTo, Bytes
<1>6. mode = FALSE /\ Region(LED_OUT, mode) = "register" /\ ~in_ext_psram(LED_OUT)
      /\ LED_OUT # FLASH_MODE /\ LED_OUT # FLASH_PAGE
  <2>1. mode = FALSE
    BY <1>1 DEF Framed
  <2>2. LED_OUT # FLASH_MODE /\ LED_OUT # FLASH_PAGE
    BY DEF LED_OUT, FLASH_MODE, FLASH_PAGE
  <2> QED  BY <2>1, <2>2, Places, Zenon
<1>7. /\ StoreRam(ram, mode, LED_OUT, 4, Num(v)) = ram
      /\ StorePsram(store, mode, LED_OUT, 4, Num(v)) = store
  BY <1>6 DEF StoreRam, StorePsram
<1>8. /\ pc' = pc + 4 /\ regs' = regs /\ stall' = 0 /\ out' = Lane(Num(v), 0)
      /\ UNCHANGED <<ram, store, mode, page, rom>>
  BY <1>1, <1>5, <1>6, <1>7, OpsDiffer DEF Steps
<1>9. Framed' /\ file' = file /\ cells' = cells
  <2>1. regs' = Put(regs, 0, Num(0))
    BY <1>8 DEF Put
  <2> QED  BY <1>0, <1>1, <1>8, <2>1, PutKeeps DEF PutFile
<1>10. Lane(Num(v), 0) = ToBits(v, 8)
  BY <1>1, NumFacts
<1>11. Emits(v, pc + 4)
  BY <1>8, <1>9, <1>10 DEF Emits
<1> QED  BY <1>11 DEF v

LEMMA ProbeLine ==
  ASSUME NEW rd \in 0 .. 9, Runs(LBU(rd, 0, EXT_PSRAM_BASE))
  PROVE  Probes(rd, pc + 4)
<1> DEFINE p == EXT_PSRAM_BASE
           w == LBU(rd, 0, p)
           x == cells[p]
<1>0. /\ 0 \in 0 .. 9 /\ 0 \in 0 .. 255 /\ Of(0) = 0 /\ p \in 0 .. 255 /\ p \in Int
      /\ 0 + p = p /\ 0 + p <= 255 /\ rd \in 0 .. 31 /\ 0 \in 0 .. 31
  BY BootFacts DEF Of
<1>1. /\ (pc + 4) % 256 = pc + 4 /\ Framed /\ Steps(w) /\ Reg(regs, 0) = Num(0)
  BY <1>0, RunFacts
<1>2. AccessMnemonics(rd, 0, p, regs, pc)
  BY <1>0, AccessesMean, Zenon
<1>3. LoadsFrom(w, regs, pc, rd, Num(0), p, 0, TRUE)
  BY <1>1, <1>2 DEF AccessMnemonics
<1>4. Addr8(Add(Num(0), Signed12(p))) = p
  BY <1>0, AddressOf, Zenon
<1>5. p \in Cells /\ ~in_ram_range(p) /\ in_ext_psram(p) /\ Region(p, FALSE) = "psram"
  <2>1. p \in Cells
    BY Places
  <2>2. ~in_ram_range(p)
    BY BootFacts DEF in_ram_range
  <2> QED  BY <2>1, <2>2, Places
<1>6. mode = FALSE /\ x \in 0 .. 255 /\ Cell(p) = ToBits(x, 8)
  BY <1>1, <1>5 DEF Framed
<1> HIDE DEF w, x
<1>7. /\ Opcode(w) = OP_LOAD /\ Opcode(w) # OP_STORE /\ Addr8(AluY(w, regs)) = p
      /\ Bytes(AccessSize(w)) = 1 /\ NextPc(w, regs, pc) = pc + 4
      /\ \A y, rdata : WriteBack(w, regs, pc, y, rdata) = Put(regs, rd, Extend(rdata, 8, 0))
  BY <1>1, <1>3, <1>4, OpsDiffer DEF LoadsFrom, Widened, Bytes
<1>8. ReadsAt(p, 1) = Wide(Cell(p))
  <2>1. ReadsAt(p, 1) = [i \in 0 .. 31 |-> IF i < 8 * 1
                           THEN ByteAt(rom, ram, store, mode, page, p + (i \div 8))[i % 8]
                           ELSE 0]
    BY <1>5, <1>6 DEF ReadsAt, LoadAt
  <2>2. \A i \in 0 .. 31 : i < 8 => p + (i \div 8) = p /\ i % 8 = i
    BY <1>0
  <2>3. ByteAt(rom, ram, store, mode, page, p) = Cell(p)
    BY <1>5, <1>6 DEF ByteAt, Cell
  <2> QED  BY <2>1, <2>2, <2>3 DEF Wide
<1>9. Extend(ReadsAt(p, 1), 8, 0) = Num(x)
  <2>1. Wide(ToBits(x, 8)) = Num(x)
    BY <1>6, NumFacts
  <2>2. Extend(Wide(Cell(p)), 8, 0) = Wide(Cell(p))
    BY DEF Extend, Wide
  <2> QED  BY <1>6, <1>8, <2>1, <2>2
<1>10. /\ pc' = pc + 4 /\ regs' = Put(regs, rd, Num(x))
       /\ UNCHANGED <<ram, store, out, mode, page, rom>> /\ stall' = PsramTime - 1
  BY <1>1, <1>5, <1>7, <1>9 DEF Steps
<1>11. Framed' /\ file' = PutFile(file, rd, x) /\ cells' = cells
  BY <1>1, <1>6, <1>10, PutKeeps
<1> QED  BY <1>10, <1>11 DEF Probes, x

\* The stub has run: the next instruction is behind it, in page 0 of the flash.
HandsOff ==
  /\ mode' = TRUE /\ page' = 0
  /\ pc' = (LOAD_BASE + 4) % 256
  /\ regs' = regs
  /\ stall' = 0

\* The image begins with the stub.
StubInCells ==
  \A j \in 0 .. 3 : LOAD_BASE + j \in Cells
                    /\ cells[LOAD_BASE + j] = Val(ProgramByte(Stub, j), 8)

LEMMA ByteOfDigits ==
  ASSUME NEW b, b = [i \in 0 .. 7 |-> b[i]], \A i \in 0 .. 7 : b[i] \in {0, 1}
  PROVE  ToBits(Val(b, 8), 8) = b
<1> DEFINE x == Val(b, 8)
<1>1. Digits(b, x)
  BY DEF Digits, Val
<1> HIDE DEF x
<1>2. \A i \in 0 .. 7 : b[i] = Bit(x, i)
  BY <1>1, DigitsAreBits
<1>3. \A i \in 0 .. 7 : ToBits(x, 8)[i] = Bit(x, i) /\ i < 30
  BY DEF ToBits, Bit
<1>4. ToBits(x, 8) = [i \in 0 .. 7 |-> ToBits(x, 8)[i]]
  BY DEF ToBits
<1>5. ToBits(x, 8) = [i \in 0 .. 7 |-> b[i]]
  <2> HIDE DEF ToBits
  <2> QED  BY <1>2, <1>3, <1>4
<1> QED  BY <1>5 DEF x

LEMMA StubLine ==
  ASSUME Framed, Instruction, pc = LOAD_BASE, StubInCells
  PROVE  HandsOff
<1> DEFINE w == SW(0, 0, FLASH_MODE)
<1>1. Steps(ReadsAt(pc, 4))
  BY InstructionIs
<1>2. mode = FALSE /\ LOAD_BASE \in 0 .. 252 /\ Region(LOAD_BASE, FALSE) = "ram"
  <2>1. mode = FALSE /\ LOAD_BASE \in 0 .. 252
    BY BootFacts DEF Framed
  <2>2. in_ram_range(LOAD_BASE)
    BY BootFacts DEF in_ram_range
  <2>3. LOAD_BASE + 0 = LOAD_BASE
    BY <2>1
  <2>4. LOAD_BASE \in Cells
    BY <2>3 DEF StubInCells
  <2> QED  BY <2>1, <2>2, <2>4, Places
<1>3. \A j \in 0 .. 3 : Region(LOAD_BASE + j, FALSE) = "ram"
  <2>1. InContract(LOAD_BASE, 4, FALSE)
    BY <1>1, <1>2 DEF Steps
  <2>2. \A j \in 0 .. 3 : j \in 0 .. 4 - 1
    OBVIOUS
  <2>3. \A k \in 0 .. 4 - 1 : Region(LOAD_BASE + k, FALSE) = Region(LOAD_BASE, FALSE)
    BY <2>1, Zenon DEF InContract
  <2> QED  BY <1>2, <2>2, <2>3, Zenon
<1>4. IsWord(w) /\ \A i \in 0 .. 31 : w[i] \in {0, 1}
  <2>1. IsWord(w)
    BY AreWords, Zenon DEF SW, EncS
  <2>2. \A f7, rs2, rs1, f3, rd, op \in Int : \A i \in 0 .. 31 :
          EncR(f7, rs2, rs1, f3, rd, op)[i] \in {0, 1}
    <3> SUFFICES ASSUME NEW f7 \in Int, NEW rs2 \in Int, NEW rs1 \in Int, NEW f3 \in Int,
                        NEW rd \in Int, NEW op \in Int, NEW i \in 0 .. 31
                 PROVE  EncR(f7, rs2, rs1, f3, rd, op)[i] \in {0, 1}
      OBVIOUS
    <3>1. \A x \in Int, n \in 0 .. 7 : Bit(x, n) \in {0, 1}
      <4> SUFFICES ASSUME NEW x \in Int, NEW n \in 0 .. 7
                   PROVE  Bit(x, n) \in {0, 1}
        OBVIOUS
      <4>1. 2^n \in Nat /\ 2^n > 0
        <5>1. \/ n = 0 \/ n = 1 \/ n = 2 \/ n = 3 \/ n = 4 \/ n = 5 \/ n = 6 \/ n = 7
          OBVIOUS
        <5>2. /\ 2^0 > 0 /\ 2^1 > 0 /\ 2^2 > 0 /\ 2^3 > 0 /\ 2^4 > 0 /\ 2^5 > 0
              /\ 2^6 > 0 /\ 2^7 > 0 /\ 2^0 \in Nat /\ 2^1 \in Nat /\ 2^2 \in Nat
              /\ 2^3 \in Nat /\ 2^4 \in Nat /\ 2^5 \in Nat /\ 2^6 \in Nat /\ 2^7 \in Nat
          BY BytePowers
        <5> QED  BY <5>1, <5>2, Zenon
      <4> DEFINE d == 2^n
                 q == x \div d
      <4>2. d \in Nat /\ d > 0
        BY <4>1
      <4> HIDE DEF d
      <4>3. q \in Int
        BY <4>2
      <4> HIDE DEF q
      <4>4. q % 2 \in {0, 1}
        BY <4>3
      <4> QED  BY <4>4 DEF Bit, d, q
    <3>2. /\ i < 7 => i \in 0 .. 7
          /\ i \in 7 .. 11 => i - 7 \in 0 .. 7
          /\ i \in 12 .. 14 => i - 12 \in 0 .. 7
          /\ i \in 15 .. 19 => i - 15 \in 0 .. 7
          /\ i \in 20 .. 24 => i - 20 \in 0 .. 7
          /\ i >= 25 => i - 25 \in 0 .. 7
      OBVIOUS
    <3>3. \/ i < 7 \/ i \in 7 .. 11 \/ i \in 12 .. 14 \/ i \in 15 .. 19 \/ i \in 20 .. 24
          \/ i >= 25
      OBVIOUS
    <3> HIDE DEF Bit
    <3> QED  BY <3>1, <3>2, <3>3 DEF EncR
  <2>3. OP_STORE \in Int /\ FLASH_MODE \div 32 \in Int /\ FLASH_MODE % 32 \in Int
        /\ 0 \in Int /\ 2 \in Int
    BY DEF OP_STORE, FLASH_MODE
  <2>4. w = EncR(FLASH_MODE \div 32, 0, 0, 2, FLASH_MODE % 32, OP_STORE)
    BY Zenon DEF SW, EncS
  <2>5. \A i \in 0 .. 31 :
          EncR(FLASH_MODE \div 32, 0, 0, 2, FLASH_MODE % 32, OP_STORE)[i] \in {0, 1}
    BY <2>2, <2>3, Zenon
  <2> QED  BY <2>1, <2>4, <2>5, Zenon
<1>5. \A j \in 0 .. 3 : ProgramByte(Stub, j) = Lane(w, j)
  <2>1. \A j \in 0 .. 3 : j \div 4 = 0 /\ j % 4 = j
    OBVIOUS
  <2>2. Stub[1] = w /\ 0 + 1 = 1
    BY DEF Stub
  <2> HIDE DEF w
  <2> QED  BY <2>1, <2>2 DEF ProgramByte
<1> HIDE DEF w
<1>6. \A j \in 0 .. 3 : ToBits(Val(Lane(w, j), 8), 8) = Lane(w, j)
  <2> SUFFICES ASSUME NEW j \in 0 .. 3
               PROVE  ToBits(Val(Lane(w, j), 8), 8) = Lane(w, j)
    OBVIOUS
  <2>1. \A i \in 0 .. 7 : 8 * j + i \in 0 .. 31 /\ Lane(w, j)[i] = w[8 * j + i]
    BY DEF Lane
  <2>2. Lane(w, j) = [i \in 0 .. 7 |-> Lane(w, j)[i]]
    BY DEF Lane
  <2>3. \A i \in 0 .. 7 : Lane(w, j)[i] \in {0, 1}
    BY <1>4, <2>1
  <2> QED  BY <2>2, <2>3, ByteOfDigits, Zenon
<1>7. \A j \in 0 .. 3 : ram[LOAD_BASE + j] = Lane(w, j)
  <2> SUFFICES ASSUME NEW j \in 0 .. 3
               PROVE  ram[LOAD_BASE + j] = Lane(w, j)
    OBVIOUS
  <2> DEFINE a == LOAD_BASE + j
  <2>1. a \in Cells /\ cells[a] = Val(Lane(w, j), 8)
    BY <1>5 DEF StubInCells
  <2>2. Region(a, FALSE) = "ram"
    BY <1>3
  <2> HIDE DEF a
  <2>3. Cell(a) = ToBits(cells[a], 8)
    BY <2>1 DEF Framed
  <2>4. in_ram_range(a)
    BY <2>1, <2>2, Places
  <2> QED  BY <1>6, <2>1, <2>3, <2>4 DEF Cell, a
<1>8. ReadsAt(pc, 4) = w
  <2>1. ReadsAt(LOAD_BASE, 4) = [i \in 0 .. 31 |-> IF i < 8 * 4 THEN
                ByteAt(rom, ram, store, mode, page, LOAD_BASE + (i \div 8))[i % 8] ELSE 0]
    BY <1>2 DEF ReadsAt, LoadAt
  <2>2. \A j \in 0 .. 3 : ByteAt(rom, ram, store, mode, page, LOAD_BASE + j) = Lane(w, j)
    BY <1>2, <1>3, <1>7 DEF ByteAt
  <2>3. \A i \in 0 .. 31 : i \div 8 \in 0 .. 3 /\ i < 8 * 4 /\ i % 8 \in 0 .. 7
                           /\ 8 * (i \div 8) + (i % 8) = i
    OBVIOUS
  <2>4. \A i \in 0 .. 31 : Lane(w, i \div 8)[i % 8] = w[i]
    <3> SUFFICES ASSUME NEW i \in 0 .. 31
                 PROVE  Lane(w, i \div 8)[i % 8] = w[i]
      OBVIOUS
    <3>1. i % 8 \in 0 .. 7 /\ 8 * (i \div 8) + (i % 8) = i
      OBVIOUS
    <3> QED  BY <3>1 DEF Lane
  <2>5. ReadsAt(LOAD_BASE, 4) = [i \in 0 .. 31 |-> w[i]]
    BY <2>1, <2>2, <2>3, <2>4
  <2> QED  BY <1>4, <2>5 DEF IsWord
<1>9. StoresTo(w, regs, pc, 0, Num(0), FLASH_MODE, 2)
  <2>1. 0 \in 0 .. 31 /\ FLASH_MODE \in Int
    BY DEF FLASH_MODE
  <2>2. AccessMnemonics(0, 0, FLASH_MODE, regs, pc)
    BY <2>1, AccessesMean, Zenon
  <2>3. Reg(regs, 0) = Num(0)
    BY Registers
  <2> QED  BY <2>2, <2>3 DEF AccessMnemonics, w
<1>10. Addr8(Add(Num(0), Signed12(FLASH_MODE))) = FLASH_MODE
  <2>1. 0 \in 0 .. 255 /\ FLASH_MODE \in 0 .. 255 /\ 0 + FLASH_MODE = FLASH_MODE
        /\ 0 + FLASH_MODE <= 255
    BY DEF FLASH_MODE
  <2> QED  BY <2>1, AddressOf, Zenon
<1>11. /\ Opcode(w) = OP_STORE /\ Addr8(AluY(w, regs)) = FLASH_MODE
       /\ NextPc(w, regs, pc) = (pc + 4) % 256
       /\ \A y, rdata : WriteBack(w, regs, pc, y, rdata) = regs
  BY <1>9, <1>10 DEF StoresTo
<1>12. Steps(w) /\ page = 0
  BY <1>1, <1>8 DEF Framed
<1>13. FLASH_MODE # FLASH_PAGE /\ ~in_ext_psram(FLASH_MODE)
  BY BootFacts, BootAssumption, MapFacts, Places DEF FLASH_MODE, FLASH_PAGE, in_ext_psram
<1> QED  BY <1>11, <1>12, <1>13 DEF Steps, HandsOff

\* The words of the ROM, one by one.

LEMMA MnemonicWords ==
  /\ \A a, b, c : /\ IsWord(ADDI(a, b, c)) /\ IsWord(ANDI(a, b, c)) /\ IsWord(ORI(a, b, c))
                  /\ IsWord(SLLI(a, b, c)) /\ IsWord(ADD(a, b, c)) /\ IsWord(OR(a, b, c))
                  /\ IsWord(LW(a, b, c)) /\ IsWord(LBU(a, b, c)) /\ IsWord(SB(a, b, c))
                  /\ IsWord(SW(a, b, c)) /\ IsWord(JALR(a, b, c)) /\ IsWord(JAL(a, b, c))
  /\ \A a, b, c, d : IsWord(BEQ(a, b, c, d)) /\ IsWord(BNE(a, b, c, d)) /\ IsWord(BLT(a, b, c, d))
<1>1. \A a, b, c, d, e : IsWord(EncI(a, b, c, d, e))
  BY AreWords, SMT DEF EncI
<1>2. \A a, b, c, d : IsWord(EncS(a, b, c, d))
  BY AreWords, SMT DEF EncS
<1>3. \A a, b, c, d, e : IsWord(Branch(a, b, c, d, e))
  BY AreWords, SMT DEF Branch
<1>4. \A a, b, c : IsWord(JAL(a, b, c))
  BY AreWords, SMT DEF JAL
<1>5. \A a, b, c, d, e, f : IsWord(EncR(a, b, c, d, e, f))
  BY AreWords
<1> QED
  BY <1>1, <1>2, <1>3, <1>4, <1>5, SMT
     DEF ADDI, ANDI, ORI, SLLI, ADD, OR, LW, LBU, SB, SW, JALR, BEQ, BNE, BLT

LEMMA SelfTestWords ==
  /\ BootCode[1] = ADDI(2, 0, 165)
  /\ BootCode[2] = SB(2, 0, EXT_PSRAM_BASE)
  /\ BootCode[3] = LBU(6, 0, EXT_PSRAM_BASE)
  /\ BootCode[4] = BEQ(6, 2, 12, SELFTEST_PASS)
  /\ BootCode[5] = ADDI(8, 0, 1)
  /\ BootCode[6] = SLLI(8, 8, 7)
  /\ BootCode[7] = JAL(0, 24, MAIN_INIT)
  /\ BootCode[8] = ADDI(8, 0, 0)
  /\ BootCode[9] = ADDI(9, 0, 0)
BY CodeParts DEF SelfTestCode

LEMMA MainLoopWords ==
  /\ BootCode[10] = LW(2, 0, SW_IN)
  /\ BootCode[11] = ANDI(2, 2, START_MASK)
  /\ BootCode[12] = BNE(2, 0, 44, START_SEEN)
  /\ BootCode[13] = ADDI(9, 9, 1)
  /\ BootCode[14] = ANDI(9, 9, 15)
  /\ BootCode[15] = OR(2, 8, 9)
  /\ BootCode[16] = SW(2, 0, LED_OUT)
  /\ BootCode[17] = JAL(0, 64, MAIN_LOOP)
BY CodeParts DEF MainLoopCode

LEMMA BootloadWords ==
  /\ BootCode[18] = JAL(1, START_SEEN, RECV_BYTE)
  /\ BootCode[19] = ADD(4, 6, 0)
  /\ BootCode[20] = ADDI(5, 0, LOAD_BASE)
  /\ BootCode[21] = BEQ(4, 0, BYTE_LOOP, RUN)
  /\ BootCode[22] = JAL(1, 84, RECV_BYTE)
  /\ BootCode[23] = SB(6, 5, 0)
  /\ BootCode[24] = ADDI(5, 5, 1)
  /\ BootCode[25] = ADDI(4, 4, -1)
  /\ BootCode[26] = JAL(0, 100, BYTE_LOOP)
  /\ BootCode[27] = JAL(0, RUN, LOAD_BASE)
BY CodeParts DEF BootloadCode

LEMMA RecvByteWords ==
  /\ BootCode[28] = ADDI(6, 0, 0)
  /\ BootCode[29] = ADDI(7, 0, 0)
  /\ BootCode[30] = LW(2, 0, SW_IN)
  /\ BootCode[31] = ANDI(2, 2, CLOCK_MASK)
  /\ BootCode[32] = BEQ(2, 0, 124, BIT_WAIT_HIGH)
  /\ BootCode[33] = LW(2, 0, SW_IN)
  /\ BootCode[34] = ANDI(2, 2, DATA_MASK)
  /\ BootCode[35] = SLLI(6, 6, 1)
  /\ BootCode[36] = BEQ(2, 0, 140, BIT_WAIT_LOW)
  /\ BootCode[37] = ORI(6, 6, 1)
  /\ BootCode[38] = LW(2, 0, SW_IN)
  /\ BootCode[39] = ANDI(2, 2, CLOCK_MASK)
  /\ BootCode[40] = BNE(2, 0, 156, BIT_WAIT_LOW)
  /\ BootCode[41] = ADDI(7, 7, 1)
  /\ BootCode[42] = ADDI(3, 0, 8)
  /\ BootCode[43] = BLT(7, 3, 168, BIT_WAIT_HIGH)
  /\ BootCode[44] = JALR(0, 1, 0)
BY CodeParts DEF RecvByteCode, ClearByte

LEMMA AllWords == \A k \in 0 .. 43 : IsWord(BootCode[k + 1])
<1>1. /\ IsWord(BootCode[1]) /\ IsWord(BootCode[2]) /\ IsWord(BootCode[3]) /\ IsWord(BootCode[4])
      /\ IsWord(BootCode[5]) /\ IsWord(BootCode[6]) /\ IsWord(BootCode[7]) /\ IsWord(BootCode[8])
      /\ IsWord(BootCode[9])
  BY SelfTestWords, MnemonicWords, SMT
<1>2. /\ IsWord(BootCode[10]) /\ IsWord(BootCode[11]) /\ IsWord(BootCode[12]) /\ IsWord(BootCode[13])
      /\ IsWord(BootCode[14]) /\ IsWord(BootCode[15]) /\ IsWord(BootCode[16]) /\ IsWord(BootCode[17])
  BY MainLoopWords, MnemonicWords, SMT
<1>3. /\ IsWord(BootCode[18]) /\ IsWord(BootCode[19]) /\ IsWord(BootCode[20]) /\ IsWord(BootCode[21])
      /\ IsWord(BootCode[22]) /\ IsWord(BootCode[23]) /\ IsWord(BootCode[24]) /\ IsWord(BootCode[25])
      /\ IsWord(BootCode[26]) /\ IsWord(BootCode[27])
  BY BootloadWords, MnemonicWords, SMT
<1>4. /\ IsWord(BootCode[28]) /\ IsWord(BootCode[29]) /\ IsWord(BootCode[30]) /\ IsWord(BootCode[31])
      /\ IsWord(BootCode[32]) /\ IsWord(BootCode[33]) /\ IsWord(BootCode[34]) /\ IsWord(BootCode[35])
      /\ IsWord(BootCode[36]) /\ IsWord(BootCode[37]) /\ IsWord(BootCode[38]) /\ IsWord(BootCode[39])
      /\ IsWord(BootCode[40]) /\ IsWord(BootCode[41]) /\ IsWord(BootCode[42]) /\ IsWord(BootCode[43])
      /\ IsWord(BootCode[44])
  BY RecvByteWords, MnemonicWords, SMT
<1> QED  BY <1>1, <1>2, <1>3, <1>4

LEMMA Fetch ==
  ASSUME Fitting, Framed, Instruction, DATA \in {0, 1}, NEW k \in 0 .. 43, pc = 4 * k
  PROVE  stall = 0 /\ Runs(BootCode[k + 1])
<1>1. stall = 0 /\ Steps(ReadsAt(pc, 4))
  BY InstructionIs
<1>2. rom = RomImage /\ RomFits /\ IsWord(BootCode[k + 1])
  BY AllWords DEF Framed, Fitting
<1>3. ReadsAt(pc, 4) = BootCode[k + 1]
  BY <1>2, RomLine
<1>4. pc \in 0 .. 251
  OBVIOUS
<1> QED  BY <1>1, <1>3, <1>4 DEF Runs

-----------------------------------------------------------------------------
\* The listing: what each word of the ROM does to the registers, the cells and
\* the output pins.

reg1 == file[1]
reg2 == file[2]
reg3 == file[3]
reg4 == file[4]
reg5 == file[5]
reg6 == file[6]
reg7 == file[7]
reg8 == file[8]
reg9 == file[9]

\* v in register rd; the other registers keep theirs.
PutReg(rd, v) ==
  /\ reg1' = IF rd = 1 THEN v ELSE reg1
  /\ reg2' = IF rd = 2 THEN v ELSE reg2
  /\ reg3' = IF rd = 3 THEN v ELSE reg3
  /\ reg4' = IF rd = 4 THEN v ELSE reg4
  /\ reg5' = IF rd = 5 THEN v ELSE reg5
  /\ reg6' = IF rd = 6 THEN v ELSE reg6
  /\ reg7' = IF rd = 7 THEN v ELSE reg7
  /\ reg8' = IF rd = 8 THEN v ELSE reg8
  /\ reg9' = IF rd = 9 THEN v ELSE reg9

\* The next word is at `to`, and the registers, the cells and the pins are
\* these.
Follows(to) == stall = 0 /\ Framed' /\ pc' = to

Loads(rd, v, to) ==
  Follows(to) /\ PutReg(rd, v) /\ UNCHANGED <<cells, out>> /\ stall' = 0

Keeps(a, v, to) ==
  /\ Follows(to) /\ PutReg(0, 0) /\ UNCHANGED out
  /\ cells' = [cells EXCEPT ![a] = v]
  /\ stall' = StoreTime(a) - 1

Shows(v, to) ==
  Follows(to) /\ PutReg(0, 0) /\ UNCHANGED cells /\ out' = ToBits(v, 8) /\ stall' = 0

Checks(rd, to) ==
  /\ Follows(to) /\ PutReg(rd, cells[EXT_PSRAM_BASE]) /\ UNCHANGED <<cells, out>>
  /\ stall' = PsramTime - 1

LEMMA RegRange ==
  ASSUME Framed
  PROVE  /\ reg1 \in 0 .. 255 /\ reg2 \in 0 .. 255 /\ reg3 \in 0 .. 255
         /\ reg4 \in 0 .. 255 /\ reg5 \in 0 .. 255 /\ reg6 \in 0 .. 255
         /\ reg7 \in 0 .. 255 /\ reg8 \in 0 .. 255 /\ reg9 \in 0 .. 255
BY DEF Framed, reg1, reg2, reg3, reg4, reg5, reg6, reg7, reg8, reg9

LEMMA OfRegs ==
  /\ Of(0) = 0 /\ Of(1) = reg1 /\ Of(2) = reg2 /\ Of(3) = reg3 /\ Of(4) = reg4
  /\ Of(5) = reg5 /\ Of(6) = reg6 /\ Of(7) = reg7 /\ Of(8) = reg8 /\ Of(9) = reg9
BY DEF Of, reg1, reg2, reg3, reg4, reg5, reg6, reg7, reg8, reg9

LEMMA PutRegs ==
  ASSUME NEW rd \in 0 .. 9, NEW v, Framed, file' = PutFile(file, rd, v)
  PROVE  PutReg(rd, v)
<1>1. DOMAIN file = 1 .. 9
  BY DEF file
<1>2. \A n \in 1 .. 9 : file'[n] = IF rd = n THEN v ELSE file[n]
  BY <1>1 DEF PutFile
<1> QED
  BY <1>2 DEF PutReg, reg1, reg2, reg3, reg4, reg5, reg6, reg7, reg8, reg9

LEMMA LineLoads ==
  ASSUME NEW rd \in 0 .. 9, NEW v, NEW to, Framed, stall = 0, Quiet(rd, v, to)
  PROVE  Loads(rd, v, to)
BY PutRegs, Zenon DEF Quiet, Loads, Follows

LEMMA LineSame ==
  ASSUME Framed, file' = file
  PROVE  PutReg(0, 0)
<1>1. file' = PutFile(file, 0, 0) /\ 0 \in 0 .. 9
  BY DEF PutFile
<1> QED  BY <1>1, PutRegs, Zenon

LEMMA LineKeeps ==
  ASSUME NEW a, NEW v, NEW to, Framed, stall = 0, Stores(a, v, to)
  PROVE  Keeps(a, v, to)
<1>1. stall' = StoreTime(a) - 1
  BY DEF Stores, StoreTime
<1> QED  BY <1>1, LineSame, Zenon DEF Stores, Keeps, Follows

LEMMA LineShows ==
  ASSUME NEW v, NEW to, Framed, stall = 0, Emits(v, to)
  PROVE  Shows(v, to)
BY LineSame, Zenon DEF Emits, Shows, Follows

LEMMA LineChecks ==
  ASSUME NEW rd \in 0 .. 9, NEW to, Framed, stall = 0, Probes(rd, to)
  PROVE  Checks(rd, to)
BY PutRegs, Zenon DEF Probes, Checks, Follows

LEMMA LoadAligned == LOAD_BASE \in 0 .. 252 /\ LOAD_BASE % 4 = 0
<1>1. LOAD_BASE \in {4 * k : k \in 0 .. 63}
  BY MapAssumption
<1>2. PICK k \in 0 .. 63 : LOAD_BASE = 4 * k
  BY <1>1
<1>3. (4 * k) % 4 = 0
  OBVIOUS
<1> QED  BY <1>2, <1>3, BootFacts

\* The bench is about to execute a word of the ROM.
Listening == Fitting /\ Framed /\ Instruction /\ DATA \in {0, 1}

LEMMA SelfTestListing ==
  ASSUME Listening
  PROVE  /\ pc = 0 => Loads(2, 165, 4)
         /\ pc = 4 => Keeps(EXT_PSRAM_BASE, reg2, 8)
         /\ pc = 8 => Checks(6, 12)
         /\ pc = 12 => Loads(0, 0, IF reg6 = reg2 THEN 28 ELSE 16)
         /\ pc = 28 => Loads(8, 0, 32)
         /\ pc = 32 => Loads(9, 0, 36)
<1>0. Fitting /\ Framed /\ Instruction /\ DATA \in {0, 1}
  BY DEF Listening
<1>1. ASSUME pc = 0 PROVE Loads(2, 165, 4)
  <2>1. stall = 0 /\ Runs(BootCode[0 + 1])
    BY <1>0, <1>1, Fetch
  <2>2. stall = 0 /\ Runs(ADDI(2, 0, 165))
    BY <1>1, <2>1, SelfTestWords
  <2> DEFINE d == 2  s == 0  v == 165
  <2>3. d \in 0 .. 9 /\ s \in 0 .. 9 /\ v \in 0 .. 255 /\ Runs(ADDI(d, s, v)) /\ Of(s) + v <= 255
    BY <1>0, <1>1, <2>2, OfRegs, RegRange
  <2> HIDE DEF d, s, v
  <2>4. Quiet(d, Of(s) + v, pc + 4)
    BY <2>3, AddsLine, Zenon
  <2>5. Quiet(2, 165, 4)
    BY <1>0, <1>1, <2>4, OfRegs, RegRange DEF d, s, v
  <2> QED  BY <1>0, <2>2, <2>5, LineLoads
<1>2. ASSUME pc = 4 PROVE Keeps(EXT_PSRAM_BASE, reg2, 8)
  <2>1. stall = 0 /\ Runs(BootCode[1 + 1])
    BY <1>0, <1>2, Fetch
  <2>2. stall = 0 /\ Runs(SB(2, 0, EXT_PSRAM_BASE))
    BY <1>2, <2>1, SelfTestWords
  <2> DEFINE d == 2  s == 0  v == EXT_PSRAM_BASE
  <2>3. d \in 1 .. 9 /\ s \in 0 .. 9 /\ v \in 0 .. 255 /\ Runs(SB(d, s, v)) /\ Of(s) + v \in Cells
    BY <1>0, <1>2, <2>2, OfRegs, RegRange, BootFacts, Places
  <2> HIDE DEF d, s, v
  <2>4. Stores(Of(s) + v, Of(d), pc + 4)
    BY <1>0, <2>3, StoreLine, Zenon
  <2>5. Stores(EXT_PSRAM_BASE, reg2, 8)
    BY <1>0, <1>2, <2>4, OfRegs, RegRange, BootFacts DEF d, s, v
  <2> QED  BY <1>0, <2>2, <2>5, LineKeeps
<1>3. ASSUME pc = 8 PROVE Checks(6, 12)
  <2>1. stall = 0 /\ Runs(BootCode[2 + 1])
    BY <1>0, <1>3, Fetch
  <2>2. stall = 0 /\ Runs(LBU(6, 0, EXT_PSRAM_BASE))
    BY <1>3, <2>1, SelfTestWords
  <2>3. /\ pc + 4 = 12
    BY <1>0, <1>3, OfRegs, RegRange
  <2>4. Probes(6, pc + 4)
    BY <1>0, <2>2, <2>3, ProbeLine
  <2> QED  BY <1>0, <2>2, <2>3, <2>4, LineChecks
<1>4. ASSUME pc = 12 PROVE Loads(0, 0, IF reg6 = reg2 THEN 28 ELSE 16)
  <2>1. stall = 0 /\ Runs(BootCode[3 + 1])
    BY <1>0, <1>4, Fetch
  <2>2. stall = 0 /\ Runs(BEQ(6, 2, pc, 28))
    BY <1>4, <2>1, SelfTestWords DEF SELFTEST_PASS
  <2> DEFINE d == 6  s == 2  v == 28
  <2>3. d \in 0 .. 9 /\ s \in 0 .. 9 /\ v \in 0 .. 255 /\ (v - pc) % 2 = 0 /\ Runs(BEQ(d, s, pc, v))
    BY <1>0, <1>4, <2>2, OfRegs, RegRange
  <2> HIDE DEF d, s, v
  <2>4. Quiet(0, 0, IF Of(d) = Of(s) THEN v ELSE pc + 4)
    BY <2>3, EqualLine, Zenon
  <2>5. Quiet(0, 0, IF reg6 = reg2 THEN 28 ELSE 16)
    BY <1>0, <1>4, <2>4, OfRegs, RegRange DEF d, s, v
  <2> QED  BY <1>0, <2>2, <2>5, LineLoads
<1>5. ASSUME pc = 28 PROVE Loads(8, 0, 32)
  <2>1. stall = 0 /\ Runs(BootCode[7 + 1])
    BY <1>0, <1>5, Fetch
  <2>2. stall = 0 /\ Runs(ADDI(8, 0, 0))
    BY <1>5, <2>1, SelfTestWords
  <2> DEFINE d == 8  s == 0  v == 0
  <2>3. d \in 0 .. 9 /\ s \in 0 .. 9 /\ v \in 0 .. 255 /\ Runs(ADDI(d, s, v)) /\ Of(s) + v <= 255
    BY <1>0, <1>5, <2>2, OfRegs, RegRange
  <2> HIDE DEF d, s, v
  <2>4. Quiet(d, Of(s) + v, pc + 4)
    BY <2>3, AddsLine, Zenon
  <2>5. Quiet(8, 0, 32)
    BY <1>0, <1>5, <2>4, OfRegs, RegRange DEF d, s, v
  <2> QED  BY <1>0, <2>2, <2>5, LineLoads
<1>6. ASSUME pc = 32 PROVE Loads(9, 0, 36)
  <2>1. stall = 0 /\ Runs(BootCode[8 + 1])
    BY <1>0, <1>6, Fetch
  <2>2. stall = 0 /\ Runs(ADDI(9, 0, 0))
    BY <1>6, <2>1, SelfTestWords
  <2> DEFINE d == 9  s == 0  v == 0
  <2>3. d \in 0 .. 9 /\ s \in 0 .. 9 /\ v \in 0 .. 255 /\ Runs(ADDI(d, s, v)) /\ Of(s) + v <= 255
    BY <1>0, <1>6, <2>2, OfRegs, RegRange
  <2> HIDE DEF d, s, v
  <2>4. Quiet(d, Of(s) + v, pc + 4)
    BY <2>3, AddsLine, Zenon
  <2>5. Quiet(9, 0, 36)
    BY <1>0, <1>6, <2>4, OfRegs, RegRange DEF d, s, v
  <2> QED  BY <1>0, <2>2, <2>5, LineLoads
<1> QED  BY <1>1, <1>2, <1>3, <1>4, <1>5, <1>6

LEMMA MainLoopListing ==
  ASSUME Listening
  PROVE  /\ pc = 36 => Loads(2, Pins, 40)
         /\ pc = 40 => Loads(2, Masked(reg2, 4), 44)
         /\ pc = 44 => Loads(0, 0, IF reg2 # 0 THEN 68 ELSE 48)
         /\ pc = 48 /\ reg9 + 1 <= 255 => Loads(9, reg9 + 1, 52)
         /\ pc = 52 => Loads(9, Masked(reg9, 15), 56)
         /\ pc = 56 /\ reg8 = 0 => Loads(2, reg9, 60)
         /\ pc = 60 => Shows(reg2, 64)
         /\ pc = 64 => Loads(0, 68, 36)
<1>0. Fitting /\ Framed /\ Instruction /\ DATA \in {0, 1}
  BY DEF Listening
<1>1. ASSUME pc = 36 PROVE Loads(2, Pins, 40)
  <2>1. stall = 0 /\ Runs(BootCode[9 + 1])
    BY <1>0, <1>1, Fetch
  <2>2. stall = 0 /\ Runs(LW(2, 0, SW_IN))
    BY <1>1, <2>1, MainLoopWords
  <2>3. /\ pc + 4 = 40
    BY <1>0, <1>1, OfRegs, RegRange
  <2>4. Quiet(2, Pins, pc + 4)
    BY <1>0, <2>2, <2>3, PinsLine
  <2> QED  BY <1>0, <2>2, <2>3, <2>4, LineLoads
<1>2. ASSUME pc = 40 PROVE Loads(2, Masked(reg2, 4), 44)
  <2>1. stall = 0 /\ Runs(BootCode[10 + 1])
    BY <1>0, <1>2, Fetch
  <2>2. stall = 0 /\ Runs(ANDI(2, 2, 4))
    BY <1>2, <2>1, MainLoopWords DEF START_MASK
  <2>3. /\ pc + 4 = 44 /\ Of(2) = reg2
    BY <1>0, <1>2, OfRegs, RegRange
  <2>4. Quiet(2, Masked(Of(2), 4), pc + 4)
    BY <1>0, <2>2, <2>3, MaskLine
  <2> QED  BY <1>0, <2>2, <2>3, <2>4, LineLoads
<1>3. ASSUME pc = 44 PROVE Loads(0, 0, IF reg2 # 0 THEN 68 ELSE 48)
  <2>1. stall = 0 /\ Runs(BootCode[11 + 1])
    BY <1>0, <1>3, Fetch
  <2>2. stall = 0 /\ Runs(BNE(2, 0, pc, 68))
    BY <1>3, <2>1, MainLoopWords DEF START_SEEN
  <2> DEFINE d == 2  s == 0  v == 68
  <2>3. d \in 0 .. 9 /\ s \in 0 .. 9 /\ v \in 0 .. 255 /\ (v - pc) % 2 = 0 /\ Runs(BNE(d, s, pc, v))
    BY <1>0, <1>3, <2>2, OfRegs, RegRange
  <2> HIDE DEF d, s, v
  <2>4. Quiet(0, 0, IF Of(d) # Of(s) THEN v ELSE pc + 4)
    BY <2>3, EqualLine, Zenon
  <2>5. Quiet(0, 0, IF reg2 # 0 THEN 68 ELSE 48)
    BY <1>0, <1>3, <2>4, OfRegs, RegRange DEF d, s, v
  <2> QED  BY <1>0, <2>2, <2>5, LineLoads
<1>4. ASSUME pc = 48, reg9 + 1 <= 255 PROVE Loads(9, reg9 + 1, 52)
  <2>1. stall = 0 /\ Runs(BootCode[12 + 1])
    BY <1>0, <1>4, Fetch
  <2>2. stall = 0 /\ Runs(ADDI(9, 9, 1))
    BY <1>4, <2>1, MainLoopWords
  <2> DEFINE d == 9  s == 9  v == 1
  <2>3. d \in 0 .. 9 /\ s \in 0 .. 9 /\ v \in 0 .. 255 /\ Runs(ADDI(d, s, v)) /\ Of(s) + v <= 255
    BY <1>0, <1>4, <2>2, OfRegs, RegRange
  <2> HIDE DEF d, s, v
  <2>4. Quiet(d, Of(s) + v, pc + 4)
    BY <2>3, AddsLine, Zenon
  <2>5. Quiet(9, reg9 + 1, 52)
    BY <1>0, <1>4, <2>4, OfRegs, RegRange DEF d, s, v
  <2> QED  BY <1>0, <2>2, <2>5, LineLoads
<1>5. ASSUME pc = 52 PROVE Loads(9, Masked(reg9, 15), 56)
  <2>1. stall = 0 /\ Runs(BootCode[13 + 1])
    BY <1>0, <1>5, Fetch
  <2>2. stall = 0 /\ Runs(ANDI(9, 9, 15))
    BY <1>5, <2>1, MainLoopWords
  <2>3. /\ pc + 4 = 56 /\ Of(9) = reg9
    BY <1>0, <1>5, OfRegs, RegRange
  <2>4. Quiet(9, Masked(Of(9), 15), pc + 4)
    BY <1>0, <2>2, <2>3, MaskLine
  <2> QED  BY <1>0, <2>2, <2>3, <2>4, LineLoads
<1>6. ASSUME pc = 56, reg8 = 0 PROVE Loads(2, reg9, 60)
  <2>1. stall = 0 /\ Runs(BootCode[14 + 1])
    BY <1>0, <1>6, Fetch
  <2>2. stall = 0 /\ Runs(OR(2, 8, 9))
    BY <1>6, <2>1, MainLoopWords
  <2>3. /\ pc + 4 = 60 /\ Of(8) = 0 /\ Of(9) = reg9
    BY <1>0, <1>6, OfRegs, RegRange
  <2>4. Quiet(2, Of(9), pc + 4)
    BY <1>0, <2>2, <2>3, EitherLine
  <2> QED  BY <1>0, <2>2, <2>3, <2>4, LineLoads
<1>7. ASSUME pc = 60 PROVE Shows(reg2, 64)
  <2>1. stall = 0 /\ Runs(BootCode[15 + 1])
    BY <1>0, <1>7, Fetch
  <2>2. stall = 0 /\ Runs(SW(2, 0, LED_OUT))
    BY <1>7, <2>1, MainLoopWords
  <2>3. /\ pc + 4 = 64 /\ Of(2) = reg2
    BY <1>0, <1>7, OfRegs, RegRange
  <2>4. Emits(Of(2), pc + 4)
    BY <1>0, <2>2, <2>3, OutLine
  <2> QED  BY <1>0, <2>2, <2>3, <2>4, LineShows
<1>8. ASSUME pc = 64 PROVE Loads(0, 68, 36)
  <2>1. stall = 0 /\ Runs(BootCode[16 + 1])
    BY <1>0, <1>8, Fetch
  <2>2. stall = 0 /\ Runs(JAL(0, pc, 36))
    BY <1>8, <2>1, MainLoopWords DEF MAIN_LOOP
  <2>3. /\ pc + 4 = 68 /\ (36 - pc) % 2 = 0 /\ 36 \in 0 .. 255
    BY <1>0, <1>8, OfRegs, RegRange
  <2>4. Quiet(0, pc + 4, 36)
    BY <1>0, <2>2, <2>3, CallLine
  <2> QED  BY <1>0, <2>2, <2>3, <2>4, LineLoads
<1> QED  BY <1>1, <1>2, <1>3, <1>4, <1>5, <1>6, <1>7, <1>8

LEMMA BootloadListing ==
  ASSUME Listening
  PROVE  /\ pc = 68 => Loads(1, 72, 108)
         /\ pc = 72 => Loads(4, reg6, 76)
         /\ pc = 76 => Loads(5, LOAD_BASE, 80)
         /\ pc = 80 => Loads(0, 0, IF reg4 = 0 THEN 104 ELSE 84)
         /\ pc = 84 => Loads(1, 88, 108)
         /\ pc = 88 /\ reg5 \in Cells => Keeps(reg5, reg6, 92)
         /\ pc = 92 /\ reg5 + 1 <= 255 => Loads(5, reg5 + 1, 96)
         /\ pc = 96 /\ reg4 > 0 => Loads(4, reg4 - 1, 100)
         /\ pc = 100 => Loads(0, 104, 80)
         /\ pc = 104 => Loads(0, 108, LOAD_BASE)
<1>0. Fitting /\ Framed /\ Instruction /\ DATA \in {0, 1}
  BY DEF Listening
<1>1. ASSUME pc = 68 PROVE Loads(1, 72, 108)
  <2>1. stall = 0 /\ Runs(BootCode[17 + 1])
    BY <1>0, <1>1, Fetch
  <2>2. stall = 0 /\ Runs(JAL(1, pc, 108))
    BY <1>1, <2>1, BootloadWords DEF START_SEEN, RECV_BYTE
  <2>3. /\ pc + 4 = 72 /\ (108 - pc) % 2 = 0 /\ 108 \in 0 .. 255
    BY <1>0, <1>1, OfRegs, RegRange
  <2>4. Quiet(1, pc + 4, 108)
    BY <1>0, <2>2, <2>3, CallLine
  <2> QED  BY <1>0, <2>2, <2>3, <2>4, LineLoads
<1>2. ASSUME pc = 72 PROVE Loads(4, reg6, 76)
  <2>1. stall = 0 /\ Runs(BootCode[18 + 1])
    BY <1>0, <1>2, Fetch
  <2>2. stall = 0 /\ Runs(ADD(4, 6, 0))
    BY <1>2, <2>1, BootloadWords
  <2>3. /\ pc + 4 = 76 /\ Of(6) = reg6
    BY <1>0, <1>2, OfRegs, RegRange
  <2>4. Quiet(4, Of(6), pc + 4)
    BY <1>0, <2>2, <2>3, CopyLine
  <2> QED  BY <1>0, <2>2, <2>3, <2>4, LineLoads
<1>3. ASSUME pc = 76 PROVE Loads(5, LOAD_BASE, 80)
  <2>1. stall = 0 /\ Runs(BootCode[19 + 1])
    BY <1>0, <1>3, Fetch
  <2>2. stall = 0 /\ Runs(ADDI(5, 0, LOAD_BASE))
    BY <1>3, <2>1, BootloadWords
  <2> DEFINE d == 5  s == 0  v == LOAD_BASE
  <2>3. d \in 0 .. 9 /\ s \in 0 .. 9 /\ v \in 0 .. 255 /\ Runs(ADDI(d, s, v)) /\ Of(s) + v <= 255
    BY <1>0, <1>3, <2>2, OfRegs, RegRange, BootFacts, Places
  <2> HIDE DEF d, s, v
  <2>4. Quiet(d, Of(s) + v, pc + 4)
    BY <2>3, AddsLine, Zenon
  <2>5. Quiet(5, LOAD_BASE, 80)
    BY <1>0, <1>3, <2>4, OfRegs, RegRange, BootFacts DEF d, s, v
  <2> QED  BY <1>0, <2>2, <2>5, LineLoads
<1>4. ASSUME pc = 80 PROVE Loads(0, 0, IF reg4 = 0 THEN 104 ELSE 84)
  <2>1. stall = 0 /\ Runs(BootCode[20 + 1])
    BY <1>0, <1>4, Fetch
  <2>2. stall = 0 /\ Runs(BEQ(4, 0, pc, 104))
    BY <1>4, <2>1, BootloadWords DEF BYTE_LOOP, RUN
  <2> DEFINE d == 4  s == 0  v == 104
  <2>3. d \in 0 .. 9 /\ s \in 0 .. 9 /\ v \in 0 .. 255 /\ (v - pc) % 2 = 0 /\ Runs(BEQ(d, s, pc, v))
    BY <1>0, <1>4, <2>2, OfRegs, RegRange
  <2> HIDE DEF d, s, v
  <2>4. Quiet(0, 0, IF Of(d) = Of(s) THEN v ELSE pc + 4)
    BY <2>3, EqualLine, Zenon
  <2>5. Quiet(0, 0, IF reg4 = 0 THEN 104 ELSE 84)
    BY <1>0, <1>4, <2>4, OfRegs, RegRange DEF d, s, v
  <2> QED  BY <1>0, <2>2, <2>5, LineLoads
<1>5. ASSUME pc = 84 PROVE Loads(1, 88, 108)
  <2>1. stall = 0 /\ Runs(BootCode[21 + 1])
    BY <1>0, <1>5, Fetch
  <2>2. stall = 0 /\ Runs(JAL(1, pc, 108))
    BY <1>5, <2>1, BootloadWords DEF RECV_BYTE
  <2>3. /\ pc + 4 = 88 /\ (108 - pc) % 2 = 0 /\ 108 \in 0 .. 255
    BY <1>0, <1>5, OfRegs, RegRange
  <2>4. Quiet(1, pc + 4, 108)
    BY <1>0, <2>2, <2>3, CallLine
  <2> QED  BY <1>0, <2>2, <2>3, <2>4, LineLoads
<1>6. ASSUME pc = 88, reg5 \in Cells PROVE Keeps(reg5, reg6, 92)
  <2>1. stall = 0 /\ Runs(BootCode[22 + 1])
    BY <1>0, <1>6, Fetch
  <2>2. stall = 0 /\ Runs(SB(6, 5, 0))
    BY <1>6, <2>1, BootloadWords
  <2> DEFINE d == 6  s == 5  v == 0
  <2>3. d \in 1 .. 9 /\ s \in 0 .. 9 /\ v \in 0 .. 255 /\ Runs(SB(d, s, v)) /\ Of(s) + v \in Cells
    BY <1>0, <1>6, <2>2, OfRegs, RegRange, BootFacts, Places
  <2> HIDE DEF d, s, v
  <2>4. Stores(Of(s) + v, Of(d), pc + 4)
    BY <1>0, <2>3, StoreLine, Zenon
  <2>5. Stores(reg5, reg6, 92)
    BY <1>0, <1>6, <2>4, OfRegs, RegRange, BootFacts DEF d, s, v
  <2> QED  BY <1>0, <2>2, <2>5, LineKeeps
<1>7. ASSUME pc = 92, reg5 + 1 <= 255 PROVE Loads(5, reg5 + 1, 96)
  <2>1. stall = 0 /\ Runs(BootCode[23 + 1])
    BY <1>0, <1>7, Fetch
  <2>2. stall = 0 /\ Runs(ADDI(5, 5, 1))
    BY <1>7, <2>1, BootloadWords
  <2> DEFINE d == 5  s == 5  v == 1
  <2>3. d \in 0 .. 9 /\ s \in 0 .. 9 /\ v \in 0 .. 255 /\ Runs(ADDI(d, s, v)) /\ Of(s) + v <= 255
    BY <1>0, <1>7, <2>2, OfRegs, RegRange
  <2> HIDE DEF d, s, v
  <2>4. Quiet(d, Of(s) + v, pc + 4)
    BY <2>3, AddsLine, Zenon
  <2>5. Quiet(5, reg5 + 1, 96)
    BY <1>0, <1>7, <2>4, OfRegs, RegRange DEF d, s, v
  <2> QED  BY <1>0, <2>2, <2>5, LineLoads
<1>8. ASSUME pc = 96, reg4 > 0 PROVE Loads(4, reg4 - 1, 100)
  <2>1. stall = 0 /\ Runs(BootCode[24 + 1])
    BY <1>0, <1>8, Fetch
  <2>2. stall = 0 /\ Runs(ADDI(4, 4, -1))
    BY <1>8, <2>1, BootloadWords
  <2> DEFINE d == 4  s == 4
  <2>3. d \in 0 .. 9 /\ s \in 0 .. 9 /\ Runs(ADDI(d, s, -1)) /\ Of(s) > 0
    BY <1>0, <1>8, <2>2, OfRegs, RegRange
  <2> HIDE DEF d, s
  <2>4. Quiet(d, Of(s) - 1, pc + 4)
    BY <2>3, LessLine, Zenon
  <2>5. Quiet(4, reg4 - 1, 100)
    BY <1>0, <1>8, <2>4, OfRegs, RegRange DEF d, s
  <2> QED  BY <1>0, <2>2, <2>5, LineLoads
<1>9. ASSUME pc = 100 PROVE Loads(0, 104, 80)
  <2>1. stall = 0 /\ Runs(BootCode[25 + 1])
    BY <1>0, <1>9, Fetch
  <2>2. stall = 0 /\ Runs(JAL(0, pc, 80))
    BY <1>9, <2>1, BootloadWords DEF BYTE_LOOP
  <2>3. /\ pc + 4 = 104 /\ (80 - pc) % 2 = 0 /\ 80 \in 0 .. 255
    BY <1>0, <1>9, OfRegs, RegRange
  <2>4. Quiet(0, pc + 4, 80)
    BY <1>0, <2>2, <2>3, CallLine
  <2> QED  BY <1>0, <2>2, <2>3, <2>4, LineLoads
<1>10. ASSUME pc = 104 PROVE Loads(0, 108, LOAD_BASE)
  <2>1. stall = 0 /\ Runs(BootCode[26 + 1])
    BY <1>0, <1>10, Fetch
  <2>2. stall = 0 /\ Runs(JAL(0, pc, LOAD_BASE))
    BY <1>10, <2>1, BootloadWords DEF RUN
  <2>3. /\ pc + 4 = 108 /\ (LOAD_BASE - pc) % 2 = 0 /\ LOAD_BASE \in 0 .. 255
    BY <1>0, <1>10, OfRegs, RegRange, LoadAligned
  <2>4. Quiet(0, pc + 4, LOAD_BASE)
    BY <1>0, <2>2, <2>3, CallLine
  <2> QED  BY <1>0, <2>2, <2>3, <2>4, LineLoads
<1> QED  BY <1>1, <1>2, <1>3, <1>4, <1>5, <1>6, <1>7, <1>8, <1>9, <1>10

LEMMA RecvByteListing ==
  ASSUME Listening
  PROVE  /\ pc = 108 => Loads(6, 0, 112)
         /\ pc = 112 => Loads(7, 0, 116)
         /\ pc = 116 => Loads(2, Pins, 120)
         /\ pc = 120 => Loads(2, Masked(reg2, 2), 124)
         /\ pc = 124 => Loads(0, 0, IF reg2 = 0 THEN 116 ELSE 128)
         /\ pc = 128 => Loads(2, Pins, 132)
         /\ pc = 132 => Loads(2, Masked(reg2, 1), 136)
         /\ pc = 136 /\ reg6 <= 127 => Loads(6, 2 * reg6, 140)
         /\ pc = 140 => Loads(0, 0, IF reg2 = 0 THEN 148 ELSE 144)
         /\ pc = 144 /\ reg6 % 2 = 0 => Loads(6, reg6 + 1, 148)
         /\ pc = 148 => Loads(2, Pins, 152)
         /\ pc = 152 => Loads(2, Masked(reg2, 2), 156)
         /\ pc = 156 => Loads(0, 0, IF reg2 # 0 THEN 148 ELSE 160)
         /\ pc = 160 /\ reg7 + 1 <= 255 => Loads(7, reg7 + 1, 164)
         /\ pc = 164 => Loads(3, 8, 168)
         /\ pc = 168 /\ reg7 \in 1 .. 8 /\ reg3 = 8 => Loads(0, 0, IF reg7 < 8 THEN 116 ELSE 172)
         /\ pc = 172 /\ reg1 % 2 = 0 => Loads(0, 176, reg1)
<1>0. Fitting /\ Framed /\ Instruction /\ DATA \in {0, 1}
  BY DEF Listening
<1>1. ASSUME pc = 108 PROVE Loads(6, 0, 112)
  <2>1. stall = 0 /\ Runs(BootCode[27 + 1])
    BY <1>0, <1>1, Fetch
  <2>2. stall = 0 /\ Runs(ADDI(6, 0, 0))
    BY <1>1, <2>1, RecvByteWords
  <2> DEFINE d == 6  s == 0  v == 0
  <2>3. d \in 0 .. 9 /\ s \in 0 .. 9 /\ v \in 0 .. 255 /\ Runs(ADDI(d, s, v)) /\ Of(s) + v <= 255
    BY <1>0, <1>1, <2>2, OfRegs, RegRange
  <2> HIDE DEF d, s, v
  <2>4. Quiet(d, Of(s) + v, pc + 4)
    BY <2>3, AddsLine, Zenon
  <2>5. Quiet(6, 0, 112)
    BY <1>0, <1>1, <2>4, OfRegs, RegRange DEF d, s, v
  <2> QED  BY <1>0, <2>2, <2>5, LineLoads
<1>2. ASSUME pc = 112 PROVE Loads(7, 0, 116)
  <2>1. stall = 0 /\ Runs(BootCode[28 + 1])
    BY <1>0, <1>2, Fetch
  <2>2. stall = 0 /\ Runs(ADDI(7, 0, 0))
    BY <1>2, <2>1, RecvByteWords
  <2> DEFINE d == 7  s == 0  v == 0
  <2>3. d \in 0 .. 9 /\ s \in 0 .. 9 /\ v \in 0 .. 255 /\ Runs(ADDI(d, s, v)) /\ Of(s) + v <= 255
    BY <1>0, <1>2, <2>2, OfRegs, RegRange
  <2> HIDE DEF d, s, v
  <2>4. Quiet(d, Of(s) + v, pc + 4)
    BY <2>3, AddsLine, Zenon
  <2>5. Quiet(7, 0, 116)
    BY <1>0, <1>2, <2>4, OfRegs, RegRange DEF d, s, v
  <2> QED  BY <1>0, <2>2, <2>5, LineLoads
<1>3. ASSUME pc = 116 PROVE Loads(2, Pins, 120)
  <2>1. stall = 0 /\ Runs(BootCode[29 + 1])
    BY <1>0, <1>3, Fetch
  <2>2. stall = 0 /\ Runs(LW(2, 0, SW_IN))
    BY <1>3, <2>1, RecvByteWords
  <2>3. /\ pc + 4 = 120
    BY <1>0, <1>3, OfRegs, RegRange
  <2>4. Quiet(2, Pins, pc + 4)
    BY <1>0, <2>2, <2>3, PinsLine
  <2> QED  BY <1>0, <2>2, <2>3, <2>4, LineLoads
<1>4. ASSUME pc = 120 PROVE Loads(2, Masked(reg2, 2), 124)
  <2>1. stall = 0 /\ Runs(BootCode[30 + 1])
    BY <1>0, <1>4, Fetch
  <2>2. stall = 0 /\ Runs(ANDI(2, 2, 2))
    BY <1>4, <2>1, RecvByteWords DEF CLOCK_MASK
  <2>3. /\ pc + 4 = 124 /\ Of(2) = reg2
    BY <1>0, <1>4, OfRegs, RegRange
  <2>4. Quiet(2, Masked(Of(2), 2), pc + 4)
    BY <1>0, <2>2, <2>3, MaskLine
  <2> QED  BY <1>0, <2>2, <2>3, <2>4, LineLoads
<1>5. ASSUME pc = 124 PROVE Loads(0, 0, IF reg2 = 0 THEN 116 ELSE 128)
  <2>1. stall = 0 /\ Runs(BootCode[31 + 1])
    BY <1>0, <1>5, Fetch
  <2>2. stall = 0 /\ Runs(BEQ(2, 0, pc, 116))
    BY <1>5, <2>1, RecvByteWords DEF BIT_WAIT_HIGH
  <2> DEFINE d == 2  s == 0  v == 116
  <2>3. d \in 0 .. 9 /\ s \in 0 .. 9 /\ v \in 0 .. 255 /\ (v - pc) % 2 = 0 /\ Runs(BEQ(d, s, pc, v))
    BY <1>0, <1>5, <2>2, OfRegs, RegRange
  <2> HIDE DEF d, s, v
  <2>4. Quiet(0, 0, IF Of(d) = Of(s) THEN v ELSE pc + 4)
    BY <2>3, EqualLine, Zenon
  <2>5. Quiet(0, 0, IF reg2 = 0 THEN 116 ELSE 128)
    BY <1>0, <1>5, <2>4, OfRegs, RegRange DEF d, s, v
  <2> QED  BY <1>0, <2>2, <2>5, LineLoads
<1>6. ASSUME pc = 128 PROVE Loads(2, Pins, 132)
  <2>1. stall = 0 /\ Runs(BootCode[32 + 1])
    BY <1>0, <1>6, Fetch
  <2>2. stall = 0 /\ Runs(LW(2, 0, SW_IN))
    BY <1>6, <2>1, RecvByteWords
  <2>3. /\ pc + 4 = 132
    BY <1>0, <1>6, OfRegs, RegRange
  <2>4. Quiet(2, Pins, pc + 4)
    BY <1>0, <2>2, <2>3, PinsLine
  <2> QED  BY <1>0, <2>2, <2>3, <2>4, LineLoads
<1>7. ASSUME pc = 132 PROVE Loads(2, Masked(reg2, 1), 136)
  <2>1. stall = 0 /\ Runs(BootCode[33 + 1])
    BY <1>0, <1>7, Fetch
  <2>2. stall = 0 /\ Runs(ANDI(2, 2, 1))
    BY <1>7, <2>1, RecvByteWords DEF DATA_MASK
  <2>3. /\ pc + 4 = 136 /\ Of(2) = reg2
    BY <1>0, <1>7, OfRegs, RegRange
  <2>4. Quiet(2, Masked(Of(2), 1), pc + 4)
    BY <1>0, <2>2, <2>3, MaskLine
  <2> QED  BY <1>0, <2>2, <2>3, <2>4, LineLoads
<1>8. ASSUME pc = 136, reg6 <= 127 PROVE Loads(6, 2 * reg6, 140)
  <2>1. stall = 0 /\ Runs(BootCode[34 + 1])
    BY <1>0, <1>8, Fetch
  <2>2. stall = 0 /\ Runs(SLLI(6, 6, 1))
    BY <1>8, <2>1, RecvByteWords
  <2>3. /\ pc + 4 = 140 /\ Of(6) <= 127 /\ Of(6) = reg6
    BY <1>0, <1>8, OfRegs, RegRange
  <2>4. Quiet(6, 2 * Of(6), pc + 4)
    BY <1>0, <2>2, <2>3, DoubleLine
  <2> QED  BY <1>0, <2>2, <2>3, <2>4, LineLoads
<1>9. ASSUME pc = 140 PROVE Loads(0, 0, IF reg2 = 0 THEN 148 ELSE 144)
  <2>1. stall = 0 /\ Runs(BootCode[35 + 1])
    BY <1>0, <1>9, Fetch
  <2>2. stall = 0 /\ Runs(BEQ(2, 0, pc, 148))
    BY <1>9, <2>1, RecvByteWords DEF BIT_WAIT_LOW
  <2> DEFINE d == 2  s == 0  v == 148
  <2>3. d \in 0 .. 9 /\ s \in 0 .. 9 /\ v \in 0 .. 255 /\ (v - pc) % 2 = 0 /\ Runs(BEQ(d, s, pc, v))
    BY <1>0, <1>9, <2>2, OfRegs, RegRange
  <2> HIDE DEF d, s, v
  <2>4. Quiet(0, 0, IF Of(d) = Of(s) THEN v ELSE pc + 4)
    BY <2>3, EqualLine, Zenon
  <2>5. Quiet(0, 0, IF reg2 = 0 THEN 148 ELSE 144)
    BY <1>0, <1>9, <2>4, OfRegs, RegRange DEF d, s, v
  <2> QED  BY <1>0, <2>2, <2>5, LineLoads
<1>10. ASSUME pc = 144, reg6 % 2 = 0 PROVE Loads(6, reg6 + 1, 148)
  <2>1. stall = 0 /\ Runs(BootCode[36 + 1])
    BY <1>0, <1>10, Fetch
  <2>2. stall = 0 /\ Runs(ORI(6, 6, 1))
    BY <1>10, <2>1, RecvByteWords
  <2>3. /\ pc + 4 = 148 /\ Of(6) % 2 = 0 /\ Of(6) = reg6
    BY <1>0, <1>10, OfRegs, RegRange
  <2>4. Quiet(6, Of(6) + 1, pc + 4)
    BY <1>0, <2>2, <2>3, OneLine
  <2> QED  BY <1>0, <2>2, <2>3, <2>4, LineLoads
<1>11. ASSUME pc = 148 PROVE Loads(2, Pins, 152)
  <2>1. stall = 0 /\ Runs(BootCode[37 + 1])
    BY <1>0, <1>11, Fetch
  <2>2. stall = 0 /\ Runs(LW(2, 0, SW_IN))
    BY <1>11, <2>1, RecvByteWords
  <2>3. /\ pc + 4 = 152
    BY <1>0, <1>11, OfRegs, RegRange
  <2>4. Quiet(2, Pins, pc + 4)
    BY <1>0, <2>2, <2>3, PinsLine
  <2> QED  BY <1>0, <2>2, <2>3, <2>4, LineLoads
<1>12. ASSUME pc = 152 PROVE Loads(2, Masked(reg2, 2), 156)
  <2>1. stall = 0 /\ Runs(BootCode[38 + 1])
    BY <1>0, <1>12, Fetch
  <2>2. stall = 0 /\ Runs(ANDI(2, 2, 2))
    BY <1>12, <2>1, RecvByteWords DEF CLOCK_MASK
  <2>3. /\ pc + 4 = 156 /\ Of(2) = reg2
    BY <1>0, <1>12, OfRegs, RegRange
  <2>4. Quiet(2, Masked(Of(2), 2), pc + 4)
    BY <1>0, <2>2, <2>3, MaskLine
  <2> QED  BY <1>0, <2>2, <2>3, <2>4, LineLoads
<1>13. ASSUME pc = 156 PROVE Loads(0, 0, IF reg2 # 0 THEN 148 ELSE 160)
  <2>1. stall = 0 /\ Runs(BootCode[39 + 1])
    BY <1>0, <1>13, Fetch
  <2>2. stall = 0 /\ Runs(BNE(2, 0, pc, 148))
    BY <1>13, <2>1, RecvByteWords DEF BIT_WAIT_LOW
  <2> DEFINE d == 2  s == 0  v == 148
  <2>3. d \in 0 .. 9 /\ s \in 0 .. 9 /\ v \in 0 .. 255 /\ (v - pc) % 2 = 0 /\ Runs(BNE(d, s, pc, v))
    BY <1>0, <1>13, <2>2, OfRegs, RegRange
  <2> HIDE DEF d, s, v
  <2>4. Quiet(0, 0, IF Of(d) # Of(s) THEN v ELSE pc + 4)
    BY <2>3, EqualLine, Zenon
  <2>5. Quiet(0, 0, IF reg2 # 0 THEN 148 ELSE 160)
    BY <1>0, <1>13, <2>4, OfRegs, RegRange DEF d, s, v
  <2> QED  BY <1>0, <2>2, <2>5, LineLoads
<1>14. ASSUME pc = 160, reg7 + 1 <= 255 PROVE Loads(7, reg7 + 1, 164)
  <2>1. stall = 0 /\ Runs(BootCode[40 + 1])
    BY <1>0, <1>14, Fetch
  <2>2. stall = 0 /\ Runs(ADDI(7, 7, 1))
    BY <1>14, <2>1, RecvByteWords
  <2> DEFINE d == 7  s == 7  v == 1
  <2>3. d \in 0 .. 9 /\ s \in 0 .. 9 /\ v \in 0 .. 255 /\ Runs(ADDI(d, s, v)) /\ Of(s) + v <= 255
    BY <1>0, <1>14, <2>2, OfRegs, RegRange
  <2> HIDE DEF d, s, v
  <2>4. Quiet(d, Of(s) + v, pc + 4)
    BY <2>3, AddsLine, Zenon
  <2>5. Quiet(7, reg7 + 1, 164)
    BY <1>0, <1>14, <2>4, OfRegs, RegRange DEF d, s, v
  <2> QED  BY <1>0, <2>2, <2>5, LineLoads
<1>15. ASSUME pc = 164 PROVE Loads(3, 8, 168)
  <2>1. stall = 0 /\ Runs(BootCode[41 + 1])
    BY <1>0, <1>15, Fetch
  <2>2. stall = 0 /\ Runs(ADDI(3, 0, 8))
    BY <1>15, <2>1, RecvByteWords
  <2> DEFINE d == 3  s == 0  v == 8
  <2>3. d \in 0 .. 9 /\ s \in 0 .. 9 /\ v \in 0 .. 255 /\ Runs(ADDI(d, s, v)) /\ Of(s) + v <= 255
    BY <1>0, <1>15, <2>2, OfRegs, RegRange
  <2> HIDE DEF d, s, v
  <2>4. Quiet(d, Of(s) + v, pc + 4)
    BY <2>3, AddsLine, Zenon
  <2>5. Quiet(3, 8, 168)
    BY <1>0, <1>15, <2>4, OfRegs, RegRange DEF d, s, v
  <2> QED  BY <1>0, <2>2, <2>5, LineLoads
<1>16. ASSUME pc = 168, reg7 \in 1 .. 8, reg3 = 8 PROVE Loads(0, 0, IF reg7 < 8 THEN 116 ELSE 172)
  <2>1. stall = 0 /\ Runs(BootCode[42 + 1])
    BY <1>0, <1>16, Fetch
  <2>2. stall = 0 /\ Runs(BLT(7, 3, pc, 116))
    BY <1>16, <2>1, RecvByteWords DEF BIT_WAIT_HIGH
  <2> DEFINE d == 7  s == 3  v == 116
  <2>3. d \in 0 .. 9 /\ s \in 0 .. 9 /\ v \in 0 .. 255 /\ (v - pc) % 2 = 0 /\ Runs(BLT(d, s, pc, v)) /\ Of(d) \in 1 .. 8 /\ Of(s) = 8
    BY <1>0, <1>16, <2>2, OfRegs, RegRange
  <2> HIDE DEF d, s, v
  <2>4. Quiet(0, 0, IF Of(d) < 8 THEN v ELSE pc + 4)
    BY <2>3, CountsLine, Zenon
  <2>5. Quiet(0, 0, IF reg7 < 8 THEN 116 ELSE 172)
    BY <1>0, <1>16, <2>4, OfRegs, RegRange DEF d, s, v
  <2> QED  BY <1>0, <2>2, <2>5, LineLoads
<1>17. ASSUME pc = 172, reg1 % 2 = 0 PROVE Loads(0, 176, reg1)
  <2>1. stall = 0 /\ Runs(BootCode[43 + 1])
    BY <1>0, <1>17, Fetch
  <2>2. stall = 0 /\ Runs(JALR(0, 1, 0))
    BY <1>17, <2>1, RecvByteWords
  <2>3. /\ pc + 4 = 176 /\ Of(1) % 2 = 0 /\ Of(1) = reg1
    BY <1>0, <1>17, OfRegs, RegRange
  <2>4. Quiet(0, pc + 4, Of(1))
    BY <1>0, <2>2, <2>3, ReturnLine
  <2> QED  BY <1>0, <2>2, <2>3, <2>4, LineLoads
<1> QED  BY <1>1, <1>2, <1>3, <1>4, <1>5, <1>6, <1>7, <1>8, <1>9, <1>10, <1>11, <1>12, <1>13, <1>14, <1>15, <1>16, <1>17

-----------------------------------------------------------------------------
\* Between two reads of the pins: how far the words are with what the block has
\* done at once.

\* The word at p is next, and b instructions of the block are left.
On(p, b) == pc = p /\ busy = b /\ stall = 0

Shown == out = ToBits(gpio_out, 8)

\* The registers the blocks that receive a bit leave alone.
Ours == reg4 = x4 /\ reg5 = x5 /\ reg8 = x8 /\ reg9 = x9

\* Where the byte being received is wanted.
Link == IF x1 = "LENGTH" THEN 72 ELSE 88

AtRead ==
  /\ busy = 0 /\ stall = 0 /\ pc = Address(at)
  /\ cells = mem /\ Shown
  /\ Ours /\ reg6 = x6 /\ reg7 = x7
  /\ at \in {"BIT_WAIT_HIGH", "BIT_DATA", "BIT_WAIT_LOW"} => reg1 = Link

InSelfTest ==
  /\ at = "MAIN_LOOP" /\ x6 = 165 /\ x9 = 0 /\ Shown
  /\ reg4 = x4 /\ reg5 = x5 /\ reg7 = x7
  /\ \/ /\ On(4, 2 * PsramTime + 3) /\ reg2 = 165
        /\ mem = [cells EXCEPT ![EXT_PSRAM_BASE] = 165]
     \/ pc = 8 /\ stall \in Nat /\ busy = PsramTime + 3 + stall /\ reg2 = 165 /\ cells = mem
        /\ mem[EXT_PSRAM_BASE] = 165
     \/ pc = 12 /\ stall \in Nat /\ busy = 3 + stall /\ reg2 = 165 /\ reg6 = 165 /\ cells = mem
     \/ On(28, 2) /\ reg6 = 165 /\ cells = mem
     \/ On(32, 1) /\ reg6 = 165 /\ reg8 = 0 /\ cells = mem

InCount ==
  /\ at = "MAIN_LOOP" /\ cells = mem
  /\ reg4 = x4 /\ reg5 = x5 /\ reg6 = x6 /\ reg7 = x7 /\ reg8 = x8
  /\ gpio_out = x9
  /\ \/ On(40, 7) /\ (reg2 \div 4) % 2 = 0 /\ reg9 \in 0 .. 15 /\ x9 = (reg9 + 1) % 16
     \/ On(44, 6) /\ reg2 = 0 /\ reg9 \in 0 .. 15 /\ x9 = (reg9 + 1) % 16
     \/ On(48, 5) /\ reg9 \in 0 .. 15 /\ x9 = (reg9 + 1) % 16
     \/ On(52, 4) /\ x9 = reg9 % 16
     \/ On(56, 3) /\ reg9 = x9
     \/ On(60, 2) /\ reg9 = x9 /\ reg2 = x9
     \/ On(64, 1) /\ reg9 = x9 /\ Shown

InBegin ==
  /\ at = "BIT_WAIT_HIGH" /\ x1 = "LENGTH" /\ x6 = 0 /\ x7 = 0
  /\ cells = mem /\ Shown /\ Ours
  /\ \/ On(40, 5) /\ (reg2 \div 4) % 2 = 1
     \/ On(44, 4) /\ reg2 = 4
     \/ On(68, 3)
     \/ On(108, 2) /\ reg1 = 72
     \/ On(112, 1) /\ reg1 = 72 /\ reg6 = 0

InWaitHigh ==
  /\ at \in {"BIT_WAIT_HIGH", "BIT_DATA"}
  /\ cells = mem /\ Shown /\ Ours /\ reg6 = x6 /\ reg7 = x7 /\ reg1 = Link
  /\ \/ On(120, 2) /\ (reg2 \div 2) % 2 = IF at = "BIT_DATA" THEN 1 ELSE 0
     \/ On(124, 1) /\ reg2 = IF at = "BIT_DATA" THEN 2 ELSE 0

InReadData ==
  /\ at = "BIT_WAIT_LOW"
  /\ cells = mem /\ Shown /\ Ours /\ reg7 = x7 /\ reg1 = Link
  /\ \E d \in {0, 1} :
       \/ On(132, 3 + d) /\ reg2 % 2 = d /\ x6 = 2 * reg6 + d
       \/ On(136, 2 + d) /\ reg2 = d /\ x6 = 2 * reg6 + d
       \/ On(140, 1 + d) /\ reg2 = d /\ reg6 % 2 = 0 /\ x6 = reg6 + d
       \/ On(144, 1) /\ reg6 % 2 = 0 /\ x6 = reg6 + 1

InWaitLow ==
  /\ at = "BIT_WAIT_LOW"
  /\ cells = mem /\ Shown /\ Ours /\ reg6 = x6 /\ reg7 = x7 /\ reg1 = Link
  /\ \/ On(152, 2) /\ (reg2 \div 2) % 2 = 1
     \/ On(156, 1) /\ reg2 = 2

InNextBit ==
  /\ at = "BIT_WAIT_HIGH" /\ x7 \in 1 .. 7
  /\ cells = mem /\ Shown /\ Ours /\ reg6 = x6 /\ reg1 = Link
  /\ \/ On(152, 5) /\ (reg2 \div 2) % 2 = 0 /\ x7 = reg7 + 1
     \/ On(156, 4) /\ reg2 = 0 /\ x7 = reg7 + 1
     \/ On(160, 3) /\ x7 = reg7 + 1
     \/ On(164, 2) /\ reg7 = x7
     \/ On(168, 1) /\ reg7 = x7 /\ reg3 = 8

\* The last bit of a byte: RECV_BYTE returns to `link`, with n instructions
\* of the block to come.
Returns(link, n) ==
  /\ reg1 = link
  /\ \/ On(152, n + 6) /\ (reg2 \div 2) % 2 = 0 /\ reg7 = 7
     \/ On(156, n + 5) /\ reg2 = 0 /\ reg7 = 7
     \/ On(160, n + 4) /\ reg7 = 7
     \/ On(164, n + 3) /\ reg7 = 8
     \/ On(168, n + 2) /\ reg7 = 8 /\ reg3 = 8
     \/ On(172, n + 1) /\ reg7 = 8

\* After the branch of BYTE_LOOP.
TailTime == IF x4 = 0 THEN 2 ELSE 4

\* What the blocks that end a byte decide at once.
Ending ==
  /\ Shown /\ reg8 = x8 /\ reg9 = x9
  /\ x4 = 0 => at = "RUN" /\ x7 = 8 /\ x6 = reg6
  /\ x4 # 0 => at = "BIT_WAIT_HIGH" /\ x1 = "BYTE" /\ x6 = 0 /\ x7 = 0

InGotLength ==
  /\ Ending /\ cells = mem /\ x5 = LOAD_BASE /\ reg6 = x4
  /\ \/ Returns(72, TailTime + 2)
     \/ On(72, TailTime + 2) /\ reg7 = 8
     \/ On(76, TailTime + 1) /\ reg7 = 8 /\ reg4 = x4

InGotByte ==
  /\ Ending /\ x4 + 1 = reg4 /\ x5 = reg5 + 1 /\ reg5 \in Cells
  /\ mem = [cells EXCEPT ![reg5] = reg6]
  /\ \/ Returns(88, StoreTime(reg5) + 3 + TailTime)
     \/ On(88, StoreTime(reg5) + 3 + TailTime) /\ reg7 = 8

InByteStored ==
  /\ Ending /\ cells = mem /\ reg7 = 8
  /\ \/ /\ pc = 92 /\ stall \in Nat /\ busy = TailTime + 3 + stall
        /\ x4 + 1 = reg4 /\ x5 = reg5 + 1 /\ reg5 \in Cells
     \/ On(96, TailTime + 2) /\ x4 + 1 = reg4 /\ x5 = reg5
     \/ On(100, TailTime + 1) /\ reg4 = x4 /\ reg5 = x5

InByteLoop ==
  /\ Shown /\ Ours /\ cells = mem
  /\ \/ Ending /\ On(80, TailTime) /\ reg7 = 8
     \/ Ending /\ On(104, 1) /\ x4 = 0 /\ reg7 = 8
     \/ Ending /\ On(84, 3) /\ x4 # 0
     \/ Ending /\ On(108, 2) /\ x4 # 0 /\ reg1 = 88
     \/ Ending /\ On(112, 1) /\ x4 # 0 /\ reg1 = 88 /\ reg6 = 0

Between ==
  \/ InSelfTest \/ InCount \/ InBegin \/ InWaitHigh \/ InReadData \/ InWaitLow
  \/ InNextBit \/ InGotLength \/ InGotByte \/ InByteStored \/ InByteLoop

\* The words and the blocks are at the same place, until the stub has run.
InPlace == attached /\ x8 = 0 /\ Framed /\ (AtRead \/ Between)

\* The stub has run.
Handed == mode = TRUE

Follow == Handed \/ InPlace

-----------------------------------------------------------------------------
\* Time passes in the middle of a block.

Passes ==
  /\ busy' = busy - 1
  /\ at' = at /\ x1' = x1 /\ x4' = x4 /\ x5' = x5 /\ x6' = x6 /\ x7' = x7
  /\ x8' = x8 /\ x9' = x9 /\ mem' = mem /\ gpio_out' = gpio_out /\ attached' = attached

LEMMA WorkPasses == Work => Passes
BY DEF Work, Passes, regVars, memVars

LEMMA Addresses ==
  /\ Address("SELFTEST") = 0 /\ Address("MAIN_LOOP") = 36
  /\ Address("BIT_WAIT_HIGH") = 116 /\ Address("BIT_DATA") = 128
  /\ Address("BIT_WAIT_LOW") = 148 /\ Address("RUN") = LOAD_BASE
BY DEF Address, MAIN_LOOP, BIT_WAIT_HIGH, BIT_DATA, BIT_WAIT_LOW

LEMMA MaskOf ==
  ASSUME NEW x, NEW m \in {1, 2, 4, 15}
  PROVE  /\ m = 1 => Masked(x, m) = x % 2
         /\ m = 2 => Masked(x, m) = 2 * ((x \div 2) % 2)
         /\ m = 4 => Masked(x, m) = 4 * ((x \div 4) % 2)
         /\ m = 15 => Masked(x, m) = x % 16
BY DEF Masked

LEMMA MaskedAre ==
  \A x : /\ Masked(x, 1) = x % 2
         /\ Masked(x, 2) = 2 * ((x \div 2) % 2)
         /\ Masked(x, 4) = 4 * ((x \div 4) % 2)
         /\ Masked(x, 15) = x % 16
<1>1. 1 \in {1, 2, 4, 15} /\ 2 \in {1, 2, 4, 15} /\ 4 \in {1, 2, 4, 15} /\ 15 \in {1, 2, 4, 15}
  OBVIOUS
<1>2. \A x : Masked(x, 1) = x % 2
  BY <1>1, MaskOf, Zenon
<1>3. \A x : Masked(x, 2) = 2 * ((x \div 2) % 2)
  BY <1>1, MaskOf, Zenon
<1>4. \A x : Masked(x, 4) = 4 * ((x \div 4) % 2)
  BY <1>1, MaskOf, Zenon
<1>5. \A x : Masked(x, 15) = x % 16
  BY <1>1, MaskOf, Zenon
<1> QED  BY <1>2, <1>3, <1>4, <1>5, Zenon

LEMMA StallPasses ==
  ASSUME Framed, Stall
  PROVE  /\ Framed' /\ pc' = pc /\ PutReg(0, 0) /\ UNCHANGED <<cells, out>>
         /\ stall' = stall - 1 /\ stall > 0
<1>1. /\ UNCHANGED <<rom, regs, ram, mode, page, store>> /\ pc' = pc /\ out' = out
      /\ stall' = stall - 1 /\ stall > 0
  BY DEF Stall, codeVars
<1>2. file' = file
  BY <1>1 DEF file
<1>3. cells' = cells
  BY <1>1 DEF cells, Cell
<1>4. Framed'
  BY <1>1, <1>2, <1>3 DEF Framed, Cell, RomImage
<1> QED  BY <1>1, <1>2, <1>3, <1>4, LineSame

\* The next instruction of a block.
Going == Fitting /\ Framed /\ DATA \in {0, 1} /\ Passes /\ (Instruction \/ Stall)

LEMMA GoingFacts ==
  ASSUME Going
  PROVE  /\ stall = 0 => Listening
         /\ stall \in Nat /\ stall # 0 => Stall /\ stall - 1 \in Nat
         /\ Passes /\ Framed
BY DEF Going, Listening, Instruction, Stall

LEMMA InSelfTestGoes ==
  ASSUME Going, TypeOK, x8 = 0, InSelfTest
  PROVE  (InSelfTest' \/ AtRead') /\ Framed'
<1>0. /\ stall = 0 => Listening
      /\ stall \in Nat /\ stall # 0 => Stall /\ stall - 1 \in Nat
      /\ Passes /\ Framed
      /\ x4 \in 0 .. 255 /\ x6 \in 0 .. 255 /\ x9 \in 0 .. 15
      /\ Cells \subseteq 0 .. 239
  BY GoingFacts, Places DEF TypeOK, MemByte
<1>1. CASE On(4, 2 * PsramTime + 3) /\ reg2 = 165 /\ mem = [cells EXCEPT ![EXT_PSRAM_BASE] = 165]
  <2>0. mem[EXT_PSRAM_BASE] = 165 /\ StoreTime(EXT_PSRAM_BASE) = PsramTime
    <3>1. EXT_PSRAM_BASE \in DOMAIN cells
      BY Places DEF cells
    <3>2. in_ext_psram(EXT_PSRAM_BASE)
      BY BootFacts DEF in_ext_psram
    <3> QED  BY <1>1, <3>1, <3>2 DEF StoreTime
  <2>1. Keeps(EXT_PSRAM_BASE, reg2, 8)
    BY <1>0, <2>0, <1>1, RegRange, SelfTestListing DEF On
  <2> QED
    BY <2>1, <2>0, <1>0, <1>1, RegRange, MaskedAre, BootFacts, StoreTimes DEF On, Shown, Ours, Passes, Keeps, Follows, PutReg, InSelfTest
<1>2. CASE pc = 8 /\ stall \in Nat /\ busy = PsramTime + 3 + stall /\ reg2 = 165 /\ cells = mem
      /\ mem[EXT_PSRAM_BASE] = 165
  <2>1. CASE stall = 0
    <3>1. Checks(6, 12)
      BY <1>0, <1>2, <2>1, RegRange, SelfTestListing
    <3> QED
      BY <2>1, <3>1, <1>0, <1>2, RegRange, MaskedAre, BootFacts, StoreTimes DEF On, Shown, Ours, Passes, Checks, Follows, PutReg, InSelfTest
  <2>2. CASE stall # 0
    <3>1. /\ Framed' /\ pc' = pc /\ PutReg(0, 0) /\ UNCHANGED <<cells, out>>
          /\ stall' = stall - 1 /\ stall - 1 \in Nat
      BY <1>0, <1>2, <2>2, StallPasses
    <3> QED
      BY <2>2, <3>1, <1>0, <1>2, RegRange, MaskedAre, BootFacts, StoreTimes DEF On, Shown, Ours, Passes, PutReg, InSelfTest
  <2> QED  BY <2>1, <2>2
<1>3. CASE pc = 12 /\ stall \in Nat /\ busy = 3 + stall /\ reg2 = 165 /\ reg6 = 165 /\ cells = mem
  <2>1. CASE stall = 0
    <3>1. Loads(0, 0, IF reg6 = reg2 THEN 28 ELSE 16)
      BY <1>0, <1>3, <2>1, RegRange, SelfTestListing
    <3> QED
      BY <2>1, <3>1, <1>0, <1>3, RegRange, MaskedAre, BootFacts, StoreTimes DEF On, Shown, Ours, Passes, Loads, Follows, PutReg, InSelfTest
  <2>2. CASE stall # 0
    <3>1. /\ Framed' /\ pc' = pc /\ PutReg(0, 0) /\ UNCHANGED <<cells, out>>
          /\ stall' = stall - 1 /\ stall - 1 \in Nat
      BY <1>0, <1>3, <2>2, StallPasses
    <3> QED
      BY <2>2, <3>1, <1>0, <1>3, RegRange, MaskedAre, BootFacts, StoreTimes DEF On, Shown, Ours, Passes, PutReg, InSelfTest
  <2> QED  BY <2>1, <2>2
<1>4. CASE On(28, 2) /\ reg6 = 165 /\ cells = mem
  <2>1. Loads(8, 0, 32)
    BY <1>0, <1>4, RegRange, SelfTestListing DEF On
  <2> QED
    BY <2>1, <1>0, <1>4, RegRange, MaskedAre, BootFacts, StoreTimes DEF On, Shown, Ours, Passes, Loads, Follows, PutReg, InSelfTest
<1>5. CASE On(32, 1) /\ reg6 = 165 /\ reg8 = 0 /\ cells = mem
  <2>1. Loads(9, 0, 36)
    BY <1>0, <1>5, RegRange, SelfTestListing DEF On
  <2> QED
    BY <2>1, <1>0, <1>5, RegRange, MaskedAre, Addresses, BootFacts, StoreTimes DEF On, Shown, Ours, Passes, Loads, Follows, PutReg, InSelfTest, AtRead, Link
<1> QED  BY <1>1, <1>2, <1>3, <1>4, <1>5 DEF InSelfTest

LEMMA InCountGoes ==
  ASSUME Going, TypeOK, x8 = 0, InCount
  PROVE  (InCount' \/ AtRead') /\ Framed'
<1>0. /\ stall = 0 => Listening
      /\ stall \in Nat /\ stall # 0 => Stall /\ stall - 1 \in Nat
      /\ Passes /\ Framed
      /\ x4 \in 0 .. 255 /\ x6 \in 0 .. 255 /\ x9 \in 0 .. 15
      /\ Cells \subseteq 0 .. 239
  BY GoingFacts, Places DEF TypeOK, MemByte
<1>1. CASE On(40, 7) /\ (reg2 \div 4) % 2 = 0 /\ reg9 \in 0 .. 15 /\ x9 = (reg9 + 1) % 16
  <2>1. Loads(2, Masked(reg2, 4), 44)
    BY <1>0, <1>1, RegRange, MainLoopListing DEF On, InCount
  <2> QED
    BY <2>1, <1>0, <1>1, RegRange, MaskedAre DEF On, Shown, Ours, Passes, Loads, Follows, PutReg, InCount
<1>2. CASE On(44, 6) /\ reg2 = 0 /\ reg9 \in 0 .. 15 /\ x9 = (reg9 + 1) % 16
  <2>1. Loads(0, 0, IF reg2 # 0 THEN 68 ELSE 48)
    BY <1>0, <1>2, RegRange, MainLoopListing DEF On, InCount
  <2> QED
    BY <2>1, <1>0, <1>2, RegRange, MaskedAre DEF On, Shown, Ours, Passes, Loads, Follows, PutReg, InCount
<1>3. CASE On(48, 5) /\ reg9 \in 0 .. 15 /\ x9 = (reg9 + 1) % 16
  <2>1. Loads(9, reg9 + 1, 52)
    BY <1>0, <1>3, RegRange, MainLoopListing DEF On, InCount
  <2> QED
    BY <2>1, <1>0, <1>3, RegRange, MaskedAre DEF On, Shown, Ours, Passes, Loads, Follows, PutReg, InCount
<1>4. CASE On(52, 4) /\ x9 = reg9 % 16
  <2>1. Loads(9, Masked(reg9, 15), 56)
    BY <1>0, <1>4, RegRange, MainLoopListing DEF On, InCount
  <2> QED
    BY <2>1, <1>0, <1>4, RegRange, MaskedAre DEF On, Shown, Ours, Passes, Loads, Follows, PutReg, InCount
<1>5. CASE On(56, 3) /\ reg9 = x9
  <2>1. Loads(2, reg9, 60)
    BY <1>0, <1>5, RegRange, MainLoopListing DEF On, InCount
  <2> QED
    BY <2>1, <1>0, <1>5, RegRange, MaskedAre DEF On, Shown, Ours, Passes, Loads, Follows, PutReg, InCount
<1>6. CASE On(60, 2) /\ reg9 = x9 /\ reg2 = x9
  <2>1. Shows(reg2, 64)
    BY <1>0, <1>6, RegRange, MainLoopListing DEF On, InCount
  <2> QED
    BY <2>1, <1>0, <1>6, RegRange, MaskedAre DEF On, Shown, Ours, Passes, Shows, Follows, PutReg, InCount
<1>7. CASE On(64, 1) /\ reg9 = x9 /\ Shown
  <2>1. Loads(0, 68, 36)
    BY <1>0, <1>7, RegRange, MainLoopListing DEF On, InCount
  <2> QED
    BY <2>1, <1>0, <1>7, RegRange, MaskedAre, Addresses DEF On, Shown, Ours, Passes, Loads, Follows, PutReg, InCount, AtRead, Link
<1> QED  BY <1>1, <1>2, <1>3, <1>4, <1>5, <1>6, <1>7 DEF InCount

LEMMA InBeginGoes ==
  ASSUME Going, TypeOK, x8 = 0, InBegin
  PROVE  (InBegin' \/ AtRead') /\ Framed'
<1>0. /\ stall = 0 => Listening
      /\ stall \in Nat /\ stall # 0 => Stall /\ stall - 1 \in Nat
      /\ Passes /\ Framed
      /\ x4 \in 0 .. 255 /\ x6 \in 0 .. 255 /\ x9 \in 0 .. 15
      /\ Cells \subseteq 0 .. 239
  BY GoingFacts, Places DEF TypeOK, MemByte
<1>1. CASE On(40, 5) /\ (reg2 \div 4) % 2 = 1
  <2>1. Loads(2, Masked(reg2, 4), 44)
    BY <1>0, <1>1, RegRange, MainLoopListing DEF On
  <2> QED
    BY <2>1, <1>0, <1>1, RegRange, MaskedAre DEF On, Shown, Ours, Passes, Loads, Follows, PutReg, InBegin
<1>2. CASE On(44, 4) /\ reg2 = 4
  <2>1. Loads(0, 0, IF reg2 # 0 THEN 68 ELSE 48)
    BY <1>0, <1>2, RegRange, MainLoopListing DEF On
  <2> QED
    BY <2>1, <1>0, <1>2, RegRange, MaskedAre DEF On, Shown, Ours, Passes, Loads, Follows, PutReg, InBegin
<1>3. CASE On(68, 3)
  <2>1. Loads(1, 72, 108)
    BY <1>0, <1>3, RegRange, BootloadListing DEF On
  <2> QED
    BY <2>1, <1>0, <1>3, RegRange, MaskedAre DEF On, Shown, Ours, Passes, Loads, Follows, PutReg, InBegin
<1>4. CASE On(108, 2) /\ reg1 = 72
  <2>1. Loads(6, 0, 112)
    BY <1>0, <1>4, RegRange, RecvByteListing DEF On
  <2> QED
    BY <2>1, <1>0, <1>4, RegRange, MaskedAre DEF On, Shown, Ours, Passes, Loads, Follows, PutReg, InBegin
<1>5. CASE On(112, 1) /\ reg1 = 72 /\ reg6 = 0
  <2>1. Loads(7, 0, 116)
    BY <1>0, <1>5, RegRange, RecvByteListing DEF On
  <2> QED
    BY <2>1, <1>0, <1>5, RegRange, MaskedAre, Addresses DEF On, Shown, Ours, Passes, Loads, Follows, PutReg, InBegin, AtRead, Link
<1> QED  BY <1>1, <1>2, <1>3, <1>4, <1>5 DEF InBegin

LEMMA InWaitHighGoes ==
  ASSUME Going, TypeOK, x8 = 0, InWaitHigh
  PROVE  (InWaitHigh' \/ AtRead') /\ Framed'
<1>0. /\ stall = 0 => Listening
      /\ stall \in Nat /\ stall # 0 => Stall /\ stall - 1 \in Nat
      /\ Passes /\ Framed
      /\ x4 \in 0 .. 255 /\ x6 \in 0 .. 255 /\ x9 \in 0 .. 15
      /\ Cells \subseteq 0 .. 239
  BY GoingFacts, Places DEF TypeOK, MemByte
<1>1. CASE On(120, 2) /\ (reg2 \div 2) % 2 = IF at = "BIT_DATA" THEN 1 ELSE 0
  <2>1. Loads(2, Masked(reg2, 2), 124)
    BY <1>0, <1>1, RegRange, RecvByteListing DEF On
  <2> QED
    BY <2>1, <1>0, <1>1, RegRange, MaskedAre, Addresses DEF On, Shown, Ours, Passes, Loads, Follows, PutReg, InWaitHigh, AtRead, Link
<1>2. CASE On(124, 1) /\ reg2 = IF at = "BIT_DATA" THEN 2 ELSE 0
  <2>1. Loads(0, 0, IF reg2 = 0 THEN 116 ELSE 128)
    BY <1>0, <1>2, RegRange, RecvByteListing DEF On
  <2> QED
    BY <2>1, <1>0, <1>2, RegRange, MaskedAre, Addresses DEF On, Shown, Ours, Passes, Loads, Follows, PutReg, InWaitHigh, AtRead, Link
<1> QED  BY <1>1, <1>2 DEF InWaitHigh

LEMMA InWaitLowGoes ==
  ASSUME Going, TypeOK, x8 = 0, InWaitLow
  PROVE  (InWaitLow' \/ AtRead') /\ Framed'
<1>0. /\ stall = 0 => Listening
      /\ stall \in Nat /\ stall # 0 => Stall /\ stall - 1 \in Nat
      /\ Passes /\ Framed
      /\ x4 \in 0 .. 255 /\ x6 \in 0 .. 255 /\ x9 \in 0 .. 15
      /\ Cells \subseteq 0 .. 239
  BY GoingFacts, Places DEF TypeOK, MemByte
<1>1. CASE On(152, 2) /\ (reg2 \div 2) % 2 = 1
  <2>1. Loads(2, Masked(reg2, 2), 156)
    BY <1>0, <1>1, RegRange, RecvByteListing DEF On
  <2> QED
    BY <2>1, <1>0, <1>1, RegRange, MaskedAre, Addresses DEF On, Shown, Ours, Passes, Loads, Follows, PutReg, InWaitLow, AtRead, Link
<1>2. CASE On(156, 1) /\ reg2 = 2
  <2>1. Loads(0, 0, IF reg2 # 0 THEN 148 ELSE 160)
    BY <1>0, <1>2, RegRange, RecvByteListing DEF On
  <2> QED
    BY <2>1, <1>0, <1>2, RegRange, MaskedAre, Addresses DEF On, Shown, Ours, Passes, Loads, Follows, PutReg, InWaitLow, AtRead, Link
<1> QED  BY <1>1, <1>2 DEF InWaitLow

LEMMA InNextBitGoes ==
  ASSUME Going, TypeOK, x8 = 0, InNextBit
  PROVE  (InNextBit' \/ AtRead') /\ Framed'
<1>0. /\ stall = 0 => Listening
      /\ stall \in Nat /\ stall # 0 => Stall /\ stall - 1 \in Nat
      /\ Passes /\ Framed
      /\ x4 \in 0 .. 255 /\ x6 \in 0 .. 255 /\ x9 \in 0 .. 15
      /\ Cells \subseteq 0 .. 239
  BY GoingFacts, Places DEF TypeOK, MemByte
<1>1. CASE On(152, 5) /\ (reg2 \div 2) % 2 = 0 /\ x7 = reg7 + 1
  <2>1. Loads(2, Masked(reg2, 2), 156)
    BY <1>0, <1>1, RegRange, RecvByteListing DEF On, InNextBit
  <2> QED
    BY <2>1, <1>0, <1>1, RegRange, MaskedAre, Addresses DEF On, Shown, Ours, Passes, Loads, Follows, PutReg, InNextBit, AtRead, Link
<1>2. CASE On(156, 4) /\ reg2 = 0 /\ x7 = reg7 + 1
  <2>1. Loads(0, 0, IF reg2 # 0 THEN 148 ELSE 160)
    BY <1>0, <1>2, RegRange, RecvByteListing DEF On, InNextBit
  <2> QED
    BY <2>1, <1>0, <1>2, RegRange, MaskedAre, Addresses DEF On, Shown, Ours, Passes, Loads, Follows, PutReg, InNextBit, AtRead, Link
<1>3. CASE On(160, 3) /\ x7 = reg7 + 1
  <2>1. Loads(7, reg7 + 1, 164)
    BY <1>0, <1>3, RegRange, RecvByteListing DEF On, InNextBit
  <2> QED
    BY <2>1, <1>0, <1>3, RegRange, MaskedAre, Addresses DEF On, Shown, Ours, Passes, Loads, Follows, PutReg, InNextBit, AtRead, Link
<1>4. CASE On(164, 2) /\ reg7 = x7
  <2>1. Loads(3, 8, 168)
    BY <1>0, <1>4, RegRange, RecvByteListing DEF On, InNextBit
  <2> QED
    BY <2>1, <1>0, <1>4, RegRange, MaskedAre, Addresses DEF On, Shown, Ours, Passes, Loads, Follows, PutReg, InNextBit, AtRead, Link
<1>5. CASE On(168, 1) /\ reg7 = x7 /\ reg3 = 8
  <2>1. Loads(0, 0, IF reg7 < 8 THEN 116 ELSE 172)
    BY <1>0, <1>5, RegRange, RecvByteListing DEF On, InNextBit
  <2> QED
    BY <2>1, <1>0, <1>5, RegRange, MaskedAre, Addresses DEF On, Shown, Ours, Passes, Loads, Follows, PutReg, InNextBit, AtRead, Link
<1> QED  BY <1>1, <1>2, <1>3, <1>4, <1>5 DEF InNextBit

LEMMA InReadDataGoes ==
  ASSUME Going, TypeOK, x8 = 0, InReadData
  PROVE  (InReadData' \/ AtRead') /\ Framed'
<1>0. /\ stall = 0 => Listening
      /\ stall \in Nat /\ stall # 0 => Stall /\ stall - 1 \in Nat
      /\ Passes /\ Framed
      /\ x4 \in 0 .. 255 /\ x6 \in 0 .. 255 /\ x9 \in 0 .. 15
      /\ Cells \subseteq 0 .. 239
  BY GoingFacts, Places DEF TypeOK, MemByte
<1>1. ASSUME NEW d \in {0, 1}, On(132, 3 + d), reg2 % 2 = d, x6 = 2 * reg6 + d
      PROVE  (InReadData' \/ AtRead') /\ Framed'
  <2>1. Loads(2, Masked(reg2, 1), 136)
    BY <1>0, <1>1, RegRange, RecvByteListing DEF On
  <2> QED
    BY <2>1, <1>0, <1>1, RegRange, MaskedAre, Addresses DEF On, Shown, Ours, Passes, Loads, Follows, PutReg, InReadData, AtRead, Link
<1>2. ASSUME NEW d \in {0, 1}, On(136, 2 + d), reg2 = d, x6 = 2 * reg6 + d
      PROVE  (InReadData' \/ AtRead') /\ Framed'
  <2>0. reg6 <= 127
    <3> DEFINE a == x6  b == reg6
    <3>1. a \in Nat /\ a <= 255 /\ b \in Nat /\ a = 2 * b + d /\ d \in Nat
      BY <1>0, <1>2, RegRange
    <3> HIDE DEF a, b
    <3>2. b <= 127
      BY <3>1
    <3> QED  BY <3>2 DEF b
  <2>1. Loads(6, 2 * reg6, 140)
    BY <1>0, <2>0, <1>2, RegRange, RecvByteListing DEF On
  <2> QED
    BY <2>1, <1>0, <1>2, RegRange, MaskedAre, Addresses DEF On, Shown, Ours, Passes, Loads, Follows, PutReg, InReadData, AtRead, Link
<1>3. ASSUME NEW d \in {0, 1}, On(140, 1 + d), reg2 = d, reg6 % 2 = 0, x6 = reg6 + d
      PROVE  (InReadData' \/ AtRead') /\ Framed'
  <2>1. Loads(0, 0, IF reg2 = 0 THEN 148 ELSE 144)
    BY <1>0, <1>3, RegRange, RecvByteListing DEF On
  <2> QED
    BY <2>1, <1>0, <1>3, RegRange, MaskedAre, Addresses DEF On, Shown, Ours, Passes, Loads, Follows, PutReg, InReadData, AtRead, Link
<1>4. ASSUME NEW d \in {0, 1}, On(144, 1), reg6 % 2 = 0, x6 = reg6 + 1
      PROVE  (InReadData' \/ AtRead') /\ Framed'
  <2>1. Loads(6, reg6 + 1, 148)
    BY <1>0, <1>4, RegRange, RecvByteListing DEF On
  <2> QED
    BY <2>1, <1>0, <1>4, RegRange, MaskedAre, Addresses DEF On, Shown, Ours, Passes, Loads, Follows, PutReg, InReadData, AtRead, Link
<1> QED  BY <1>1, <1>2, <1>3, <1>4 DEF InReadData

LEMMA InByteStoredGoes ==
  ASSUME Going, TypeOK, x8 = 0, InByteStored
  PROVE  (InByteStored' \/ InByteLoop') /\ Framed'
<1>0. /\ stall = 0 => Listening
      /\ stall \in Nat /\ stall # 0 => Stall /\ stall - 1 \in Nat
      /\ Passes /\ Framed
      /\ x4 \in 0 .. 255 /\ x6 \in 0 .. 255 /\ x9 \in 0 .. 15
      /\ Cells \subseteq 0 .. 239
  BY GoingFacts, Places DEF TypeOK, MemByte
<1>1. CASE pc = 92 /\ stall \in Nat /\ busy = TailTime + 3 + stall
      /\ x4 + 1 = reg4 /\ x5 = reg5 + 1 /\ reg5 \in Cells
  <2>1. CASE stall = 0
    <3>1. Loads(5, reg5 + 1, 96)
      BY <1>0, <1>1, <2>1, RegRange, BootloadListing
    <3> QED
      BY <2>1, <3>1, <1>0, <1>1, RegRange, MaskedAre DEF On, Shown, Ours, Passes, Loads, Follows, PutReg, InByteStored, Ending, TailTime, InByteLoop
  <2>2. CASE stall # 0
    <3>1. /\ Framed' /\ pc' = pc /\ PutReg(0, 0) /\ UNCHANGED <<cells, out>>
          /\ stall' = stall - 1 /\ stall - 1 \in Nat
      BY <1>0, <1>1, <2>2, StallPasses
    <3> QED
      BY <2>2, <3>1, <1>0, <1>1, RegRange, MaskedAre DEF On, Shown, Ours, Passes, PutReg, InByteStored, Ending, TailTime, InByteLoop
  <2> QED  BY <2>1, <2>2
<1>2. CASE On(96, TailTime + 2) /\ x4 + 1 = reg4 /\ x5 = reg5
  <2>1. Loads(4, reg4 - 1, 100)
    BY <1>0, <1>2, RegRange, BootloadListing DEF On
  <2> QED
    BY <2>1, <1>0, <1>2, RegRange, MaskedAre DEF On, Shown, Ours, Passes, Loads, Follows, PutReg, InByteStored, Ending, TailTime, InByteLoop
<1>3. CASE On(100, TailTime + 1) /\ reg4 = x4 /\ reg5 = x5
  <2>1. Loads(0, 104, 80)
    BY <1>0, <1>3, RegRange, BootloadListing DEF On
  <2> QED
    BY <2>1, <1>0, <1>3, RegRange, MaskedAre DEF On, Shown, Ours, Passes, Loads, Follows, PutReg, InByteStored, Ending, TailTime, InByteLoop
<1> QED  BY <1>1, <1>2, <1>3 DEF InByteStored

LEMMA InByteLoopGoes ==
  ASSUME Going, TypeOK, x8 = 0, InByteLoop
  PROVE  (InByteLoop' \/ AtRead') /\ Framed'
<1>0. /\ stall = 0 => Listening
      /\ stall \in Nat /\ stall # 0 => Stall /\ stall - 1 \in Nat
      /\ Passes /\ Framed
      /\ x4 \in 0 .. 255 /\ x6 \in 0 .. 255 /\ x9 \in 0 .. 15
      /\ Cells \subseteq 0 .. 239
  BY GoingFacts, Places DEF TypeOK, MemByte
<1>1. CASE Ending /\ On(80, TailTime) /\ reg7 = 8
  <2>1. Loads(0, 0, IF reg4 = 0 THEN 104 ELSE 84)
    BY <1>0, <1>1, RegRange, BootloadListing DEF On
  <2> QED
    BY <2>1, <1>0, <1>1, RegRange, MaskedAre DEF On, Shown, Ours, Passes, Loads, Follows, PutReg, InByteLoop, Ending, TailTime
<1>2. CASE Ending /\ On(104, 1) /\ x4 = 0 /\ reg7 = 8
  <2>1. Loads(0, 108, LOAD_BASE)
    BY <1>0, <1>2, RegRange, BootloadListing DEF On
  <2> QED
    BY <2>1, <1>0, <1>2, RegRange, MaskedAre, Addresses DEF On, Shown, Ours, Passes, Loads, Follows, PutReg, InByteLoop, Ending, TailTime, AtRead, Link
<1>3. CASE Ending /\ On(84, 3) /\ x4 # 0
  <2>1. Loads(1, 88, 108)
    BY <1>0, <1>3, RegRange, BootloadListing DEF On
  <2> QED
    BY <2>1, <1>0, <1>3, RegRange, MaskedAre DEF On, Shown, Ours, Passes, Loads, Follows, PutReg, InByteLoop, Ending, TailTime
<1>4. CASE Ending /\ On(108, 2) /\ x4 # 0 /\ reg1 = 88
  <2>1. Loads(6, 0, 112)
    BY <1>0, <1>4, RegRange, RecvByteListing DEF On
  <2> QED
    BY <2>1, <1>0, <1>4, RegRange, MaskedAre DEF On, Shown, Ours, Passes, Loads, Follows, PutReg, InByteLoop, Ending, TailTime
<1>5. CASE Ending /\ On(112, 1) /\ x4 # 0 /\ reg1 = 88 /\ reg6 = 0
  <2>1. Loads(7, 0, 116)
    BY <1>0, <1>5, RegRange, RecvByteListing DEF On
  <2> QED
    BY <2>1, <1>0, <1>5, RegRange, MaskedAre, Addresses DEF On, Shown, Ours, Passes, Loads, Follows, PutReg, InByteLoop, Ending, TailTime, AtRead, Link
<1> QED  BY <1>1, <1>2, <1>3, <1>4, <1>5 DEF InByteLoop

\* RECV_BYTE returns.
LEMMA ReturnsGo ==
  ASSUME Going, NEW link \in {72, 88}, NEW n \in Nat, Returns(link, n)
  PROVE  /\ Returns(link, n)' \/ (On(link, n)' /\ reg7' = 8)
         /\ reg4' = reg4 /\ reg5' = reg5 /\ reg6' = reg6 /\ reg8' = reg8 /\ reg9' = reg9
         /\ cells' = cells /\ out' = out /\ Framed'
<1> DEFINE Kept == /\ reg4' = reg4 /\ reg5' = reg5 /\ reg6' = reg6 /\ reg8' = reg8 /\ reg9' = reg9
                   /\ cells' = cells /\ out' = out /\ Framed'
<1>0. (stall = 0 => Listening) /\ Passes /\ Framed /\ reg1 = link
  BY GoingFacts DEF Returns
<1>1. CASE On(152, n + 6) /\ (reg2 \div 2) % 2 = 0 /\ reg7 = 7
  <2>1. Loads(2, Masked(reg2, 2), 156)
    BY <1>0, <1>1, RegRange, RecvByteListing DEF On
  <2>2. Returns(link, n)'
    BY <1>0, <1>1, <2>1, RegRange, MaskedAre DEF On, Passes, Loads, Follows, PutReg, Returns
  <2>3. Kept
    BY <2>1 DEF Loads, Follows, PutReg
  <2> QED  BY <2>2, <2>3
<1>2. CASE On(156, n + 5) /\ reg2 = 0 /\ reg7 = 7
  <2>1. Loads(0, 0, IF reg2 # 0 THEN 148 ELSE 160)
    BY <1>0, <1>2, RegRange, RecvByteListing DEF On
  <2>2. Returns(link, n)'
    BY <1>0, <1>2, <2>1, RegRange, MaskedAre DEF On, Passes, Loads, Follows, PutReg, Returns
  <2>3. Kept
    BY <2>1 DEF Loads, Follows, PutReg
  <2> QED  BY <2>2, <2>3
<1>3. CASE On(160, n + 4) /\ reg7 = 7
  <2>1. Loads(7, reg7 + 1, 164)
    BY <1>0, <1>3, RegRange, RecvByteListing DEF On
  <2>2. Returns(link, n)'
    BY <1>0, <1>3, <2>1, RegRange, MaskedAre DEF On, Passes, Loads, Follows, PutReg, Returns
  <2>3. Kept
    BY <2>1 DEF Loads, Follows, PutReg
  <2> QED  BY <2>2, <2>3
<1>4. CASE On(164, n + 3) /\ reg7 = 8
  <2>1. Loads(3, 8, 168)
    BY <1>0, <1>4, RegRange, RecvByteListing DEF On
  <2>2. Returns(link, n)'
    BY <1>0, <1>4, <2>1, RegRange, MaskedAre DEF On, Passes, Loads, Follows, PutReg, Returns
  <2>3. Kept
    BY <2>1 DEF Loads, Follows, PutReg
  <2> QED  BY <2>2, <2>3
<1>5. CASE On(168, n + 2) /\ reg7 = 8 /\ reg3 = 8
  <2>1. Loads(0, 0, IF reg7 < 8 THEN 116 ELSE 172)
    BY <1>0, <1>5, RegRange, RecvByteListing DEF On
  <2>2. Returns(link, n)'
    BY <1>0, <1>5, <2>1, RegRange, MaskedAre DEF On, Passes, Loads, Follows, PutReg, Returns
  <2>3. Kept
    BY <2>1 DEF Loads, Follows, PutReg
  <2> QED  BY <2>2, <2>3
<1>6. CASE On(172, n + 1) /\ reg7 = 8
  <2>1. Loads(0, 176, reg1)
    BY <1>0, <1>6, RegRange, RecvByteListing DEF On
  <2>2. On(link, n)' /\ reg7' = 8
    BY <1>0, <1>6, <2>1, RegRange, MaskedAre DEF On, Passes, Loads, Follows, PutReg, Returns
  <2>3. Kept
    BY <2>1 DEF Loads, Follows, PutReg
  <2> QED  BY <2>2, <2>3
<1> QED  BY <1>1, <1>2, <1>3, <1>4, <1>5, <1>6 DEF Returns

LEMMA TailTimes == TailTime \in {2, 4} /\ \A a : StoreTime(a) \in 1 .. PsramTime
BY StoreTimes DEF TailTime

LEMMA InGotLengthGoes ==
  ASSUME Going, TypeOK, x8 = 0, InGotLength
  PROVE  (InGotLength' \/ InByteLoop') /\ Framed'
<1>0. (stall = 0 => Listening) /\ Passes /\ Framed
  BY GoingFacts
<1>1. CASE Returns(72, TailTime + 2)
  <2>1. PICK n \in Nat : n = TailTime + 2
    BY TailTimes
  <2>2. Returns(72, n) /\ 72 \in {72, 88}
    BY <1>1, <2>1
  <2>3. /\ Returns(72, n)' \/ (On(72, n)' /\ reg7' = 8)
        /\ reg4' = reg4 /\ reg5' = reg5 /\ reg6' = reg6 /\ reg8' = reg8 /\ reg9' = reg9
        /\ cells' = cells /\ out' = out /\ Framed'
    BY <2>2, ReturnsGo, Zenon
  <2>4. n = (TailTime + 2)'
    BY <1>0, <2>1 DEF Passes, TailTime
  <2>5. Returns(72, TailTime + 2)' \/ (On(72, TailTime + 2)' /\ reg7' = 8)
    BY <2>3, <2>4 DEF Returns, On
  <2>6. (Ending /\ cells = mem /\ x5 = LOAD_BASE /\ reg6 = x4)'
    BY <1>0, <2>3 DEF InGotLength, Ending, Shown, Passes
  <2> QED  BY <2>3, <2>5, <2>6 DEF InGotLength
<1>2. CASE On(72, TailTime + 2) /\ reg7 = 8
  <2>1. Loads(4, reg6, 76)
    BY <1>0, <1>2, BootloadListing DEF On
  <2> QED
    BY <1>0, <1>2, <2>1, TailTimes DEF On, Shown, Ending, Passes, Loads, Follows, PutReg,
       InGotLength, TailTime
<1>3. CASE On(76, TailTime + 1) /\ reg7 = 8 /\ reg4 = x4
  <2>1. Loads(5, LOAD_BASE, 80)
    BY <1>0, <1>3, BootloadListing DEF On
  <2> QED
    BY <1>0, <1>3, <2>1, TailTimes DEF On, Shown, Ours, Ending, Passes, Loads, Follows, PutReg,
       InGotLength, InByteLoop, TailTime
<1> QED  BY <1>1, <1>2, <1>3 DEF InGotLength

LEMMA InGotByteGoes ==
  ASSUME Going, TypeOK, x8 = 0, InGotByte
  PROVE  (InGotByte' \/ InByteStored') /\ Framed'
<1>0. (stall = 0 => Listening) /\ Passes /\ Framed
  BY GoingFacts
<1>1. CASE Returns(88, StoreTime(reg5) + 3 + TailTime)
  <2>1. PICK n \in Nat : n = StoreTime(reg5) + 3 + TailTime
    BY TailTimes, BootFacts
  <2>2. Returns(88, n) /\ 88 \in {72, 88}
    BY <1>1, <2>1
  <2>3. /\ Returns(88, n)' \/ (On(88, n)' /\ reg7' = 8)
        /\ reg4' = reg4 /\ reg5' = reg5 /\ reg6' = reg6 /\ reg8' = reg8 /\ reg9' = reg9
        /\ cells' = cells /\ out' = out /\ Framed'
    BY <2>2, ReturnsGo, Zenon
  <2>4. n = (StoreTime(reg5) + 3 + TailTime)'
    BY <1>0, <2>1, <2>3 DEF Passes, TailTime, StoreTime
  <2>5. \/ Returns(88, StoreTime(reg5) + 3 + TailTime)'
        \/ On(88, StoreTime(reg5) + 3 + TailTime)' /\ reg7' = 8
    BY <2>3, <2>4 DEF Returns, On
  <2>6. (/\ Ending /\ x4 + 1 = reg4 /\ x5 = reg5 + 1 /\ reg5 \in Cells
         /\ mem = [cells EXCEPT ![reg5] = reg6])'
    BY <1>0, <2>3 DEF InGotByte, Ending, Shown, Passes
  <2> QED  BY <2>3, <2>5, <2>6 DEF InGotByte
<1>2. CASE On(88, StoreTime(reg5) + 3 + TailTime) /\ reg7 = 8
  <2>1. Keeps(reg5, reg6, 92)
    BY <1>0, <1>2, BootloadListing DEF On, InGotByte
  <2>2. /\ pc' = 92 /\ stall' = StoreTime(reg5) - 1 /\ PutReg(0, 0) /\ out' = out
        /\ cells' = [cells EXCEPT ![reg5] = reg6] /\ Framed'
    BY <2>1 DEF Keeps, Follows
  <2>3. busy = StoreTime(reg5) + 3 + TailTime /\ busy' = busy - 1
    BY <1>0, <1>2 DEF On, Passes
  <2>4. stall' \in Nat /\ busy' = TailTime + 3 + stall'
    BY <2>2, <2>3, TailTimes, BootFacts
  <2>5. TailTime' = TailTime
    BY <1>0 DEF TailTime, Passes
  <2>6. Ending' /\ (cells = mem /\ x4 + 1 = reg4 /\ x5 = reg5 + 1 /\ reg5 \in Cells)' /\ reg7' = 8
    BY <1>0, <1>2, <2>2 DEF InGotByte, Ending, Shown, Passes, PutReg
  <2> QED  BY <2>2, <2>4, <2>5, <2>6 DEF InByteStored
<1> QED  BY <1>1, <1>2 DEF InGotByte

-----------------------------------------------------------------------------
\* A block begins: the words read the pins at the moment the block does.

LEMMA PinBits ==
  ASSUME DATA \in {0, 1}
  PROVE  /\ Pins % 2 = DATA
         /\ (Pins \div 2) % 2 = IF CLOCK THEN 1 ELSE 0
         /\ (Pins \div 4) % 2 = IF START THEN 1 ELSE 0
<1> DEFINE d == DATA
<1>1. d \in {0, 1}
  OBVIOUS
<1> HIDE DEF d
<1>2. /\ (4 + 2 + d) % 2 = d /\ ((4 + 2 + d) \div 2) % 2 = 1 /\ ((4 + 2 + d) \div 4) % 2 = 1
      /\ (4 + 0 + d) % 2 = d /\ ((4 + 0 + d) \div 2) % 2 = 0 /\ ((4 + 0 + d) \div 4) % 2 = 1
      /\ (0 + 2 + d) % 2 = d /\ ((0 + 2 + d) \div 2) % 2 = 1 /\ ((0 + 2 + d) \div 4) % 2 = 0
      /\ (0 + 0 + d) % 2 = d /\ ((0 + 0 + d) \div 2) % 2 = 0 /\ ((0 + 0 + d) \div 4) % 2 = 0
  BY <1>1
<1>3. Pins = (IF START THEN 4 ELSE 0) + (IF CLOCK THEN 2 ELSE 0) + d
  BY DEF Pins, d
<1>4. /\ Pins % 2 = d
      /\ (Pins \div 2) % 2 = IF CLOCK THEN 1 ELSE 0
      /\ (Pins \div 4) % 2 = IF START THEN 1 ELSE 0
  BY <1>2, <1>3
<1> QED  BY <1>4 DEF d

\* The words are where the next block begins.
Reading == Listening /\ AtRead /\ attached /\ x8 = 0 /\ TypeOK

LEMMA ReadingFacts ==
  ASSUME Reading
  PROVE  /\ Listening /\ Framed /\ DATA \in {0, 1} /\ attached /\ x8 = 0
         /\ busy = 0 /\ cells = mem /\ Shown /\ Ours /\ reg6 = x6 /\ reg7 = x7
         /\ x9 \in 0 .. 15 /\ x6 \in 0 .. 255
         /\ at = "SELFTEST" => pc = 0
         /\ at = "MAIN_LOOP" => pc = 36
         /\ at = "BIT_WAIT_HIGH" => pc = 116 /\ reg1 = Link
         /\ at = "BIT_DATA" => pc = 128 /\ reg1 = Link
         /\ at = "BIT_WAIT_LOW" => pc = 148 /\ reg1 = Link
         /\ at = "RUN" => pc = LOAD_BASE
BY Addresses DEF Reading, AtRead, Listening, TypeOK, MemByte

LEMMA SelfTestStarts ==
  ASSUME Reading, SelfTest
  PROVE  InSelfTest' /\ x8' = 0 /\ attached' /\ Framed'
<1>1. /\ Listening /\ Framed /\ attached /\ pc = 0 /\ cells = mem /\ Shown /\ Ours /\ reg7 = x7
      /\ at = "SELFTEST"
  BY ReadingFacts DEF SelfTest
<1>2. Loads(2, 165, 4)
  BY <1>1, SelfTestListing
<1>3. /\ at' = "MAIN_LOOP" /\ x6' = 165 /\ x8' = 0 /\ x9' = 0
      /\ x4' = x4 /\ x5' = x5 /\ x7' = x7 /\ attached' = attached
      /\ busy' = SelfTestTime - 1 /\ StoreByte(EXT_PSRAM_BASE, 165)
  BY <1>1 DEF SelfTest, Takes, SELFTEST_PATTERN
<1>4. busy' = 2 * PsramTime + 3
  BY <1>1, <1>3, BootFacts DEF SelfTestTime
<1>5. gpio_out' = gpio_out
  BY <1>3, BootFacts DEF StoreByte, LED_OUT
<1>6. mem' = [mem EXCEPT ![EXT_PSRAM_BASE] = 165]
  <2>1. in_ext_psram(EXT_PSRAM_BASE)
    BY BootFacts DEF in_ext_psram
  <2> QED  BY <1>1, <1>3, <2>1 DEF StoreByte
<1>7. /\ Framed' /\ pc' = 4 /\ stall' = 0 /\ cells' = cells /\ out' = out
      /\ reg2' = 165 /\ reg4' = reg4 /\ reg5' = reg5 /\ reg7' = reg7
  BY <1>2 DEF Loads, Follows, PutReg
<1>8. On(4, 2 * PsramTime + 3)'
  BY <1>4, <1>7 DEF On
<1>9. /\ (at = "MAIN_LOOP" /\ x6 = 165 /\ x9 = 0 /\ Shown)'
      /\ (reg4 = x4 /\ reg5 = x5 /\ reg7 = x7)'
      /\ (reg2 = 165 /\ mem = [cells EXCEPT ![EXT_PSRAM_BASE] = 165])'
  BY <1>1, <1>3, <1>5, <1>6, <1>7 DEF Shown, Ours
<1> QED  BY <1>1, <1>3, <1>7, <1>8, <1>9 DEF InSelfTest

LEMMA CountStarts ==
  ASSUME Reading, Count
  PROVE  InCount' /\ x8' = 0 /\ attached' /\ Framed'
<1>1. /\ Listening /\ Framed /\ attached /\ pc = 36 /\ cells = mem /\ Ours /\ reg6 = x6
      /\ reg7 = x7 /\ x8 = 0 /\ x9 \in 0 .. 15 /\ (Pins \div 4) % 2 = 0
  BY ReadingFacts, PinBits DEF Count
<1>2. Loads(2, Pins, 40)
  BY <1>1, MainLoopListing
<1>3. /\ at' = "MAIN_LOOP" /\ x9' = (x9 + 1) % 16 /\ gpio_out' = x8 + x9'
      /\ x4' = x4 /\ x5' = x5 /\ x6' = x6 /\ x7' = x7 /\ x8' = x8 /\ mem' = mem
      /\ attached' = attached /\ busy' = 7
  BY DEF Count, Takes
<1>4. gpio_out' = x9'
  BY <1>1, <1>3
<1> QED
  BY <1>1, <1>2, <1>3, <1>4 DEF InCount, Ours, On, Loads, Follows, PutReg

LEMMA BeginStarts ==
  ASSUME Reading, Begin
  PROVE  InBegin' /\ x8' = 0 /\ attached' /\ Framed'
<1>1. /\ Listening /\ Framed /\ attached /\ pc = 36 /\ cells = mem /\ Ours /\ Shown
      /\ x8 = 0 /\ (Pins \div 4) % 2 = 1
  BY ReadingFacts, PinBits DEF Begin
<1>2. Loads(2, Pins, 40)
  BY <1>1, MainLoopListing
<1>3. /\ at' = "BIT_WAIT_HIGH" /\ x1' = "LENGTH" /\ x6' = 0 /\ x7' = 0
      /\ x4' = x4 /\ x5' = x5 /\ x8' = x8 /\ x9' = x9 /\ mem' = mem /\ gpio_out' = gpio_out
      /\ attached' = attached /\ busy' = 5
  BY DEF Begin, Takes, memVars
<1> QED
  BY <1>1, <1>2, <1>3 DEF InBegin, Ours, Shown, On, Loads, Follows, PutReg

LEMMA WaitHighStarts ==
  ASSUME Reading, WaitHigh
  PROVE  InWaitHigh' /\ x8' = 0 /\ attached' /\ Framed'
<1>1. /\ Listening /\ Framed /\ attached /\ pc = 116 /\ cells = mem /\ Ours /\ Shown
      /\ reg6 = x6 /\ reg7 = x7 /\ reg1 = Link
      /\ x8 = 0 /\ (Pins \div 2) % 2 = IF CLOCK THEN 1 ELSE 0
  BY ReadingFacts, PinBits DEF WaitHigh
<1>2. Loads(2, Pins, 120)
  BY <1>1, RecvByteListing
<1>3. /\ at' = IF CLOCK THEN "BIT_DATA" ELSE "BIT_WAIT_HIGH"
      /\ x1' = x1 /\ x4' = x4 /\ x5' = x5 /\ x6' = x6 /\ x7' = x7 /\ x8' = x8 /\ x9' = x9
      /\ mem' = mem /\ gpio_out' = gpio_out /\ attached' = attached /\ busy' = 2
  BY DEF WaitHigh, Takes, memVars, regVars
<1> QED
  BY <1>1, <1>2, <1>3 DEF InWaitHigh, Ours, Shown, Link, On, Loads, Follows, PutReg

LEMMA ReadDataStarts ==
  ASSUME Reading, ReadData
  PROVE  InReadData' /\ x8' = 0 /\ attached' /\ Framed'
<1> DEFINE d == DATA
<1>1. /\ Listening /\ Framed /\ attached /\ pc = 128 /\ cells = mem /\ Ours /\ Shown
      /\ reg6 = x6 /\ reg7 = x7 /\ reg1 = Link
      /\ x8 = 0 /\ Pins % 2 = d /\ d \in {0, 1}
  BY ReadingFacts, PinBits DEF ReadData
<1>2. Loads(2, Pins, 132)
  BY <1>1, RecvByteListing
<1>3. /\ at' = "BIT_WAIT_LOW" /\ x6' = 2 * x6 + d /\ busy' = (4 + d) - 1
      /\ x1' = x1 /\ x4' = x4 /\ x5' = x5 /\ x7' = x7 /\ x8' = x8 /\ x9' = x9
      /\ mem' = mem /\ gpio_out' = gpio_out /\ attached' = attached
  BY DEF ReadData, Takes, memVars
<1> HIDE DEF d
<1>4. PICK e \in {0, 1} : e = d
  BY <1>1
<1>5. On(132, 3 + e)' /\ (reg2 % 2 = e)' /\ (x6 = 2 * reg6 + e)'
  BY <1>1, <1>2, <1>3, <1>4 DEF On, Loads, Follows, PutReg
<1>6. (at = "BIT_WAIT_LOW" /\ cells = mem /\ Shown /\ Ours /\ reg7 = x7 /\ reg1 = Link)'
  BY <1>1, <1>2, <1>3 DEF Ours, Shown, Link, Loads, Follows, PutReg
<1>7. x8' = 0 /\ attached' /\ Framed'
  BY <1>1, <1>2, <1>3 DEF Loads, Follows
<1> QED  BY <1>5, <1>6, <1>7 DEF InReadData

LEMMA WaitLowStarts ==
  ASSUME Reading, WaitLow
  PROVE  InWaitLow' /\ x8' = 0 /\ attached' /\ Framed'
<1>1. /\ Listening /\ Framed /\ attached /\ pc = 148 /\ cells = mem /\ Ours /\ Shown
      /\ reg6 = x6 /\ reg7 = x7 /\ reg1 = Link /\ x8 = 0 /\ (Pins \div 2) % 2 = 1
  BY ReadingFacts, PinBits DEF WaitLow
<1>2. Loads(2, Pins, 152)
  BY <1>1, RecvByteListing
<1>3. /\ at' = "BIT_WAIT_LOW" /\ busy' = 2
      /\ x1' = x1 /\ x4' = x4 /\ x5' = x5 /\ x6' = x6 /\ x7' = x7 /\ x8' = x8 /\ x9' = x9
      /\ mem' = mem /\ gpio_out' = gpio_out /\ attached' = attached
  BY DEF WaitLow, Takes, memVars, regVars
<1> QED
  BY <1>1, <1>2, <1>3 DEF InWaitLow, Ours, Shown, Link, On, Loads, Follows, PutReg

LEMMA NextBitStarts ==
  ASSUME Reading, NextBit
  PROVE  InNextBit' /\ x8' = 0 /\ attached' /\ Framed'
<1>1. /\ Listening /\ Framed /\ attached /\ pc = 148 /\ cells = mem /\ Ours /\ Shown
      /\ reg6 = x6 /\ reg7 = x7 /\ reg1 = Link /\ x8 = 0 /\ (Pins \div 2) % 2 = 0
      /\ reg7 \in 0 .. 255 /\ x7 < 7
  BY ReadingFacts, PinBits, RegRange DEF NextBit
<1>2. Loads(2, Pins, 152)
  BY <1>1, RecvByteListing
<1>3. /\ at' = "BIT_WAIT_HIGH" /\ busy' = 5 /\ x7' = x7 + 1
      /\ x1' = x1 /\ x4' = x4 /\ x5' = x5 /\ x6' = x6 /\ x8' = x8 /\ x9' = x9
      /\ mem' = mem /\ gpio_out' = gpio_out /\ attached' = attached
  BY DEF NextBit, Takes, memVars
<1> QED
  BY <1>1, <1>2, <1>3 DEF InNextBit, Ours, Shown, Link, On, Loads, Follows, PutReg

\* What BYTE_LOOP decides, when the block before it has taken n instructions.
LEMMA ByteLoopStarts ==
  ASSUME NEW n \in Nat, NEW left, ByteLoop(n, left), x4' = left, x7 = 7
  PROVE  /\ busy' = n + TailTime' - 1 /\ attached' = attached
         /\ x4' = 0 => at' = "RUN" /\ x7' = 8 /\ x6' = x6
         /\ x4' # 0 => at' = "BIT_WAIT_HIGH" /\ x1' = "BYTE" /\ x6' = 0 /\ x7' = 0
BY DEF ByteLoop, Takes, TailTime

LEMMA GotLengthStarts ==
  ASSUME Reading, GotLength
  PROVE  InGotLength' /\ x8' = 0 /\ attached' /\ Framed'
<1>1. /\ Listening /\ Framed /\ attached /\ pc = 148 /\ cells = mem /\ Ours /\ Shown
      /\ reg6 = x6 /\ reg7 = x7 /\ reg1 = 72 /\ x8 = 0 /\ (Pins \div 2) % 2 = 0 /\ x7 = 7
  BY ReadingFacts, PinBits DEF GotLength, Link
<1>2. Loads(2, Pins, 152)
  BY <1>1, RecvByteListing
<1>3. /\ x4' = x6 /\ x5' = LOAD_BASE /\ ByteLoop(9, x6) /\ x8' = x8 /\ x9' = x9
      /\ mem' = mem /\ gpio_out' = gpio_out
  BY DEF GotLength, memVars
<1>4. /\ busy' = 9 + TailTime' - 1 /\ attached' = attached
      /\ x4' = 0 => at' = "RUN" /\ x7' = 8 /\ x6' = x6
      /\ x4' # 0 => at' = "BIT_WAIT_HIGH" /\ x1' = "BYTE" /\ x6' = 0 /\ x7' = 0
  BY <1>1, <1>3, ByteLoopStarts
<1>5. TailTime' \in {2, 4}
  BY DEF TailTime
<1>6. busy' = TailTime' + 2 + 6
  BY <1>4, <1>5
<1>7. /\ Framed' /\ pc' = 152 /\ stall' = 0 /\ cells' = cells /\ out' = out /\ reg2' = Pins
      /\ reg1' = reg1 /\ reg4' = reg4 /\ reg5' = reg5 /\ reg6' = reg6 /\ reg7' = reg7
      /\ reg8' = reg8 /\ reg9' = reg9
  BY <1>2 DEF Loads, Follows, PutReg
<1>8. Returns(72, TailTime + 2)'
  BY <1>1, <1>6, <1>7 DEF Returns, On
<1>9. (Ending /\ cells = mem /\ x5 = LOAD_BASE /\ reg6 = x4)'
  BY <1>1, <1>3, <1>4, <1>7 DEF Ending, Shown, Ours
<1> QED  BY <1>1, <1>3, <1>4, <1>7, <1>8, <1>9 DEF InGotLength

LEMMA GotByteStarts ==
  ASSUME Reading, BootIInv, GotByte
  PROVE  InGotByte' /\ x8' = 0 /\ attached' /\ Framed'
<1>1. /\ Listening /\ Framed /\ attached /\ pc = 148 /\ cells = mem /\ Ours /\ Shown
      /\ reg6 = x6 /\ reg7 = x7 /\ reg1 = 88 /\ x8 = 0 /\ (Pins \div 2) % 2 = 0 /\ x7 = 7
  BY ReadingFacts, PinBits DEF GotByte, Link
<1>2. Loads(2, Pins, 152)
  BY <1>1, RecvByteListing
<1>3. /\ x5 \in Cells /\ x5 <= 239 /\ mem' = [mem EXCEPT ![x5] = x6] /\ gpio_out' = gpio_out
  BY StoreInPlace
<1>4. x5 \in Nat /\ x5 % 256 = x5 /\ x4 \in Nat /\ x4 > 0
  <2>1. x5 \in 0 .. 239
    BY <1>3, Places
  <2>2. /\ x5 \in LOAD_BASE .. LOAD_BASE + Len(image) - 1
        /\ x4 = Len(image) - (x5 - LOAD_BASE)
    BY LoadFacts DEF GotByte
  <2>3. Len(image) \in 0 .. 255
    BY PinFacts DEF Reading
  <2> QED  BY <2>1, <2>2, <2>3, BootFacts
<1>5. /\ x5' = x5 + 1 /\ x4' = x4 - 1 /\ ByteLoop(10 + StoreTime(x5), x4 - 1)
      /\ x8' = x8 /\ x9' = x9
  BY <1>4 DEF GotByte
<1>6. PICK n \in Nat : n = 10 + StoreTime(x5)
  BY StoreTimes, BootFacts
<1>7. /\ busy' = n + TailTime' - 1 /\ attached' = attached
      /\ x4' = 0 => at' = "RUN" /\ x7' = 8 /\ x6' = x6
      /\ x4' # 0 => at' = "BIT_WAIT_HIGH" /\ x1' = "BYTE" /\ x6' = 0 /\ x7' = 0
  BY <1>1, <1>5, <1>6, ByteLoopStarts
<1>8. /\ Framed' /\ pc' = 152 /\ stall' = 0 /\ cells' = cells /\ out' = out /\ reg2' = Pins
      /\ reg1' = reg1 /\ reg4' = reg4 /\ reg5' = reg5 /\ reg6' = reg6 /\ reg7' = reg7
      /\ reg8' = reg8 /\ reg9' = reg9
  BY <1>2 DEF Loads, Follows, PutReg
<1>9. busy' = StoreTime(reg5)' + 3 + TailTime' + 6
  <2>1. reg5' = x5
    BY <1>1, <1>8 DEF Ours
  <2>2. StoreTime(reg5)' = StoreTime(x5)
    BY <2>1 DEF StoreTime
  <2>3. TailTime' \in {2, 4} /\ StoreTime(x5) \in Nat
    BY StoreTimes, BootFacts DEF TailTime
  <2> QED  BY <1>6, <1>7, <2>2, <2>3
<1>10. Returns(88, StoreTime(reg5) + 3 + TailTime)'
  BY <1>1, <1>8, <1>9 DEF Returns, On
<1>11. (/\ Ending /\ x4 + 1 = reg4 /\ x5 = reg5 + 1 /\ reg5 \in Cells
        /\ mem = [cells EXCEPT ![reg5] = reg6])'
  BY <1>1, <1>3, <1>4, <1>5, <1>7, <1>8 DEF Ending, Shown, Ours
<1> QED  BY <1>1, <1>5, <1>7, <1>8, <1>10, <1>11 DEF InGotByte

\* A host of the benches sends the hand-off stub, with or without more behind it.
SendsStub ==
  \A p \in Images : Len(p) >= 4 /\ \A j \in 0 .. 3 : p[j + 1] = Val(ProgramByte(Stub, j), 8)

LEMMA LoadedStarts ==
  ASSUME Reading, BootIInv, SendsStub, Loaded
  PROVE  HandsOff
<1>1. /\ Framed /\ Instruction /\ pc = LOAD_BASE /\ cells = mem /\ attached /\ at = "RUN"
  BY ReadingFacts DEF Loaded, Listening
<1>2. image \in Images
  BY DEF BootIInv, TypeOK
<1>3. Len(image) \in 0 .. 255 /\ Len(image) >= 4
      /\ \A j \in 0 .. 3 : image[j + 1] = Val(ProgramByte(Stub, j), 8)
  BY <1>2, ImageFacts DEF SendsStub
<1>4. LOAD_BASE + Len(image) <= EXT_PSRAM_BASE + EXT_PSRAM_BYTES
      /\ \A i \in 1 .. Len(image) : mem[LOAD_BASE + i - 1] = image[i]
  BY <1>1 DEF BootIInv, Content, Fits
<1>5. StubInCells
  <2> SUFFICES ASSUME NEW j \in 0 .. 3
               PROVE  LOAD_BASE + j \in Cells
                      /\ cells[LOAD_BASE + j] = Val(ProgramByte(Stub, j), 8)
    BY DEF StubInCells
  <2>1. LOAD_BASE + j \in Cells
    BY <1>3, <1>4, BootFacts DEF Cells
  <2>2. j + 1 \in 1 .. Len(image) /\ LOAD_BASE + (j + 1) - 1 = LOAD_BASE + j
    BY <1>3, BootFacts
  <2>3. mem[LOAD_BASE + (j + 1) - 1] = image[j + 1]
    BY <1>4, <2>2
  <2>4. image[j + 1] = Val(ProgramByte(Stub, j), 8)
    BY <1>3
  <2> QED  BY <1>1, <2>1, <2>2, <2>3, <2>4
<1> QED  BY <1>1, <1>5, StubLine

-----------------------------------------------------------------------------
\* A step in which neither the words nor the blocks move.
LEMMA Frozen ==
  ASSUME InPlace, UNCHANGED <<chipVars, codeVars, stall>>
  PROVE  InPlace'
<1>1. /\ UNCHANGED <<rom, regs, ram, mode, page, store>> /\ pc' = pc /\ out' = out /\ stall' = stall
      /\ at' = at /\ busy' = busy /\ x1' = x1 /\ x4' = x4 /\ x5' = x5 /\ x6' = x6 /\ x7' = x7
      /\ x8' = x8 /\ x9' = x9 /\ mem' = mem /\ gpio_out' = gpio_out /\ attached' = attached
  BY DEF codeVars, chipVars, regVars, memVars
<1>2. file' = file
  BY <1>1 DEF file
<1>3. cells' = cells
  BY <1>1 DEF cells, Cell
<1>4. Framed' = Framed
  BY <1>1, <1>2, <1>3 DEF Framed, Cell, RomImage
<1>5. /\ reg1' = reg1 /\ reg2' = reg2 /\ reg3' = reg3 /\ reg4' = reg4 /\ reg5' = reg5
      /\ reg6' = reg6 /\ reg7' = reg7 /\ reg8' = reg8 /\ reg9' = reg9
  BY <1>2 DEF reg1, reg2, reg3, reg4, reg5, reg6, reg7, reg8, reg9
<1>6. AtRead' = AtRead
  BY <1>1, <1>3, <1>5 DEF AtRead, Shown, Ours, Link, Address
<1>7. /\ InSelfTest' = InSelfTest /\ InCount' = InCount /\ InBegin' = InBegin
      /\ InWaitHigh' = InWaitHigh /\ InWaitLow' = InWaitLow /\ InNextBit' = InNextBit
  BY <1>1, <1>3, <1>5
     DEF On, Shown, Ours, Link, InSelfTest, InCount, InBegin, InWaitHigh, InWaitLow, InNextBit
<1>8. InReadData' = InReadData
  BY <1>1, <1>3, <1>5 DEF On, Shown, Ours, Link, InReadData
<1>9. Ending' = Ending /\ TailTime' = TailTime /\ StoreTime(reg5)' = StoreTime(reg5)
  BY <1>1, <1>5 DEF Ending, Shown, TailTime, StoreTime
<1>10. /\ InGotLength' = InGotLength /\ InGotByte' = InGotByte
       /\ InByteStored' = InByteStored /\ InByteLoop' = InByteLoop
  BY <1>1, <1>3, <1>5, <1>9
     DEF On, Shown, Ours, Returns, InGotLength, InGotByte, InByteStored, InByteLoop
<1> QED
  BY <1>1, <1>4, <1>6, <1>7, <1>8, <1>10 DEF InPlace, Between

\* Every row of a block has instructions of it left.
LEMMA BetweenBusy == Between => busy # 0
<1> SUFFICES ASSUME Between PROVE busy # 0
  OBVIOUS
<1>1. PsramTime \in Nat /\ PsramTime > 0 /\ TailTime \in {2, 4}
      /\ \A a : StoreTime(a) \in 1 .. PsramTime
  BY TailTimes, BootFacts
<1>2. \A link, n : n \in Nat /\ Returns(link, n) => busy # 0
  BY DEF Returns, On
<1>3. ~InSelfTest \/ busy # 0
  BY <1>1 DEF InSelfTest, On
<1>4. ~(InCount \/ InBegin \/ InWaitHigh \/ InWaitLow \/ InNextBit) \/ busy # 0
  BY DEF InCount, InBegin, InWaitHigh, InWaitLow, InNextBit, On
<1>5. ~InReadData \/ busy # 0
  BY DEF InReadData, On
<1>6. ~InGotLength \/ busy # 0
  <2>1. TailTime + 2 \in Nat /\ TailTime + 2 # 0 /\ TailTime + 1 # 0
    BY <1>1
  <2> QED  BY <1>2, <2>1 DEF InGotLength, On
<1>7. ~InGotByte \/ busy # 0
  <2>1. StoreTime(reg5) + 3 + TailTime \in Nat /\ StoreTime(reg5) + 3 + TailTime # 0
    BY <1>1
  <2> QED  BY <1>2, <2>1 DEF InGotByte, On
<1>8. ~(InByteStored \/ InByteLoop) \/ busy # 0
  BY <1>1 DEF InByteStored, InByteLoop, On
<1> QED  BY <1>3, <1>4, <1>5, <1>6, <1>7, <1>8 DEF Between

\* A step of the chip in the middle of a block.
LEMMA BetweenGoes ==
  ASSUME Fitting, TypeOK, DATA \in {0, 1}, InPlace, Work, Instruction \/ Stall
  PROVE  InPlace'
<1>1. Passes /\ Going /\ x8 = 0 /\ attached /\ busy > 0
  BY WorkPasses DEF Going, InPlace, Work
<1>2. Between
  BY <1>1 DEF InPlace, AtRead
<1>3. (AtRead' \/ Between') /\ Framed'
  <2>1. CASE InSelfTest
    BY <1>1, <2>1, InSelfTestGoes DEF Between
  <2>2. CASE InCount
    BY <1>1, <2>2, InCountGoes DEF Between
  <2>3. CASE InBegin
    BY <1>1, <2>3, InBeginGoes DEF Between
  <2>4. CASE InWaitHigh
    BY <1>1, <2>4, InWaitHighGoes DEF Between
  <2>5. CASE InReadData
    BY <1>1, <2>5, InReadDataGoes DEF Between
  <2>6. CASE InWaitLow
    BY <1>1, <2>6, InWaitLowGoes DEF Between
  <2>7. CASE InNextBit
    BY <1>1, <2>7, InNextBitGoes DEF Between
  <2>8. CASE InGotLength
    BY <1>1, <2>8, InGotLengthGoes DEF Between
  <2>9. CASE InGotByte
    BY <1>1, <2>9, InGotByteGoes DEF Between
  <2>10. CASE InByteStored
    BY <1>1, <2>10, InByteStoredGoes DEF Between
  <2>11. CASE InByteLoop
    BY <1>1, <2>11, InByteLoopGoes DEF Between
  <2> QED
    BY <1>2, <2>1, <2>2, <2>3, <2>4, <2>5, <2>6, <2>7, <2>8, <2>9, <2>10, <2>11 DEF Between
<1>4. x8' = 0 /\ attached'
  BY <1>1 DEF Passes
<1> QED  BY <1>3, <1>4 DEF InPlace

\* What the stub has begun stays so.
LEMMA ModeStays ==
  ASSUME mode = TRUE, Instruction \/ Stall
  PROVE  mode' = TRUE
<1>1. CASE Instruction
  <2>1. Steps(ReadsAt(pc, 4))
    BY <1>1, InstructionIs
  <2> DEFINE w == ReadsAt(pc, 4)
  <2> HIDE DEF w
  <2> QED  BY <2>1 DEF Steps, w
<1>2. CASE Stall
  BY <1>2 DEF Stall, codeVars
<1> QED
  <2> DEFINE done == mode' = TRUE
  <2>1. (Instruction => done) /\ (Stall => done) /\ (Instruction \/ Stall)
    BY <1>1, <1>2, Zenon
  <2> HIDE DEF done
  <2>2. done
    BY <2>1, Zenon
  <2> QED  BY <2>2 DEF done

\* The benches begin where the ROM does.
LEMMA BenchStarts == Fitting /\ BenchInit => InPlace
<1> SUFFICES ASSUME Fitting, BenchInit PROVE InPlace
  OBVIOUS
<1>1. /\ at = "SELFTEST" /\ busy = 0 /\ x4 = 0 /\ x5 = 0 /\ x6 = 0 /\ x7 = 0 /\ x8 = 0 /\ x9 = 0
      /\ mem \in [Cells -> 0 .. 255] /\ gpio_out = 0 /\ attached
      /\ rom = RomImage /\ pc = 0 /\ mode = FALSE /\ page = 0 /\ out = Zeros(8) /\ stall = 0
  BY BootAssumption DEF BenchInit, Init, MemByte
<1>2. regs = [n \in 1 .. 31 |-> Zeros(32)]
      /\ ram = [a \in RAM_BASE .. RAM_BASE + RAM_BYTES - 1 |-> ToBits(mem[a], 8)]
  BY DEF BenchInit
<1>3. /\ "psram" \in DOMAIN store
      /\ store["psram"] = [x \in Index |->
           IF Val(x, IdxBits) < EXT_PSRAM_BYTES
             THEN ToBits(mem[EXT_PSRAM_BASE + Val(x, IdxBits)], 8) ELSE Zeros(8)]
  BY DEF BenchInit
<1>4. Zeros(32) = Num(0) /\ Zeros(8) = ToBits(0, 8)
  BY DEF Zeros, Num, ToBits
<1>5. file = [n \in 1 .. 9 |-> 0] /\ \A n \in 1 .. 9 : regs[n] = Num(0)
  <2>1. \A n \in 1 .. 9 : regs[n] = Num(0)
    BY <1>2, <1>4
  <2>2. Val(Num(0), 8) = 0
    BY NumFacts
  <2> QED  BY <2>1, <2>2 DEF file
<1>6. \A a \in Cells : Cell(a) = ToBits(mem[a], 8)
  <2> SUFFICES ASSUME NEW a \in Cells PROVE Cell(a) = ToBits(mem[a], 8)
    OBVIOUS
  <2>1. CASE in_ram_range(a)
    <3>1. a \in RAM_BASE .. RAM_BASE + RAM_BYTES - 1
      BY <2>1, Places, BootFacts DEF in_ram_range, Cells
    <3> QED  BY <1>2, <2>1, <3>1 DEF Cell
  <2>2. CASE ~in_ram_range(a)
    <3> DEFINE m == a - EXT_PSRAM_BASE
               x == Idx(ToBits(m, 24))
    <3>1. m \in 0 .. EXT_PSRAM_BYTES - 1 /\ m \in 0 .. 255 /\ EXT_PSRAM_BASE + m = a
      <4>1. a \in 0 .. 239 /\ m \in 0 .. EXT_PSRAM_BYTES - 1
        BY <2>2, Places
      <4>2. EXT_PSRAM_BYTES \in 1 .. 252 /\ EXT_PSRAM_BASE \in 0 .. 239
        BY BootFacts
      <4> QED  BY <4>1, <4>2
    <3>2. x \in Index
      BY <3>1, InIndex
    <3>3. Val(x, IdxBits) = m
      BY <3>1, PlaceNumber
    <3> HIDE DEF m
    <3>4. m < EXT_PSRAM_BYTES
      BY <3>1, BootFacts
    <3> HIDE DEF x
    <3>5. store["psram"][x] = ToBits(mem[EXT_PSRAM_BASE + m], 8)
      BY <1>3, <3>2, <3>3, <3>4
    <3> QED  BY <2>2, <3>1, <3>5 DEF Cell, m, x
  <2> QED  BY <2>1, <2>2
<1>7. cells = mem
  <2>1. \A a \in Cells : mem[a] \in 0 .. 255
    BY <1>1
  <2>2. \A a \in Cells : Val(ToBits(mem[a], 8), 8) = mem[a]
    BY <2>1, NumFacts
  <2> QED  BY <1>1, <1>6, <2>2 DEF cells
<1>8. Framed
  BY <1>1, <1>2, <1>3, <1>5, <1>6, <1>7 DEF Framed
<1>9. reg4 = 0 /\ reg5 = 0 /\ reg6 = 0 /\ reg7 = 0 /\ reg8 = 0 /\ reg9 = 0
  BY <1>5 DEF reg4, reg5, reg6, reg7, reg8, reg9
<1> QED  BY <1>1, <1>4, <1>7, <1>8, <1>9, Addresses DEF InPlace, AtRead, Shown, Ours

\* One step of the chip before the stub has run.
LEMMA PlaceGoes ==
  ASSUME Fitting, SendsStub, BootIInv, InPlace, RunCode
  PROVE  InPlace' \/ HandsOff
<1>pins. TypeOK /\ DATA \in {0, 1}
  BY PinFacts DEF BootIInv
<1>0. Chip /\ (Instruction \/ Stall) /\ attached /\ x8 = 0 /\ Framed
  BY DEF RunCode, InPlace
<1>1. CASE Work
  BY <1>pins, <1>0, <1>1, BetweenGoes
<1>2. ASSUME busy = 0 PROVE Reading
  <2>1. AtRead
    BY <1>2, BetweenBusy DEF InPlace
  <2>2. Instruction
    BY <1>0, <2>1 DEF AtRead, Stall
  <2> QED  BY <1>pins, <1>0, <2>1, <2>2 DEF Reading, Listening
<1>3. ~Work => busy = 0
  BY <1>0 DEF Chip, SelfTest, Count, Begin, WaitHigh, ReadData, WaitLow, NextBit, GotLength,
              GotByte, ByteLoop, Loaded, Takes
<1>4. CASE busy = 0 /\ SelfTest
  <2>1. InSelfTest' /\ x8' = 0 /\ attached' /\ Framed'
    BY <1>2, <1>4, SelfTestStarts
  <2> QED  BY <2>1 DEF InPlace, Between
<1>5. CASE busy = 0 /\ Count
  <2>1. InCount' /\ x8' = 0 /\ attached' /\ Framed'
    BY <1>2, <1>5, CountStarts
  <2> QED  BY <2>1 DEF InPlace, Between
<1>6. CASE busy = 0 /\ Begin
  <2>1. InBegin' /\ x8' = 0 /\ attached' /\ Framed'
    BY <1>2, <1>6, BeginStarts
  <2> QED  BY <2>1 DEF InPlace, Between
<1>7. CASE busy = 0 /\ WaitHigh
  <2>1. InWaitHigh' /\ x8' = 0 /\ attached' /\ Framed'
    BY <1>2, <1>7, WaitHighStarts
  <2> QED  BY <2>1 DEF InPlace, Between
<1>8. CASE busy = 0 /\ ReadData
  <2>1. InReadData' /\ x8' = 0 /\ attached' /\ Framed'
    BY <1>2, <1>8, ReadDataStarts
  <2> QED  BY <2>1 DEF InPlace, Between
<1>9. CASE busy = 0 /\ WaitLow
  <2>1. InWaitLow' /\ x8' = 0 /\ attached' /\ Framed'
    BY <1>2, <1>9, WaitLowStarts
  <2> QED  BY <2>1 DEF InPlace, Between
<1>10. CASE busy = 0 /\ NextBit
  <2>1. InNextBit' /\ x8' = 0 /\ attached' /\ Framed'
    BY <1>2, <1>10, NextBitStarts
  <2> QED  BY <2>1 DEF InPlace, Between
<1>11. CASE busy = 0 /\ GotLength
  <2>1. InGotLength' /\ x8' = 0 /\ attached' /\ Framed'
    BY <1>2, <1>11, GotLengthStarts
  <2> QED  BY <2>1 DEF InPlace, Between
<1>12. CASE busy = 0 /\ GotByte
  <2>1. InGotByte' /\ x8' = 0 /\ attached' /\ Framed'
    BY <1>2, <1>12, GotByteStarts
  <2> QED  BY <2>1 DEF InPlace, Between
<1>13. CASE busy = 0 /\ Loaded
  BY <1>2, <1>13, LoadedStarts
<1> QED
  BY <1>0, <1>1, <1>3, <1>4, <1>5, <1>6, <1>7, <1>8, <1>9, <1>10, <1>11, <1>12, <1>13 DEF Chip

\* One step of the benches.
LEMMA FollowKept ==
  ASSUME Fitting, SendsStub, BootIInv, Follow, [BenchNext]_benchVars
  PROVE  Follow'
<1>1. ASSUME RunCode, Handed PROVE Handed'
  BY <1>1, ModeStays DEF RunCode, Handed
<1>2. ASSUME RunCode, InPlace PROVE Handed' \/ InPlace'
  BY <1>2, PlaceGoes DEF Handed, HandsOff
<1>3. ASSUME Host PROVE UNCHANGED <<chipVars, codeVars, stall>>
  BY <1>3 DEF Host, Sending, HostStart, HostNextBit, HostRaise, HostLower, HostMoves
<1>4. ASSUME UNCHANGED benchVars PROVE UNCHANGED <<chipVars, codeVars, stall>>
  BY <1>4 DEF benchVars, vars
<1>5. ASSUME UNCHANGED <<chipVars, codeVars, stall>> PROVE Follow'
  <2>1. ASSUME Handed PROVE Handed'
    BY <1>5, <2>1 DEF codeVars, Handed
  <2> QED  BY <1>5, <2>1, Frozen DEF Follow
<1>6. ASSUME RunCode PROVE Follow'
  BY <1>1, <1>2, <1>6 DEF Follow
<1> QED  BY <1>3, <1>4, <1>5, <1>6 DEF BenchNext

\* At a read of the pins the words and the blocks agree.
LEMMA FollowShows == Follow => CodeFollowsBlocks
<1> SUFFICES ASSUME Follow, busy = 0, ~mode PROVE CodeFollowsBlocks
  BY DEF CodeFollowsBlocks
<1>1. InPlace /\ AtRead
  BY BetweenBusy DEF Follow, InPlace, Handed
<1>2. /\ Framed /\ stall = 0 /\ pc = Address(at) /\ cells = mem /\ out = ToBits(gpio_out, 8)
      /\ reg4 = x4 /\ reg5 = x5 /\ reg6 = x6 /\ reg7 = x7 /\ reg8 = x8 /\ reg9 = x9
      /\ at \in {"BIT_WAIT_HIGH", "BIT_DATA", "BIT_WAIT_LOW"} => reg1 = Link
  BY <1>1 DEF InPlace, AtRead, Shown, Ours
<1>3. \A n \in 1 .. 9 : regs[n] = ToBits(file[n], 32)
  BY <1>2 DEF Framed, Num
<1>4. /\ regs[1] = ToBits(reg1, 32)
      /\ regs[4] = ToBits(x4, 32) /\ regs[5] = ToBits(x5, 32) /\ regs[6] = ToBits(x6, 32)
      /\ regs[7] = ToBits(x7, 32) /\ regs[8] = ToBits(x8, 32) /\ regs[9] = ToBits(x9, 32)
  BY <1>2, <1>3 DEF reg1, reg4, reg5, reg6, reg7, reg8, reg9
<1>5. Link = IF x1 = "LENGTH" THEN START_SEEN + 4 ELSE BYTE_LOOP + 8
  BY DEF Link, START_SEEN, BYTE_LOOP
<1>6. \A a \in Cells : Cell(a) = ToBits(mem[a], 8)
  BY <1>2 DEF Framed
<1> HIDE DEF Link
<1>7. at \in {"BIT_WAIT_HIGH", "BIT_DATA", "BIT_WAIT_LOW"} =>
        regs[1] = ToBits(IF x1 = "LENGTH" THEN START_SEEN + 4 ELSE BYTE_LOOP + 8, 32)
  BY <1>2, <1>4, <1>5
<1> QED  BY <1>2, <1>4, <1>6, <1>7 DEF CodeFollowsBlocks

\* A bench is a chip and a host, its host one that gives the chip time.
LEMMA BenchIsBoot ==
  /\ BenchInit => Init
  /\ [BenchNext]_benchVars => [Next]_vars
<1>1. BenchInit => Init
  BY DEF BenchInit
<1>2. BenchNext => Next
  BY DEF BenchNext, RunCode, Host, Next
<1>3. UNCHANGED benchVars => UNCHANGED vars
  BY DEF benchVars
<1> QED  BY <1>1, <1>2, <1>3

\* The blocks of BootRom are what the words of the boot ROM do on the core, for
\* every program that starts with the stub, every content of the memory, every
\* time of the START pin and every duration of an access to the PSRAM: at each
\* read of the pins until the stub has run, the words are at the instruction
\* that reads them, with the registers, memory and output pins of the blocks.
THEOREM BenchFollows ==
  ASSUME EnoughTime, Fitting, SendsStub
  PROVE  BenchSpec => []CodeFollowsBlocks
<1> DEFINE Inv == BootIInv /\ Follow
<1>1. BenchInit => Inv
  BY BenchIsBoot, BootInit, BenchStarts DEF Follow
<1>2. Inv /\ [BenchNext]_benchVars => Inv'
  BY BenchIsBoot, BootStep, FollowKept
<1>3. Inv => CodeFollowsBlocks
  BY FollowShows
<1> HIDE DEF Inv
<1> QED  BY <1>1, <1>2, <1>3, PTL DEF BenchSpec

-----------------------------------------------------------------------------
\* The image in the flash, from the first of its words that runs to the loop
\* that ends it: what the registers and the output have been so far, by page
\* and word.

\* The images are those of the two benches.
OurTests ==
  Tests \subseteq { [image |-> Canary, shows |-> << 42 >>],
                    [image |-> PageTest, shows |-> <<17, 34, 34, 51, 68>>] }

\* The window holds the longest page, and the device has a place for every byte
\* of four of them.
PagesFit == 36 <= WINDOW_BYTES /\ 4 * WINDOW_BYTES <= 2^IdxBits

\* About to run word k of page p.
AtWord(p, k) == page = p /\ pc = LOAD_BASE + 4 * k

\* A page is entered at its last word, which jumps to the first.
Entering(p) == AtWord(p, PageWords - 1) \/ AtWord(p, 0)

Holds(n, v) == regs[n] = Num(v)

InCanary ==
  \/ AtWord(0, 1) /\ seen = << >>
  \/ AtWord(0, 2) /\ seen = << >> /\ Holds(5, 42)
  \/ AtWord(0, 3) /\ seen = << 42 >>

InFirstPage ==
  \/ AtWord(0, 1) /\ seen = << >>
  \/ AtWord(0, 2) /\ seen = << >> /\ Holds(5, 0)
  \/ AtWord(0, 3) /\ seen = << >> /\ Holds(5, 0) /\ Holds(2, 17)
  \/ (\E k \in 4 .. PageWords - 3 : AtWord(0, k)) /\ seen = << 17 >> /\ Holds(5, 0)
  \/ AtWord(0, PageWords - 2) /\ seen = << 17 >> /\ Holds(5, 0) /\ Holds(30, 1)

\* What has been shown when page 1 has run i times.
ShownAfter(i) == CASE i = 0 -> << 17 >> [] i = 1 -> <<17, 34>> [] i = 2 -> <<17, 34, 34>>

InSecondPage ==
  \/ \E i \in {0, 1} :
       /\ Holds(5, i)
       /\ \/ Entering(1) /\ seen = ShownAfter(i)
          \/ AtWord(1, 1) /\ seen = ShownAfter(i) /\ Holds(2, 34)
          \/ AtWord(1, 2) /\ seen = ShownAfter(i + 1)
  \/ AtWord(1, 3) /\ seen = ShownAfter(1)
  \/ AtWord(1, 4) /\ seen = ShownAfter(1) /\ Holds(5, 1)
  \/ AtWord(1, 5) /\ seen = ShownAfter(1) /\ Holds(5, 1) /\ Holds(30, 1)
  \/ AtWord(1, 6) /\ seen = ShownAfter(2)
  \/ /\ \E k \in 7 .. PageWords - 2 : AtWord(1, k)
     /\ \/ seen = ShownAfter(1) /\ Holds(5, 1) /\ Holds(30, 1)
        \/ seen = ShownAfter(2) /\ Holds(30, 2)

InThirdPage ==
  \/ Entering(2) /\ seen = <<17, 34, 34>>
  \/ AtWord(2, 1) /\ seen = <<17, 34, 34>> /\ Holds(2, 51)
  \/ (\E k \in 2 .. PageWords - 3 : AtWord(2, k)) /\ seen = <<17, 34, 34, 51>>
  \/ AtWord(2, PageWords - 2) /\ seen = <<17, 34, 34, 51>> /\ Holds(30, 3)

InLastPage ==
  \/ Entering(3) /\ seen = <<17, 34, 34, 51>>
  \/ AtWord(3, 1) /\ seen = <<17, 34, 34, 51>> /\ Holds(2, 68)
  \/ AtWord(3, 2) /\ seen = <<17, 34, 34, 51, 68>>

InPages == InFirstPage \/ InSecondPage \/ InThirdPage \/ InLastPage

Showing ==
  /\ mode = TRUE /\ stall = 0
  /\ regs = [n \in 1 .. 31 |-> regs[n]]
  /\ \/ test.image = Canary /\ test.shows = << 42 >> /\ InCanary
     \/ test.image = PageTest /\ test.shows = <<17, 34, 34, 51, 68>> /\ InPages

\* The flash holds the image of the test.
FlashHeld == "flash" \in DOMAIN store /\ store["flash"] = FlashImage(test.image)

\* Bit i of a word is bit i % 8 of its byte i \div 8.
LEMMA WordOfLanes ==
  \A w : \A i \in 0 .. 31 : /\ Lane(w, i \div 8)[i % 8] = w[i]
                           /\ i \div 8 \in 0 .. 3 /\ i < 8 * 4
<1> SUFFICES ASSUME NEW w, NEW i \in 0 .. 31
             PROVE  /\ Lane(w, i \div 8)[i % 8] = w[i]
                    /\ i \div 8 \in 0 .. 3 /\ i < 8 * 4
  OBVIOUS
<1>1. i % 8 \in 0 .. 7 /\ 8 * (i \div 8) + (i % 8) = i /\ i \div 8 \in 0 .. 3
  OBVIOUS
<1> QED  BY <1>1 DEF Lane

LEMMA WindowFacts ==
  ASSUME PagesFit
  PROVE  /\ PageWords \in 9 .. 16 /\ WINDOW_BYTES = 4 * PageWords
         /\ LOAD_BASE \in 0 .. 252 /\ LOAD_BASE % 4 = 0 /\ LOAD_BASE + 4 * PageWords <= 239
         /\ RAM_BASE + RAM_BYTES = LOAD_BASE + 4 * PageWords
         /\ 16 * PageWords <= 2^IdxBits
<1>1. /\ RAM_BASE \in {4 * k : k \in 0 .. 63} /\ RAM_BYTES \in {4 * k : k \in 0 .. 63}
      /\ LOAD_BASE \in {4 * k : k \in 0 .. 63}
  BY MapAssumption
<1>2. PICK a \in 0 .. 63, b \in 0 .. 63, c \in 0 .. 63 :
        RAM_BASE = 4 * a /\ RAM_BYTES = 4 * b /\ LOAD_BASE = 4 * c
  BY <1>1
<1>3. RAM_BYTES <= 64 /\ RAM_BASE <= LOAD_BASE /\ EXT_PSRAM_BASE <= 239
      /\ RAM_BASE + RAM_BYTES <= EXT_PSRAM_BASE /\ EXT_PSRAM_BASE \in 0 .. 239
  BY BootFacts, MapAssumption
<1>4. WINDOW_BYTES = 4 * (a + b - c)
  BY <1>2 DEF WINDOW_BYTES
<1>5. PageWords = a + b - c
  BY <1>4 DEF PageWords
<1>6. a + b - c \in 9 .. 16
  BY <1>2, <1>3, <1>4 DEF PagesFit
<1> QED  BY <1>2, <1>3, <1>4, <1>5, <1>6 DEF PagesFit

\* What is fetched from the window: word k of page p of the image.
LEMMA FlashLine ==
  ASSUME PagesFit, FlashHeld, mode = TRUE,
         NEW p \in 0 .. 3, NEW k \in 0 .. PageWords - 1, AtWord(p, k),
         Len(test.image) \in Nat, p * PageWords + k < Len(test.image),
         IsWord(test.image[p * PageWords + k + 1])
  PROVE  ReadsAt(pc, 4) = test.image[p * PageWords + k + 1]
<1> DEFINE N == PageWords
           b == p * N + k
           w == test.image[b + 1]
<1>1. /\ N \in 9 .. 16 /\ WINDOW_BYTES = 4 * N
      /\ LOAD_BASE \in 0 .. 252 /\ RAM_BASE + RAM_BYTES = LOAD_BASE + 4 * N
      /\ 16 * N <= 2^IdxBits
  BY WindowFacts
<1>2. pc = LOAD_BASE + 4 * k /\ page = p
  BY DEF AtWord
<1>3. /\ p = 0 \/ p = 1 \/ p = 2 \/ p = 3
      /\ k \in 0 .. N - 1
  OBVIOUS
<1> HIDE DEF N
<1>4. b \in 0 .. 4 * N - 1
  BY <1>1, <1>3
<1>5. \A j \in 0 .. 3 : page * WINDOW_BYTES + ((LOAD_BASE + 4 * k + j) - LOAD_BASE) = 4 * b + j
  BY <1>1, <1>2, <1>3
<1>6. b < Len(test.image)
  BY DEF N
<1> HIDE DEF b
<1>7. \A j \in 0 .. 3 : Region(LOAD_BASE + 4 * k + j, TRUE) = "flash"
  <2>1. ROM_BYTES <= LOAD_BASE /\ ROM_BYTES \in Int
    BY MapFacts, BootFacts
  <2>2. \A j \in 0 .. 3 : /\ LOAD_BASE + 4 * k + j >= LOAD_BASE
                          /\ LOAD_BASE + 4 * k + j < RAM_BASE + RAM_BYTES
                          /\ LOAD_BASE + 4 * k + j \in Int
    BY <1>1, <1>3
  <2>3. \A j \in 0 .. 3 : in_ext_flash(LOAD_BASE + 4 * k + j, TRUE)
    BY <2>2 DEF in_ext_flash, in_load_range
  <2>4. \A j \in 0 .. 3 : ~in_rom(LOAD_BASE + 4 * k + j)
    BY <1>1, <1>3, <2>1 DEF in_rom
  <2> QED  BY <2>3, <2>4 DEF Region, in_ram
<1>8. \A j \in 0 .. 3 : ByteAt(rom, ram, store, mode, page, LOAD_BASE + 4 * k + j) = Lane(w, j)
  <2> SUFFICES ASSUME NEW j \in 0 .. 3
               PROVE  ByteAt(rom, ram, store, mode, page, LOAD_BASE + 4 * k + j) = Lane(w, j)
    OBVIOUS
  <2> DEFINE m == 4 * b + j
             x == Idx(ToBits(m, 24))
  <2>1. m \in 0 .. 16 * N - 1 /\ m \in 0 .. 255 /\ m < 4 * Len(test.image)
    BY <1>1, <1>4, <1>6
  <2>2. m < 2^IdxBits
    BY <1>1, <2>1, IdxBitsAssumption
  <2>3. m \div 4 = b /\ m % 4 = j
    BY <1>1, <1>4
  <2>4. x \in Index /\ Val(x, IdxBits) = m
    BY <2>1, <2>2, InIndex, PlaceOf
  <2>5. ByteAt(rom, ram, store, mode, page, LOAD_BASE + 4 * k + j) = store["flash"][x]
    BY <1>5, <1>7 DEF ByteAt
  <2> HIDE DEF x, m
  <2>6. store["flash"][x] = ProgramByte(test.image, m)
    BY <2>1, <2>4 DEF FlashHeld, FlashImage
  <2>7. ProgramByte(test.image, m) = Lane(w, j)
    BY <2>3 DEF ProgramByte
  <2> QED  BY <2>5, <2>6, <2>7
<1>9. ReadsAt(pc, 4) = [i \in 0 .. 31 |-> IF i < 8 * 4 THEN
         ByteAt(rom, ram, store, mode, page, LOAD_BASE + 4 * k + (i \div 8))[i % 8] ELSE 0]
  <2>1. Region(LOAD_BASE + 4 * k, TRUE) = "flash"
    <3>1. LOAD_BASE + 4 * k + 0 = LOAD_BASE + 4 * k /\ 0 \in 0 .. 3
      BY <1>1, <1>3
    <3> QED  BY <1>7, <3>1
  <2> QED  BY <1>2, <2>1 DEF ReadsAt, LoadAt
<1> HIDE DEF w
<1>10. \A i \in 0 .. 31 : /\ Lane(w, i \div 8)[i % 8] = w[i]
                          /\ i \div 8 \in 0 .. 3 /\ i < 8 * 4
  BY WordOfLanes
<1>11. ReadsAt(pc, 4) = [i \in 0 .. 31 |-> w[i]]
  BY <1>8, <1>9, <1>10
<1> QED  BY <1>11 DEF IsWord, w, b, N

-----------------------------------------------------------------------------
\* One lemma for each kind of instruction of the images.

\* The instruction w of the flash runs.
InFlash(w) ==
  /\ mode = TRUE /\ Steps(w)
  /\ regs = [n \in 1 .. 31 |-> regs[n]]
  /\ pc \in 0 .. 251

\* It leaves the registers r, the page p and the output s, and goes to `to`.
Leaves(r, p, s, to) ==
  /\ regs' = r /\ page' = p /\ seen' = s /\ pc' = to
  /\ mode' = TRUE /\ stall' = 0

LEMMA FlashQuiet ==
  ASSUME NEW w, InFlash(w), Opcode(w) \notin {OP_LOAD, OP_STORE}
  PROVE  /\ page' = page /\ seen' = seen /\ mode' = TRUE /\ stall' = 0
         /\ pc' = NextPc(w, regs, pc)
         /\ regs' = WriteBack(w, regs, pc, AluY(w, regs), Zeros(32))
<1>1. Opcode(w) # OP_STORE /\ Opcode(w) # OP_LOAD
  OBVIOUS
<1> QED  BY <1>1 DEF InFlash, Steps

LEMMA ZeroNumber == Zeros(32) = Num(0)
<1>1. 0 \in 0 .. 255
  OBVIOUS
<1> QED  BY <1>1, OtherNums, Zenon

LEMMA FlashNext ==
  ASSUME pc \in 0 .. 251
  PROVE  (pc + 4) % 256 = pc + 4 /\ pc \in 0 .. 255
OBVIOUS

LEMMA SetsNumber ==
  ASSUME NEW rd \in 0 .. 31, NEW v \in 0 .. 255, InFlash(ADDI(rd, 0, v))
  PROVE  Leaves(Put(regs, rd, Num(v)), page, seen, pc + 4)
<1> DEFINE w == ADDI(rd, 0, v)
<1>1. 0 \in 0 .. 31 /\ 0 \in 0 .. 255 /\ v \in Int /\ 0 + v = v /\ 0 + v <= 255
  OBVIOUS
<1>2. Sets(w, regs, pc, rd, Add(Reg(regs, 0), Signed12(v)))
  <2>1. ImmediateMnemonics(rd, 0, v, regs, pc)
    BY <1>1, ImmediatesMean, Zenon
  <2> QED  BY <2>1, Zenon DEF ImmediateMnemonics
<1>3. Add(Reg(regs, 0), Signed12(v)) = Num(v)
  <2>1. Reg(regs, 0) = Num(0)
    BY <1>1, OtherNums DEF Reg
  <2>2. Signed12(v) = Num(v)
    BY SignedFacts, Zenon
  <2>3. Add(Num(0), Num(v)) = Num(0 + v)
    BY <1>1, AddNums, Zenon
  <2> QED  BY <1>1, <2>1, <2>2, <2>3
<1> HIDE DEF w
<1>4. InFlash(w) /\ pc \in 0 .. 251
  BY DEF w, InFlash
<1>5. Opcode(w) \notin {OP_LOAD, OP_STORE}
  BY <1>2 DEF Sets
<1> QED  BY <1>2, <1>3, <1>4, <1>5, FlashQuiet, FlashNext DEF Sets, Leaves

LEMMA PassesOver ==
  ASSUME InFlash(NOP)
  PROVE  Leaves(regs, page, seen, pc + 4)
<1>1. 0 \in 0 .. 31 /\ 0 \in 0 .. 255 /\ InFlash(ADDI(0, 0, 0))
  BY DEF NOP
<1> QED  BY <1>1, SetsNumber DEF Put

LEMMA JumpsAway ==
  ASSUME NEW to \in 0 .. 255, (to - pc) % 2 = 0, InFlash(JAL(0, pc, to))
  PROVE  Leaves(regs, page, seen, to)
<1> DEFINE w == JAL(0, pc, to)
<1>1. 0 \in 0 .. 31 /\ 0 \in Int /\ pc \in 0 .. 251 /\ pc \in 0 .. 255
  BY FlashNext DEF InFlash
<1>2. JumpMnemonics(0, 0, 0, pc, to, regs)
  BY <1>1, JumpsMean, Zenon
<1>3. JumpsTo(w, regs, pc, 0, to)
  BY <1>2 DEF JumpMnemonics
<1> HIDE DEF w
<1>4. InFlash(w) /\ Opcode(w) \notin {OP_LOAD, OP_STORE}
  BY <1>3 DEF w, JumpsTo
<1> QED  BY <1>3, <1>4, FlashQuiet DEF JumpsTo, Put, Leaves

LEMMA BranchesOn ==
  ASSUME NEW r \in 1 .. 31, NEW to \in 0 .. 255, (to - pc) % 2 = 0, InFlash(BNE(r, 0, pc, to))
  PROVE  Leaves(regs, page, seen, IF regs[r] # Num(0) THEN to ELSE pc + 4)
<1> DEFINE w == BNE(r, 0, pc, to)
<1>1. 0 \in 0 .. 31 /\ r \in 0 .. 31 /\ pc \in 0 .. 251 /\ pc \in 0 .. 255
      /\ (pc + 4) % 256 = pc + 4 /\ 0 \in 0 .. 255 /\ r # 0
  BY FlashNext DEF InFlash
<1>2. BranchMnemonics(r, 0, pc, to, regs)
  BY <1>1, BranchesMean, Zenon
<1>3. Reg(regs, r) = regs[r] /\ Reg(regs, 0) = Num(0)
  BY <1>1, OtherNums DEF Reg
<1>4. GoesTo(w, regs, pc, IF regs[r] # Num(0) THEN to ELSE pc + 4)
  BY <1>1, <1>2, <1>3 DEF BranchMnemonics
<1> HIDE DEF w
<1>5. InFlash(w) /\ Opcode(w) \notin {OP_LOAD, OP_STORE}
  BY <1>4 DEF w, GoesTo
<1> QED  BY <1>4, <1>5, FlashQuiet DEF GoesTo, Leaves

\* A store to a register of the memory map.
LEMMA StoresRegister ==
  ASSUME NEW r \in 1 .. 31, NEW v \in 0 .. 255, NEW a \in {LED_OUT, FLASH_PAGE},
         InFlash(SW(r, 0, a)), Holds(r, v)
  PROVE  Leaves(regs, IF a = FLASH_PAGE THEN v ELSE page,
                IF a = LED_OUT THEN Append(seen, v) ELSE seen, pc + 4)
<1> DEFINE w == SW(r, 0, a)
<1>1. /\ 0 \in 0 .. 255 /\ a \in 0 .. 255 /\ a \in Int
      /\ 0 + a = a /\ 0 + a <= 255 /\ a \in {240, 252}
      /\ r \in 0 .. 31 /\ r # 0 /\ 0 \in 0 .. 31
  BY DEF LED_OUT, FLASH_PAGE
<1>2. AccessMnemonics(r, 0, a, regs, pc)
  BY <1>1, AccessesMean, Zenon
<1>3. Reg(regs, 0) = Num(0) /\ Reg(regs, r) = Num(v)
  <2>1. Zeros(32) = Num(0)
    BY ZeroNumber
  <2> QED  BY <1>1, <2>1 DEF Reg, Holds
<1>4. StoresTo(w, regs, pc, r, Num(0), a, 2)
  BY <1>2, <1>3 DEF AccessMnemonics
<1>5. Addr8(Add(Num(0), Signed12(a))) = a
  BY <1>1, AddressOf, Zenon
<1>6. Val(Num(v), 8) = v /\ Addr8(Num(v)) = v
  BY NumFacts DEF Addr8
<1>7. mode = TRUE /\ Steps(w) /\ pc \in 0 .. 251 /\ (pc + 4) % 256 = pc + 4
  BY FlashNext DEF InFlash
<1> HIDE DEF w
<1>8. /\ Opcode(w) = OP_STORE /\ Addr8(AluY(w, regs)) = a
      /\ Reg(regs, Rs2(w)) = Num(v) /\ NextPc(w, regs, pc) = pc + 4
      /\ \A y, rdata : WriteBack(w, regs, pc, y, rdata) = regs
  BY <1>3, <1>4, <1>5, <1>7 DEF StoresTo
<1>9. ~in_ext_psram(a)
  BY <1>1, BootFacts DEF in_ext_psram
<1> QED  BY <1>6, <1>7, <1>8, <1>9 DEF Steps, Leaves

LEMMA ShowsValue ==
  ASSUME NEW r \in 1 .. 31, NEW v \in 0 .. 255, InFlash(SW(r, 0, LED_OUT)), Holds(r, v),
         NEW s, s = Append(seen, v)
  PROVE  Leaves(regs, page, s, pc + 4)
<1>1. LED_OUT \in {LED_OUT, FLASH_PAGE} /\ LED_OUT # FLASH_PAGE
  BY DEF LED_OUT, FLASH_PAGE
<1> QED  BY <1>1, StoresRegister

LEMMA TurnsPage ==
  ASSUME NEW r \in 1 .. 31, NEW v \in 0 .. 255, InFlash(SW(r, 0, FLASH_PAGE)), Holds(r, v)
  PROVE  Leaves(regs, v, seen, pc + 4)
<1>1. FLASH_PAGE \in {LED_OUT, FLASH_PAGE} /\ LED_OUT # FLASH_PAGE
  BY DEF LED_OUT, FLASH_PAGE
<1> QED  BY <1>1, StoresRegister

-----------------------------------------------------------------------------
\* The words of the images, by page.

\* s is a sequence of n words.
Listed(s, n) == n \in Nat /\ Len(s) = n /\ s \in Seq({s[i] : i \in 1 .. n})

\* r is s, of n words, with t, of m words, behind it.
Chained(s, n, t, m, r) ==
  /\ Listed(r, n + m)
  /\ \A i \in 1 .. n : r[i] = s[i]
  /\ \A i \in n + 1 .. n + m : r[i] = t[i - n]

LEMMA ListedJoin ==
  ASSUME NEW s, NEW t, NEW n, NEW m, Listed(s, n), Listed(t, m)
  PROVE  Chained(s, n, t, m, s \o t)
<1> DEFINE T == {s[i] : i \in 1 .. n} \cup {t[i] : i \in 1 .. m}
           r == s \o t
<1>1. s \in Seq(T) /\ t \in Seq(T) /\ Len(s) = n /\ Len(t) = m /\ n \in Nat /\ m \in Nat
  <2>1. \A i \in 1 .. n : s[i] \in T
    OBVIOUS
  <2>2. \A i \in 1 .. m : t[i] \in T
    OBVIOUS
  <2> HIDE DEF T
  <2> QED  BY <2>1, <2>2 DEF Listed
<1> HIDE DEF T
<1>2. Joins(T, s, t, r)
  BY <1>1, Joined, Zenon
<1> HIDE DEF r
<1>3. r \in Seq({r[i] : i \in 1 .. n + m})
  <2> DEFINE U == {r[i] : i \in 1 .. n + m}
  <2>1. r \in Seq(T) /\ Len(r) = n + m /\ n + m \in Nat
    BY <1>1, <1>2 DEF Joins
  <2>2. \A i \in 1 .. n + m : r[i] \in U
    OBVIOUS
  <2> HIDE DEF U
  <2>3. r \in Seq(U)
    BY <2>1, <2>2
  <2> QED  BY <2>3 DEF U
<1>4. Listed(r, n + m)
  BY <1>1, <1>2, <1>3 DEF Listed, Joins
<1>5. /\ \A i \in 1 .. n : r[i] = s[i]
      /\ \A i \in n + 1 .. n + m : r[i] = t[i - n]
  BY <1>1, <1>2 DEF Joins
<1> QED  BY <1>4, <1>5 DEF r, Chained

\* r is code c of n words, padded to m.
Fills(c, n, m, r) ==
  /\ Listed(r, m)
  /\ \A k \in 0 .. n - 1 : r[k + 1] = c[k + 1]
  /\ \A k \in n .. m - 1 : r[k + 1] = NOP

LEMMA Padded ==
  ASSUME NEW c, NEW n, NEW m \in Nat, Listed(c, n), n <= m
  PROVE  Fills(c, n, m, PadTo(c, m))
<1> DEFINE pad == [i \in 1 .. m - n |-> NOP]
<1>1. n \in Nat /\ Len(c) = n /\ m - n \in Nat /\ n + (m - n) = m
  BY DEF Listed
<1>2. Listed(pad, m - n)
  <2> DEFINE l == m - n
             U == {pad[i] : i \in 1 .. l}
  <2>1. l \in Nat /\ pad = [i \in 1 .. l |-> NOP]
    BY <1>1
  <2>2. \A i \in 1 .. l : pad[i] \in U
    OBVIOUS
  <2> HIDE DEF U, l, pad
  <2>3. Len(pad) = l /\ pad \in Seq(U)
    BY <2>1, <2>2
  <2> QED  BY <2>1, <2>3 DEF Listed, U, l
<1>3. PadTo(c, m) = c \o pad
  BY <1>1 DEF PadTo
<1>4. \A i \in 1 .. m - n : pad[i] = NOP
  OBVIOUS
<1> HIDE DEF pad
<1> DEFINE r == c \o pad
<1>5. Chained(c, n, pad, m - n, r)
  BY <1>2, ListedJoin, Zenon
<1> HIDE DEF r
<1>6. \A k \in 0 .. n - 1 : k + 1 \in 1 .. n
  BY <1>1
<1>7. \A k \in n .. m - 1 : k + 1 \in n + 1 .. n + (m - n) /\ (k + 1) - n \in 1 .. m - n
  BY <1>1
<1>8. Listed(r, m) /\ PadTo(c, m) = r
  BY <1>1, <1>3, <1>5 DEF Chained, r
<1>9. \A k \in 0 .. n - 1 : r[k + 1] = c[k + 1]
  BY <1>5, <1>6 DEF Chained
<1>10. \A k \in n .. m - 1 : r[k + 1] = NOP
  BY <1>4, <1>5, <1>7 DEF Chained
<1> QED  BY <1>8, <1>9, <1>10 DEF Fills

\* r is a page of code c of n words that names x as the page after it.
Switches(c, n, x, r) ==
  /\ Listed(r, PageWords)
  /\ \A k \in 0 .. n - 1 : r[k + 1] = c[k + 1]
  /\ \A k \in n .. PageWords - 4 : r[k + 1] = NOP
  /\ r[(PageWords - 3) + 1] = ADDI(30, 0, x)
  /\ r[(PageWords - 2) + 1] = SW(30, 0, FLASH_PAGE)
  /\ r[(PageWords - 1) + 1] = Trampoline

LEMMA SwitchedPage ==
  ASSUME NEW c, NEW n, NEW x, Listed(c, n), PagesFit, n <= PageWords - 3
  PROVE  Switches(c, n, x, switch_to(c, x))
<1> DEFINE N   == PageWords
           pad == PadTo(c, N - 3)
           end == << ADDI(30, 0, x), SW(30, 0, FLASH_PAGE), Trampoline >>
<1>1. N \in 9 .. 16 /\ N - 3 \in Nat /\ (N - 3) + 3 = N /\ n \in Nat /\ n <= N - 3
  <2>1. N \in 9 .. 16 /\ n \in Nat
    BY WindowFacts DEF Listed
  <2> HIDE DEF N
  <2>2. N - 3 \in Nat /\ (N - 3) + 3 = N
    BY <2>1
  <2> QED  BY <2>1, <2>2 DEF N
<1>2. Fills(c, n, N - 3, pad)
  BY <1>1, Padded, Zenon
<1>3. Listed(end, 3)
  BY DEF Listed
<1>4. end[1] = ADDI(30, 0, x) /\ end[2] = SW(30, 0, FLASH_PAGE) /\ end[3] = Trampoline
  OBVIOUS
<1>5. switch_to(c, x) = pad \o end
  BY DEF switch_to
<1> DEFINE r == pad \o end
<1> HIDE DEF pad, end, N
<1>6. Chained(pad, N - 3, end, 3, r)
  BY <1>2, <1>3, ListedJoin, Zenon DEF Fills
<1> HIDE DEF r
<1>7. /\ (N - 3) + 1 \in (N - 3) + 1 .. (N - 3) + 3 /\ ((N - 3) + 1) - (N - 3) = 1
      /\ (N - 2) + 1 \in (N - 3) + 1 .. (N - 3) + 3 /\ ((N - 2) + 1) - (N - 3) = 2
      /\ (N - 1) + 1 \in (N - 3) + 1 .. (N - 3) + 3 /\ ((N - 1) + 1) - (N - 3) = 3
  BY <1>1
<1>8. /\ \A k \in 0 .. n - 1 : k + 1 \in 1 .. N - 3
      /\ \A k \in n .. N - 4 : k + 1 \in 1 .. N - 3 /\ k \in n .. (N - 3) - 1
  BY <1>1 DEF N
<1>9. Listed(r, N)
  BY <1>1, <1>6 DEF Chained
<1>10. \A k \in 0 .. n - 1 : r[k + 1] = c[k + 1]
  BY <1>2, <1>6, <1>8 DEF Chained, Fills
<1>11. \A k \in n .. N - 4 : r[k + 1] = NOP
  BY <1>2, <1>6, <1>8 DEF Chained, Fills
<1>12. /\ r[(N - 3) + 1] = ADDI(30, 0, x)
       /\ r[(N - 2) + 1] = SW(30, 0, FLASH_PAGE)
       /\ r[(N - 1) + 1] = Trampoline
  BY <1>4, <1>6, <1>7 DEF Chained
<1> QED  BY <1>5, <1>9, <1>10, <1>11, <1>12 DEF N, r, Switches

\* One that leaves the page after it to x30.
GoesOn(c, n, r) ==
  /\ Listed(r, PageWords)
  /\ \A k \in 0 .. n - 1 : r[k + 1] = c[k + 1]
  /\ \A k \in n .. PageWords - 3 : r[k + 1] = NOP
  /\ r[(PageWords - 2) + 1] = SW(30, 0, FLASH_PAGE)
  /\ r[(PageWords - 1) + 1] = Trampoline

LEMMA ComputedPage ==
  ASSUME NEW c, NEW n, Listed(c, n), PagesFit, n <= PageWords - 2
  PROVE  GoesOn(c, n, switch_to_computed(c))
<1> DEFINE N   == PageWords
           pad == PadTo(c, N - 2)
           end == << SW(30, 0, FLASH_PAGE), Trampoline >>
<1>1. N \in 9 .. 16 /\ N - 2 \in Nat /\ (N - 2) + 2 = N /\ n \in Nat /\ n <= N - 2
  <2>1. N \in 9 .. 16 /\ n \in Nat
    BY WindowFacts DEF Listed
  <2> HIDE DEF N
  <2>2. N - 2 \in Nat /\ (N - 2) + 2 = N
    BY <2>1
  <2> QED  BY <2>1, <2>2 DEF N
<1>2. Fills(c, n, N - 2, pad)
  BY <1>1, Padded, Zenon
<1>3. Listed(end, 2)
  BY DEF Listed
<1>4. end[1] = SW(30, 0, FLASH_PAGE) /\ end[2] = Trampoline
  OBVIOUS
<1>5. switch_to_computed(c) = pad \o end
  BY DEF switch_to_computed
<1> DEFINE r == pad \o end
<1> HIDE DEF pad, end, N
<1>6. Chained(pad, N - 2, end, 2, r)
  BY <1>2, <1>3, ListedJoin, Zenon DEF Fills
<1> HIDE DEF r
<1>7. /\ (N - 2) + 1 \in (N - 2) + 1 .. (N - 2) + 2 /\ ((N - 2) + 1) - (N - 2) = 1
      /\ (N - 1) + 1 \in (N - 2) + 1 .. (N - 2) + 2 /\ ((N - 1) + 1) - (N - 2) = 2
  BY <1>1
<1>8. /\ \A k \in 0 .. n - 1 : k + 1 \in 1 .. N - 2
      /\ \A k \in n .. N - 3 : k + 1 \in 1 .. N - 2 /\ k \in n .. (N - 2) - 1
  BY <1>1 DEF N
<1>9. Listed(r, N)
  BY <1>1, <1>6 DEF Chained
<1>10. \A k \in 0 .. n - 1 : r[k + 1] = c[k + 1]
  BY <1>2, <1>6, <1>8 DEF Chained, Fills
<1>11. \A k \in n .. N - 3 : r[k + 1] = NOP
  BY <1>2, <1>6, <1>8 DEF Chained, Fills
<1>12. /\ r[(N - 2) + 1] = SW(30, 0, FLASH_PAGE)
       /\ r[(N - 1) + 1] = Trampoline
  BY <1>4, <1>6, <1>7 DEF Chained
<1> QED  BY <1>5, <1>9, <1>10, <1>11, <1>12 DEF N, r, GoesOn

ThirdPage == << ADDI(2, 0, 51), SW(2, 0, LED_OUT) >>

PageOf(p) ==
  CASE p = 0 -> switch_to(FirstPage, 1)
    [] p = 1 -> switch_to_computed(SecondPage)
    [] p = 2 -> switch_to(ThirdPage, 3)
    [] p = 3 -> switch_to(LastPage, 3)

LEMMA CodeLengths ==
  Listed(FirstPage, 4) /\ Listed(SecondPage, 7) /\ Listed(ThirdPage, 2) /\ Listed(LastPage, 3)
BY DEF Listed, FirstPage, SecondPage, ThirdPage, LastPage

LEMMA PageTestWords ==
  ASSUME PagesFit
  PROVE  /\ Len(PageTest) = 4 * PageWords
         /\ \A p \in 0 .. 3 : \A k \in 0 .. PageWords - 1 :
              PageTest[p * PageWords + k + 1] = PageOf(p)[k + 1]
<1> DEFINE N == PageWords
           a == switch_to(FirstPage, 1)
           b == switch_to_computed(SecondPage)
           c == switch_to(ThirdPage, 3)
           d == switch_to(LastPage, 3)
           ab == a \o b
           abc == ab \o c
<1>1. N \in 9 .. 16
  BY WindowFacts
<1>2. 4 <= N - 3 /\ 7 <= N - 2 /\ 2 <= N - 3 /\ 3 <= N - 3
  BY <1>1
<1>3. Listed(a, N) /\ Listed(b, N) /\ Listed(c, N) /\ Listed(d, N)
  <2>1. /\ Switches(FirstPage, 4, 1, a) /\ GoesOn(SecondPage, 7, b)
        /\ Switches(ThirdPage, 2, 3, c) /\ Switches(LastPage, 3, 3, d)
    BY <1>2, CodeLengths, SwitchedPage, ComputedPage, Zenon
  <2> QED  BY <2>1 DEF Switches, GoesOn
<1>4. PageTest = abc \o d
  BY DEF PageTest, ThirdPage
<1> HIDE DEF a, b, c, d, N
<1>5. Chained(a, N, b, N, ab)
  BY <1>3, ListedJoin, Zenon
<1> HIDE DEF ab
<1>6. Chained(ab, N + N, c, N, abc)
  <2>1. Listed(ab, N + N)
    BY <1>5 DEF Chained
  <2> QED  BY <1>3, <2>1, ListedJoin, Zenon
<1> HIDE DEF abc
<1>7. Chained(abc, (N + N) + N, d, N, PageTest)
  <2>1. Listed(abc, (N + N) + N)
    BY <1>6 DEF Chained
  <2> QED  BY <1>3, <1>4, <2>1, ListedJoin, Zenon
<1>8. Len(PageTest) = 4 * N
  BY <1>1, <1>7 DEF Chained, Listed
<1>9. \A k \in 0 .. N - 1 :
        /\ PageTest[0 * N + k + 1] = a[k + 1]
        /\ PageTest[1 * N + k + 1] = b[k + 1]
        /\ PageTest[2 * N + k + 1] = c[k + 1]
        /\ PageTest[3 * N + k + 1] = d[k + 1]
  <2> SUFFICES ASSUME NEW k \in 0 .. N - 1
               PROVE  /\ PageTest[0 * N + k + 1] = a[k + 1]
                      /\ PageTest[1 * N + k + 1] = b[k + 1]
                      /\ PageTest[2 * N + k + 1] = c[k + 1]
                      /\ PageTest[3 * N + k + 1] = d[k + 1]
    OBVIOUS
  <2>1. 0 * N + k + 1 = k + 1 /\ k + 1 \in 1 .. N /\ k + 1 \in 1 .. N + N
        /\ k + 1 \in 1 .. (N + N) + N
    BY <1>1
  <2>2. LET i == 1 * N + k + 1
        IN  i \in N + 1 .. N + N /\ i \in 1 .. N + N /\ i \in 1 .. (N + N) + N /\ i - N = k + 1
    BY <1>1
  <2>3. LET i == 2 * N + k + 1
        IN  i \in (N + N) + 1 .. (N + N) + N /\ i \in 1 .. (N + N) + N /\ i - (N + N) = k + 1
    BY <1>1
  <2>4. LET i == 3 * N + k + 1
        IN  i \in ((N + N) + N) + 1 .. ((N + N) + N) + N /\ i - ((N + N) + N) = k + 1
    BY <1>1
  <2>5. PageTest[0 * N + k + 1] = a[k + 1]
    BY <1>5, <1>6, <1>7, <2>1 DEF Chained
  <2>6. PageTest[1 * N + k + 1] = b[k + 1]
    BY <1>5, <1>6, <1>7, <2>2 DEF Chained
  <2>7. PageTest[2 * N + k + 1] = c[k + 1]
    BY <1>6, <1>7, <2>3 DEF Chained
  <2>8. PageTest[3 * N + k + 1] = d[k + 1]
    BY <1>7, <2>4 DEF Chained
  <2> QED  BY <2>5, <2>6, <2>7, <2>8
<1>10. PageOf(0) = a /\ PageOf(1) = b /\ PageOf(2) = c /\ PageOf(3) = d
  BY DEF PageOf, a, b, c, d
<1>11. \A p \in 0 .. 3 : p = 0 \/ p = 1 \/ p = 2 \/ p = 3
  OBVIOUS
<1> QED  BY <1>8, <1>9, <1>10, <1>11 DEF N

-----------------------------------------------------------------------------
\* The instructions of an image, by page and word.

Ready == mode = TRUE /\ regs = [n \in 1 .. 31 |-> regs[n]]

\* The next instruction is word k of page p.
Went(p, k) ==
  /\ AtWord(p, k)'
  /\ mode' = TRUE /\ stall' = 0
  /\ regs' = [n \in 1 .. 31 |-> regs'[n]]

\* One instruction shows s and leaves the registers,
Moves(p, k, s) == Went(p, k) /\ seen' = s /\ regs' = regs

\* or shows nothing and puts v into one register.
Puts(p, k, rd, v) ==
  /\ Went(p, k) /\ seen' = seen /\ regs'[rd] = Num(v)
  /\ \A n \in 1 .. 31 : n # rd => regs'[n] = regs[n]

LEMMA WordPlaces ==
  ASSUME PagesFit, NEW k \in 0 .. PageWords - 1
  PROVE  /\ LOAD_BASE + 4 * k \in 0 .. 251
         /\ LOAD_BASE + 4 * k \in 0 .. 255
         /\ (LOAD_BASE + 4 * k) + 4 = LOAD_BASE + 4 * (k + 1)
<1> DEFINE N == PageWords
<1>1. N \in 9 .. 16 /\ LOAD_BASE \in 0 .. 252 /\ LOAD_BASE + 4 * N <= 239 /\ k \in 0 .. N - 1
  BY WindowFacts
<1> HIDE DEF N
<1> QED  BY <1>1

\* Word k of page p.
WordOf(p, k) == PageOf(p)[k + 1]

LEMMA PageRuns ==
  ASSUME PagesFit, FlashHeld, Ready, Instruction, test.image = PageTest,
         NEW p \in 0 .. 3, NEW k \in 0 .. PageWords - 1, AtWord(p, k),
         NEW w, IsWord(w), WordOf(p, k) = w
  PROVE  InFlash(w)
<1> DEFINE N == PageWords
<1>1. Len(test.image) = 4 * N /\ test.image[p * N + k + 1] = w /\ N \in 9 .. 16
  BY PageTestWords, WindowFacts DEF WordOf
<1>2. Len(test.image) \in Nat /\ p * N + k < Len(test.image)
  <2>1. (p = 0 \/ p = 1 \/ p = 2 \/ p = 3) /\ k \in 0 .. N - 1
    OBVIOUS
  <2> HIDE DEF N
  <2> QED  BY <1>1, <2>1
<1>3. ReadsAt(pc, 4) = w
  BY <1>1, <1>2, FlashLine DEF Ready
<1>4. Steps(w)
  BY <1>3, InstructionIs
<1>5. pc \in 0 .. 251
  BY WordPlaces DEF AtWord
<1> QED  BY <1>4, <1>5 DEF InFlash, Ready

LEMMA CanaryRuns ==
  ASSUME PagesFit, FlashHeld, Ready, Instruction, test.image = Canary,
         NEW k \in 0 .. 3, AtWord(0, k), NEW w, IsWord(w), Canary[k + 1] = w
  PROVE  InFlash(w)
<1> DEFINE N == PageWords
<1>1. Len(test.image) = 4 /\ N \in 9 .. 16
  BY WindowFacts DEF Canary
<1>2. /\ Len(test.image) \in Nat /\ 0 * N + k < Len(test.image)
      /\ test.image[0 * N + k + 1] = w /\ k \in 0 .. N - 1 /\ 0 \in 0 .. 3
  <2>1. 0 * N + k + 1 = k + 1 /\ 0 * N + k < 4 /\ k \in 0 .. N - 1 /\ 4 \in Nat /\ 0 \in 0 .. 3
    BY <1>1
  <2> QED  BY <1>1, <2>1
<1>3. ReadsAt(pc, 4) = w
  BY <1>2, FlashLine DEF Ready
<1>4. Steps(w)
  BY <1>3, InstructionIs
<1>5. pc \in 0 .. 251
  <2>1. pc = LOAD_BASE + 4 * k /\ k \in 0 .. PageWords - 1
    BY <1>2 DEF AtWord
  <2> QED  BY <2>1, WordPlaces
<1> QED  BY <1>4, <1>5 DEF InFlash, Ready

\* What a step leaves, seen from word k.
LEMMA NextWord ==
  ASSUME PagesFit, Ready, NEW p, NEW k \in 0 .. PageWords - 1, AtWord(p, k), NEW q, NEW s,
         NEW j, j = k + 1, Leaves(regs, q, s, pc + 4)
  PROVE  Moves(q, j, s)
<1>1. pc' = LOAD_BASE + 4 * j
  BY WordPlaces DEF AtWord, Leaves
<1> QED  BY <1>1 DEF Moves, Went, AtWord, Leaves, Ready

LEMMA AtSets ==
  ASSUME PagesFit, Ready, NEW p, NEW k \in 0 .. PageWords - 1, AtWord(p, k),
         NEW rd \in 1 .. 31, NEW v \in 0 .. 255, InFlash(ADDI(rd, 0, v)), NEW j, j = k + 1
  PROVE  Puts(p, j, rd, v)
<1>1. Leaves(Put(regs, rd, Num(v)), page, seen, pc + 4) /\ rd # 0
  <2>1. rd \in 0 .. 31 /\ rd # 0
    OBVIOUS
  <2> QED  BY <2>1, SetsNumber, Zenon
<1>2. pc' = LOAD_BASE + 4 * j /\ page' = p
  BY <1>1, WordPlaces DEF AtWord, Leaves
<1>3. regs' = [regs EXCEPT ![rd] = Num(v)]
  BY <1>1 DEF Leaves, Put
<1>4. /\ regs' = [n \in 1 .. 31 |-> regs'[n]]
      /\ regs'[rd] = Num(v) /\ \A n \in 1 .. 31 : n # rd => regs'[n] = regs[n]
  BY <1>3 DEF Ready
<1> QED  BY <1>1, <1>2, <1>4 DEF Puts, Went, AtWord, Leaves

LEMMA AtPasses ==
  ASSUME PagesFit, Ready, NEW p, NEW k \in 0 .. PageWords - 1, AtWord(p, k),
         InFlash(NOP), NEW j, j = k + 1
  PROVE  Moves(p, j, seen)
<1>1. Leaves(regs, p, seen, pc + 4)
  BY PassesOver DEF AtWord
<1> QED  BY <1>1, NextWord, Zenon

LEMMA AtShows ==
  ASSUME PagesFit, Ready, NEW p, NEW k \in 0 .. PageWords - 1, AtWord(p, k),
         NEW r \in 1 .. 31, NEW v \in 0 .. 255, InFlash(SW(r, 0, LED_OUT)), Holds(r, v),
         NEW j, j = k + 1, NEW s, s = Append(seen, v)
  PROVE  Moves(p, j, s)
<1>1. page = p
  BY DEF AtWord
<1>2. Leaves(regs, page, s, pc + 4)
  BY ShowsValue
<1> QED  BY <1>1, <1>2, NextWord

LEMMA AtTurns ==
  ASSUME PagesFit, Ready, NEW p, NEW k \in 0 .. PageWords - 1, AtWord(p, k),
         NEW r \in 1 .. 31, NEW v \in 0 .. 255, InFlash(SW(r, 0, FLASH_PAGE)), Holds(r, v),
         NEW j, j = k + 1
  PROVE  Moves(v, j, seen)
<1>1. Leaves(regs, v, seen, pc + 4)
  BY TurnsPage
<1> QED  BY <1>1, NextWord, Zenon

LEMMA WordsApart ==
  ASSUME PagesFit, NEW k \in 0 .. PageWords - 1, NEW j \in 0 .. PageWords - 1
  PROVE  ((LOAD_BASE + 4 * j) - (LOAD_BASE + 4 * k)) % 2 = 0
<1> DEFINE N == PageWords
<1>1. N \in 9 .. 16 /\ LOAD_BASE \in 0 .. 252 /\ k \in 0 .. N - 1 /\ j \in 0 .. N - 1
  BY WindowFacts
<1> HIDE DEF N
<1>2. (LOAD_BASE + 4 * j) - (LOAD_BASE + 4 * k) = 2 * (2 * (j - k)) /\ j - k \in Int
  BY <1>1
<1>3. \A x \in Int : (2 * (2 * x)) % 2 = 0
  OBVIOUS
<1> QED  BY <1>2, <1>3

LEMMA AtJumps ==
  ASSUME PagesFit, Ready, NEW p, NEW k \in 0 .. PageWords - 1, AtWord(p, k),
         NEW j \in 0 .. PageWords - 1, InFlash(JAL(0, LOAD_BASE + 4 * k, LOAD_BASE + 4 * j))
  PROVE  Moves(p, j, seen)
<1> DEFINE to == LOAD_BASE + 4 * j
<1>1. to \in 0 .. 255 /\ pc = LOAD_BASE + 4 * k /\ page = p
  BY WordPlaces DEF AtWord
<1>2. (to - pc) % 2 = 0
  BY <1>1, WordsApart
<1>3. InFlash(JAL(0, pc, to))
  BY <1>1
<1> HIDE DEF to
<1>4. Leaves(regs, page, seen, to)
  BY <1>1, <1>2, <1>3, JumpsAway
<1> QED  BY <1>1, <1>4 DEF Leaves, Moves, Went, AtWord, Ready, to

LEMMA AtBranchesNot ==
  ASSUME PagesFit, Ready, NEW p, NEW k \in 0 .. PageWords - 1, AtWord(p, k),
         NEW j \in 0 .. PageWords - 1, NEW r \in 1 .. 31,
         InFlash(BNE(r, 0, LOAD_BASE + 4 * k, LOAD_BASE + 4 * j)),
         NEW i, Holds(r, 0), i = k + 1
  PROVE  Moves(p, i, seen)
<1> DEFINE to == LOAD_BASE + 4 * j
<1>1. to \in 0 .. 255 /\ pc = LOAD_BASE + 4 * k /\ page = p
      /\ pc + 4 = LOAD_BASE + 4 * (k + 1)
  BY WordPlaces DEF AtWord
<1>2. (to - pc) % 2 = 0
  BY <1>1, WordsApart
<1>3. InFlash(BNE(r, 0, pc, to))
  BY <1>1
<1> HIDE DEF to
<1>4. Leaves(regs, page, seen, IF regs[r] # Num(0) THEN to ELSE pc + 4)
  BY <1>1, <1>2, <1>3, BranchesOn
<1>5. pc' = LOAD_BASE + 4 * i
  BY <1>1, <1>4 DEF Leaves, Holds, to
<1> QED  BY <1>1, <1>4, <1>5 DEF Leaves, Moves, Went, AtWord, Ready

LEMMA AtBranchesAway ==
  ASSUME PagesFit, Ready, NEW p, NEW k \in 0 .. PageWords - 1, AtWord(p, k),
         NEW j \in 0 .. PageWords - 1, NEW r \in 1 .. 31,
         InFlash(BNE(r, 0, LOAD_BASE + 4 * k, LOAD_BASE + 4 * j)),
         ~Holds(r, 0)
  PROVE  Moves(p, j, seen)
<1> DEFINE to == LOAD_BASE + 4 * j
<1>1. to \in 0 .. 255 /\ pc = LOAD_BASE + 4 * k /\ page = p
      /\ pc + 4 = LOAD_BASE + 4 * (k + 1)
  BY WordPlaces DEF AtWord
<1>2. (to - pc) % 2 = 0
  BY <1>1, WordsApart
<1>3. InFlash(BNE(r, 0, pc, to))
  BY <1>1
<1> HIDE DEF to
<1>4. Leaves(regs, page, seen, IF regs[r] # Num(0) THEN to ELSE pc + 4)
  BY <1>1, <1>2, <1>3, BranchesOn
<1>5. pc' = LOAD_BASE + 4 * j
  BY <1>1, <1>4 DEF Leaves, Holds, to
<1> QED  BY <1>1, <1>4, <1>5 DEF Leaves, Moves, Went, AtWord, Ready

-----------------------------------------------------------------------------
\* The listings of the four pages.

LEMMA LastWord ==
  ASSUME PagesFit
  PROVE  Trampoline = JAL(0, LOAD_BASE + 4 * (PageWords - 1), LOAD_BASE + 4 * 0)
<1> DEFINE N == PageWords
<1>1. WINDOW_BYTES = 4 * N /\ LOAD_BASE \in 0 .. 252 /\ N \in 9 .. 16
  BY WindowFacts
<1> HIDE DEF N
<1>2. LOAD_BASE + WINDOW_BYTES - 4 = LOAD_BASE + 4 * (N - 1) /\ LOAD_BASE + 4 * 0 = LOAD_BASE
  BY <1>1
<1> QED  BY <1>2 DEF Trampoline, N

LEMMA FirstListing ==
  ASSUME PagesFit
  PROVE  /\ WordOf(0, 1) = ADDI(5, 0, 0)
         /\ WordOf(0, 2) = ADDI(2, 0, 17)
         /\ WordOf(0, 3) = SW(2, 0, LED_OUT)
         /\ \A k \in 4 .. PageWords - 4 : WordOf(0, k) = NOP
         /\ WordOf(0, PageWords - 3) = ADDI(30, 0, 1)
         /\ WordOf(0, PageWords - 2) = SW(30, 0, FLASH_PAGE)
<1> DEFINE N == PageWords
           r == PageOf(0)
<1>1. N \in 9 .. 16
  BY WindowFacts
<1>2. Switches(FirstPage, 4, 1, r)
  <2>1. 4 <= N - 3
    BY <1>1
  <2>2. r = switch_to(FirstPage, 1)
    BY DEF PageOf
  <2> QED  BY <2>1, <2>2, CodeLengths, SwitchedPage, Zenon
<1>3. /\ FirstPage[1 + 1] = ADDI(5, 0, 0) /\ FirstPage[2 + 1] = ADDI(2, 0, 17)
      /\ FirstPage[3 + 1] = SW(2, 0, LED_OUT)
  BY DEF FirstPage
<1> HIDE DEF r
<1>4. /\ \A k \in 0 .. 3 : r[k + 1] = FirstPage[k + 1]
      /\ \A k \in 4 .. N - 4 : r[k + 1] = NOP
      /\ r[(N - 3) + 1] = ADDI(30, 0, 1)
      /\ r[(N - 2) + 1] = SW(30, 0, FLASH_PAGE)
  BY <1>2 DEF Switches
<1>5. 1 \in 0 .. 3 /\ 2 \in 0 .. 3 /\ 3 \in 0 .. 3
  OBVIOUS
<1>6. \A k : WordOf(0, k) = r[k + 1]
  BY DEF WordOf, r
<1> HIDE DEF N
<1> QED  BY <1>3, <1>4, <1>5, <1>6 DEF N

LEMMA SecondListing ==
  ASSUME PagesFit
  PROVE  /\ WordOf(1, 0) = ADDI(2, 0, 34)
         /\ WordOf(1, 1) = SW(2, 0, LED_OUT)
         /\ WordOf(1, 2) = BNE(5, 0, LOAD_BASE + 4 * 2, LOAD_BASE + 4 * 6)
         /\ WordOf(1, 3) = ADDI(5, 0, 1)
         /\ WordOf(1, 4) = ADDI(30, 0, 1)
         /\ WordOf(1, 5) = JAL(0, LOAD_BASE + 4 * 5, LOAD_BASE + 4 * 7)
         /\ WordOf(1, 6) = ADDI(30, 0, 2)
         /\ \A k \in 7 .. PageWords - 3 : WordOf(1, k) = NOP
         /\ WordOf(1, PageWords - 2) = SW(30, 0, FLASH_PAGE)
         /\ WordOf(1, PageWords - 1)
              = JAL(0, LOAD_BASE + 4 * (PageWords - 1), LOAD_BASE + 4 * 0)
<1> DEFINE N == PageWords
           r == PageOf(1)
<1>1. N \in 9 .. 16
  BY WindowFacts
<1>2. GoesOn(SecondPage, 7, r)
  <2>1. 7 <= N - 2
    BY <1>1
  <2>2. r = switch_to_computed(SecondPage)
    BY DEF PageOf
  <2> QED  BY <2>1, <2>2, CodeLengths, ComputedPage, Zenon
<1>3. LOAD_BASE + 8 = LOAD_BASE + 4 * 2 /\ LOAD_BASE + 24 = LOAD_BASE + 4 * 6
      /\ LOAD_BASE + 20 = LOAD_BASE + 4 * 5 /\ LOAD_BASE + 28 = LOAD_BASE + 4 * 7
  OBVIOUS
<1>4. /\ SecondPage[0 + 1] = ADDI(2, 0, 34) /\ SecondPage[1 + 1] = SW(2, 0, LED_OUT)
      /\ SecondPage[2 + 1] = BNE(5, 0, LOAD_BASE + 4 * 2, LOAD_BASE + 4 * 6)
      /\ SecondPage[3 + 1] = ADDI(5, 0, 1) /\ SecondPage[4 + 1] = ADDI(30, 0, 1)
      /\ SecondPage[5 + 1] = JAL(0, LOAD_BASE + 4 * 5, LOAD_BASE + 4 * 7)
      /\ SecondPage[6 + 1] = ADDI(30, 0, 2)
  BY <1>3 DEF SecondPage
<1> HIDE DEF r
<1>5. /\ \A k \in 0 .. 6 : r[k + 1] = SecondPage[k + 1]
      /\ \A k \in 7 .. N - 3 : r[k + 1] = NOP
      /\ r[(N - 2) + 1] = SW(30, 0, FLASH_PAGE)
      /\ r[(N - 1) + 1] = Trampoline
  BY <1>2 DEF GoesOn
<1>6. /\ 0 \in 0 .. 6 /\ 1 \in 0 .. 6 /\ 2 \in 0 .. 6 /\ 3 \in 0 .. 6
      /\ 4 \in 0 .. 6 /\ 5 \in 0 .. 6 /\ 6 \in 0 .. 6
  OBVIOUS
<1>7. \A k : WordOf(1, k) = r[k + 1]
  BY DEF WordOf, r
<1>8. Trampoline = JAL(0, LOAD_BASE + 4 * (N - 1), LOAD_BASE + 4 * 0)
  BY LastWord
<1> HIDE DEF N
<1> QED  BY <1>4, <1>5, <1>6, <1>7, <1>8 DEF N

LEMMA ThirdListing ==
  ASSUME PagesFit
  PROVE  /\ WordOf(2, 0) = ADDI(2, 0, 51)
         /\ WordOf(2, 1) = SW(2, 0, LED_OUT)
         /\ \A k \in 2 .. PageWords - 4 : WordOf(2, k) = NOP
         /\ WordOf(2, PageWords - 3) = ADDI(30, 0, 3)
         /\ WordOf(2, PageWords - 2) = SW(30, 0, FLASH_PAGE)
         /\ WordOf(2, PageWords - 1)
              = JAL(0, LOAD_BASE + 4 * (PageWords - 1), LOAD_BASE + 4 * 0)
<1> DEFINE N == PageWords
           r == PageOf(2)
<1>1. N \in 9 .. 16
  BY WindowFacts
<1>2. Switches(ThirdPage, 2, 3, r)
  <2>1. 2 <= N - 3
    BY <1>1
  <2>2. r = switch_to(ThirdPage, 3)
    BY DEF PageOf
  <2> QED  BY <2>1, <2>2, CodeLengths, SwitchedPage, Zenon
<1>3. ThirdPage[0 + 1] = ADDI(2, 0, 51) /\ ThirdPage[1 + 1] = SW(2, 0, LED_OUT)
  BY DEF ThirdPage
<1> HIDE DEF r
<1>4. /\ \A k \in 0 .. 1 : r[k + 1] = ThirdPage[k + 1]
      /\ \A k \in 2 .. N - 4 : r[k + 1] = NOP
      /\ r[(N - 3) + 1] = ADDI(30, 0, 3)
      /\ r[(N - 2) + 1] = SW(30, 0, FLASH_PAGE)
      /\ r[(N - 1) + 1] = Trampoline
  BY <1>2 DEF Switches
<1>5. 0 \in 0 .. 1 /\ 1 \in 0 .. 1
  OBVIOUS
<1>6. \A k : WordOf(2, k) = r[k + 1]
  BY DEF WordOf, r
<1>7. Trampoline = JAL(0, LOAD_BASE + 4 * (N - 1), LOAD_BASE + 4 * 0)
  BY LastWord
<1> HIDE DEF N
<1> QED  BY <1>3, <1>4, <1>5, <1>6, <1>7 DEF N

LEMMA LastListing ==
  ASSUME PagesFit
  PROVE  /\ WordOf(3, 0) = ADDI(2, 0, 68)
         /\ WordOf(3, 1) = SW(2, 0, LED_OUT)
         /\ WordOf(3, 2) = JAL(0, LOAD_BASE + 4 * 2, LOAD_BASE + 4 * 2)
         /\ WordOf(3, PageWords - 1)
              = JAL(0, LOAD_BASE + 4 * (PageWords - 1), LOAD_BASE + 4 * 0)
<1> DEFINE N == PageWords
           r == PageOf(3)
<1>1. N \in 9 .. 16
  BY WindowFacts
<1>2. Switches(LastPage, 3, 3, r)
  <2>1. 3 <= N - 3
    BY <1>1
  <2>2. r = switch_to(LastPage, 3)
    BY DEF PageOf
  <2> QED  BY <2>1, <2>2, CodeLengths, SwitchedPage, Zenon
<1>3. LOAD_BASE + 8 = LOAD_BASE + 4 * 2
  OBVIOUS
<1>4. /\ LastPage[0 + 1] = ADDI(2, 0, 68) /\ LastPage[1 + 1] = SW(2, 0, LED_OUT)
      /\ LastPage[2 + 1] = JAL(0, LOAD_BASE + 4 * 2, LOAD_BASE + 4 * 2)
  BY <1>3 DEF LastPage
<1> HIDE DEF r
<1>5. /\ \A k \in 0 .. 2 : r[k + 1] = LastPage[k + 1]
      /\ r[(N - 1) + 1] = Trampoline
  BY <1>2 DEF Switches
<1>6. 0 \in 0 .. 2 /\ 1 \in 0 .. 2 /\ 2 \in 0 .. 2
  OBVIOUS
<1>7. \A k : WordOf(3, k) = r[k + 1]
  BY DEF WordOf, r
<1>8. Trampoline = JAL(0, LOAD_BASE + 4 * (N - 1), LOAD_BASE + 4 * 0)
  BY LastWord
<1> HIDE DEF N
<1> QED  BY <1>4, <1>5, <1>6, <1>7, <1>8 DEF N

-----------------------------------------------------------------------------
\* The pages, word by word.

\* What the output is after one more value.

LEMMA AppendFacts ==
  ASSUME NEW s \in Seq(Nat), NEW v \in Nat
  PROVE  /\ Append(s, v) \in Seq(Nat) /\ Len(Append(s, v)) = Len(s) + 1
         /\ \A i \in 1 .. Len(s) : Append(s, v)[i] = s[i]
         /\ Append(s, v)[Len(s) + 1] = v
OBVIOUS

LEMMA AppendTo ==
  ASSUME NEW s \in Seq(Nat), NEW v \in Nat, NEW t \in Seq(Nat), Len(t) = Len(s) + 1,
         \A i \in 1 .. Len(s) : t[i] = s[i], t[Len(s) + 1] = v
  PROVE  t = Append(s, v)
<1> DEFINE a == Append(s, v)
<1>1. a \in Seq(Nat) /\ Len(a) = Len(t)
  BY AppendFacts
<1>2. \A i \in 1 .. Len(t) : a[i] = t[i]
  <2>1. \A i \in 1 .. Len(t) : i \in 1 .. Len(s) \/ i = Len(s) + 1
    OBVIOUS
  <2> QED  BY <2>1, AppendFacts
<1> HIDE DEF a
<1>3. a = [i \in 1 .. Len(t) |-> a[i]] /\ t = [i \in 1 .. Len(t) |-> t[i]]
  BY <1>1
<1>4. a = t
  BY <1>2, <1>3
<1> QED  BY <1>4 DEF a

LEMMA Appends ==
  /\ << 17 >> = Append(<< >>, 17) /\ << 42 >> = Append(<< >>, 42)
  /\ <<17, 34>> = Append(<< 17 >>, 34) /\ <<17, 34, 34>> = Append(<<17, 34>>, 34)
  /\ <<17, 34, 34, 51>> = Append(<<17, 34, 34>>, 51)
  /\ <<17, 34, 34, 51, 68>> = Append(<<17, 34, 34, 51>>, 68)
<1>1. << 17 >> = Append(<< >>, 17) /\ << 42 >> = Append(<< >>, 42)
  OBVIOUS
<1>2. <<17, 34>> = Append(<< 17 >>, 34)
  BY AppendTo
<1>3. <<17, 34, 34>> = Append(<<17, 34>>, 34)
  BY AppendTo
<1>4. <<17, 34, 34, 51>> = Append(<<17, 34, 34>>, 51)
  BY AppendTo
<1>5. <<17, 34, 34, 51, 68>> = Append(<<17, 34, 34, 51>>, 68)
  BY AppendTo
<1> QED  BY <1>1, <1>2, <1>3, <1>4, <1>5

\* A word runs where it is.
LEMMA RunsAt ==
  ASSUME PagesFit, FlashHeld, Ready, Instruction, test.image = PageTest,
         NEW p \in 0 .. 3, NEW k \in 0 .. PageWords - 1, AtWord(p, k)
  PROVE  /\ \A a, b, c : WordOf(p, k) = ADDI(a, b, c) => InFlash(ADDI(a, b, c))
         /\ \A a, b, c : WordOf(p, k) = SW(a, b, c) => InFlash(SW(a, b, c))
         /\ \A a, b, c : WordOf(p, k) = JAL(a, b, c) => InFlash(JAL(a, b, c))
         /\ \A a, b, c, d : WordOf(p, k) = BNE(a, b, c, d) => InFlash(BNE(a, b, c, d))
         /\ WordOf(p, k) = NOP => InFlash(NOP)
<1>1. \A w : IsWord(w) /\ WordOf(p, k) = w => InFlash(w)
  BY PageRuns, Zenon
<1>2. /\ \A a, b, c : IsWord(ADDI(a, b, c)) /\ IsWord(SW(a, b, c)) /\ IsWord(JAL(a, b, c))
      /\ \A a, b, c, d : IsWord(BNE(a, b, c, d))
  BY MnemonicWords, Zenon
<1>3. IsWord(NOP)
  BY <1>2, Zenon DEF NOP
<1> QED  BY <1>1, <1>2, <1>3, Zenon

\* What a word leaves in the other registers.
LEMMA PutsHold ==
  ASSUME NEW p, NEW k, NEW rd \in 1 .. 31, NEW v, Puts(p, k, rd, v)
  PROVE  /\ Went(p, k) /\ seen' = seen /\ Holds(rd, v)'
         /\ \A n \in 1 .. 31 : \A u : n # rd /\ Holds(n, u) => Holds(n, u)'
BY DEF Puts, Holds, Num

LEMMA MovesHold ==
  ASSUME NEW p, NEW k, NEW s, Moves(p, k, s)
  PROVE  /\ Went(p, k) /\ seen' = s
         /\ \A n \in 1 .. 31 : \A u : Holds(n, u) => Holds(n, u)'
BY DEF Moves, Holds, Num

LEMMA FirstPageGoes ==
  ASSUME PagesFit, FlashHeld, Ready, Instruction, test.image = PageTest, InFirstPage
  PROVE  /\ InFirstPage' \/ InSecondPage'
         /\ mode' = TRUE /\ stall' = 0 /\ regs' = [n \in 1 .. 31 |-> regs'[n]]
<1> DEFINE N == PageWords
<1>1. N \in 9 .. 16 /\ 0 \in 0 .. 3
  BY WindowFacts
<1>2. CASE AtWord(0, 1) /\ seen = << >>
  <2>1. InFlash(ADDI(5, 0, 0))
    BY <1>1, <1>2, RunsAt, FirstListing
  <2>2. 1 \in 0 .. N - 1 /\ 2 = 1 + 1 /\ 5 \in 1 .. 31 /\ 0 \in 0 .. 255
    BY <1>1
  <2>3. Puts(0, 2, 5, 0)
    BY <1>2, <2>1, <2>2, AtSets, Zenon
  <2>4. Went(0, 2) /\ seen' = seen /\ Holds(5, 0)'
    BY <2>2, <2>3, PutsHold
  <2> QED  BY <1>2, <2>4 DEF Went, InFirstPage
<1>3. CASE AtWord(0, 2) /\ seen = << >> /\ Holds(5, 0)
  <2>1. InFlash(ADDI(2, 0, 17))
    BY <1>1, <1>3, RunsAt, FirstListing
  <2>2. 2 \in 0 .. N - 1 /\ 3 = 2 + 1 /\ 2 \in 1 .. 31 /\ 17 \in 0 .. 255
    BY <1>1
  <2>3. Puts(0, 3, 2, 17)
    BY <1>3, <2>1, <2>2, AtSets, Zenon
  <2>4. Went(0, 3) /\ seen' = seen /\ Holds(2, 17)' /\ Holds(5, 0)'
    BY <1>3, <2>2, <2>3, PutsHold
  <2> QED  BY <1>3, <2>4 DEF Went, InFirstPage
<1>4. CASE AtWord(0, 3) /\ seen = << >> /\ Holds(5, 0) /\ Holds(2, 17)
  <2>1. InFlash(SW(2, 0, LED_OUT))
    BY <1>1, <1>4, RunsAt, FirstListing
  <2>2. /\ 3 \in 0 .. N - 1 /\ 4 = 3 + 1 /\ 2 \in 1 .. 31 /\ 17 \in 0 .. 255
        /\ << 17 >> = Append(seen, 17)
    BY <1>1, <1>4, Appends
  <2>3. Moves(0, 4, << 17 >>)
    BY <1>4, <2>1, <2>2, AtShows, Zenon
  <2>4. Went(0, 4) /\ seen' = << 17 >> /\ Holds(5, 0)' /\ 4 \in 4 .. N - 3
    BY <1>1, <1>4, <2>3, MovesHold
  <2> QED  BY <2>4 DEF Went, InFirstPage
<1>5. CASE (\E k \in 4 .. N - 3 : AtWord(0, k)) /\ seen = << 17 >> /\ Holds(5, 0)
  <2>1. PICK k \in 4 .. N - 3 : AtWord(0, k)
    BY <1>5
  <2>2. /\ k \in 0 .. N - 1 /\ k + 1 \in Int /\ (k \in 4 .. N - 4 \/ k = N - 3)
        /\ 5 \in 1 .. 31 /\ 30 \in 1 .. 31 /\ 1 \in 0 .. 255 /\ 5 # 30
    BY <1>1
  <2>3. CASE k \in 4 .. N - 4
    <3>1. InFlash(NOP)
      BY <1>1, <2>1, <2>2, <2>3, RunsAt, FirstListing
    <3>2. Moves(0, k + 1, seen)
      BY <2>1, <2>2, <3>1, AtPasses, Zenon
    <3>3. /\ Went(0, k + 1) /\ seen' = seen /\ Holds(5, 0)'
          /\ k + 1 \in 4 .. N - 3
      BY <1>1, <1>5, <2>2, <2>3, <3>2, MovesHold
    <3> QED  BY <1>5, <3>3 DEF Went, InFirstPage
  <2>4. CASE k = N - 3
    <3>1. InFlash(ADDI(30, 0, 1)) /\ N - 2 = k + 1
      BY <1>1, <2>1, <2>2, <2>4, RunsAt, FirstListing
    <3>2. Puts(0, N - 2, 30, 1)
      BY <2>1, <2>2, <3>1, AtSets, Zenon
    <3>3. Went(0, N - 2) /\ seen' = seen /\ Holds(30, 1)' /\ Holds(5, 0)'
      BY <1>5, <2>2, <3>2, PutsHold
    <3> QED  BY <1>5, <3>3 DEF Went, InFirstPage
  <2> QED  BY <2>2, <2>3, <2>4
<1>6. CASE AtWord(0, N - 2) /\ seen = << 17 >> /\ Holds(5, 0) /\ Holds(30, 1)
  <2>1. /\ N - 2 \in 0 .. N - 1 /\ N - 1 = (N - 2) + 1
        /\ 5 \in 1 .. 31 /\ 30 \in 1 .. 31 /\ 1 \in 0 .. 255
    BY <1>1
  <2>2. InFlash(SW(30, 0, FLASH_PAGE))
    BY <1>1, <1>6, <2>1, RunsAt, FirstListing
  <2>3. Moves(1, N - 1, seen)
    BY <1>6, <2>1, <2>2, AtTurns, Zenon
  <2>4. Went(1, N - 1) /\ seen' = seen /\ Holds(5, 0)'
    BY <1>6, <2>1, <2>3, MovesHold
  <2> QED  BY <1>6, <2>4 DEF Went, InSecondPage, Entering, ShownAfter
<1> QED  BY <1>2, <1>3, <1>4, <1>5, <1>6 DEF InFirstPage

LEMMA SecondPageGoes ==
  ASSUME PagesFit, FlashHeld, Ready, Instruction, test.image = PageTest, InSecondPage
  PROVE  /\ InSecondPage' \/ InThirdPage'
         /\ mode' = TRUE /\ stall' = 0 /\ regs' = [n \in 1 .. 31 |-> regs'[n]]
<1> DEFINE N == PageWords
<1>1. /\ N \in 9 .. 16 /\ 1 \in 0 .. 3
      /\ 2 \in 1 .. 31 /\ 5 \in 1 .. 31 /\ 30 \in 1 .. 31
      /\ 1 \in 0 .. 255 /\ 2 \in 0 .. 255 /\ 34 \in 0 .. 255
      /\ 1 = 0 + 1 /\ 2 = 1 + 1 /\ 3 = 2 + 1 /\ 4 = 3 + 1 /\ 5 = 4 + 1 /\ 7 = 6 + 1
  BY WindowFacts
<1>2. /\ 0 \in 0 .. N - 1 /\ 1 \in 0 .. N - 1 /\ 2 \in 0 .. N - 1 /\ 3 \in 0 .. N - 1
      /\ 4 \in 0 .. N - 1 /\ 5 \in 0 .. N - 1 /\ 6 \in 0 .. N - 1 /\ 7 \in 0 .. N - 1
      /\ N - 2 \in 0 .. N - 1 /\ N - 1 \in 0 .. N - 1 /\ N - 1 = (N - 2) + 1
      /\ 7 \in 7 .. N - 2
  BY <1>1
<1>3. /\ Num(0) # Num(1)
      /\ Append(ShownAfter(0), 34) = ShownAfter(1) /\ Append(ShownAfter(1), 34) = ShownAfter(2)
  <2>1. 0 \in 0 .. 255 /\ 0 # 1
    OBVIOUS
  <2>2. Num(0) # Num(1)
    BY <1>1, <2>1, OtherNums
  <2>3. ShownAfter(0) = << 17 >> /\ ShownAfter(1) = <<17, 34>> /\ ShownAfter(2) = <<17, 34, 34>>
    BY DEF ShownAfter
  <2> QED  BY <2>2, <2>3, Appends, Zenon
<1>4. ASSUME NEW i \in {0, 1}, Holds(5, i), Entering(1), seen = ShownAfter(i)
      PROVE  InSecondPage' /\ \E k : Went(1, k)
  <2>1. CASE AtWord(1, N - 1)
    <3>1. InFlash(JAL(0, LOAD_BASE + 4 * (N - 1), LOAD_BASE + 4 * 0))
      BY <1>1, <1>2, <2>1, RunsAt, SecondListing
    <3>2. Moves(1, 0, seen)
      BY <1>2, <2>1, <3>1, AtJumps, Zenon
    <3>3. Went(1, 0) /\ seen' = seen /\ Holds(5, i)'
      BY <1>1, <1>4, <3>2, MovesHold
    <3> QED  BY <1>4, <3>3 DEF Went, InSecondPage, Entering, ShownAfter
  <2>2. CASE AtWord(1, 0)
    <3>1. InFlash(ADDI(2, 0, 34))
      BY <1>1, <1>2, <2>2, RunsAt, SecondListing
    <3>2. Puts(1, 1, 2, 34)
      BY <1>1, <1>2, <2>2, <3>1, AtSets, Zenon
    <3>3. /\ Went(1, 1) /\ seen' = seen /\ Holds(2, 34)'
          /\ \A u : Holds(5, u) => Holds(5, u)'
      BY <1>1, <3>2, PutsHold
    <3> QED  BY <1>4, <3>3 DEF Went, InSecondPage, ShownAfter
  <2> QED  BY <1>4, <2>1, <2>2 DEF Entering
<1>5. ASSUME NEW i \in {0, 1}, Holds(5, i), AtWord(1, 1), seen = ShownAfter(i), Holds(2, 34)
      PROVE  InSecondPage' /\ \E k : Went(1, k)
  <2>1. InFlash(SW(2, 0, LED_OUT))
    BY <1>1, <1>2, <1>5, RunsAt, SecondListing
  <2>2. ShownAfter(i + 1) = Append(seen, 34)
    BY <1>3, <1>5
  <2>3. Moves(1, 2, ShownAfter(i + 1))
    BY <1>1, <1>2, <1>5, <2>1, <2>2, AtShows, Zenon
  <2>4. Went(1, 2) /\ seen' = ShownAfter(i + 1) /\ Holds(5, i)'
    BY <1>1, <1>5, <2>3, MovesHold
  <2> QED  BY <2>4 DEF Went, InSecondPage, ShownAfter
<1>6. ASSUME NEW i \in {0, 1}, Holds(5, i), AtWord(1, 2), seen = ShownAfter(i + 1)
      PROVE  InSecondPage' /\ \E k : Went(1, k)
  <2>1. InFlash(BNE(5, 0, LOAD_BASE + 4 * 2, LOAD_BASE + 4 * 6))
    BY <1>1, <1>2, <1>6, RunsAt, SecondListing
  <2>2. CASE i = 0
    <3>1. Holds(5, 0)
      BY <1>6, <2>2
    <3>2. Moves(1, 3, seen)
      BY <1>1, <1>2, <1>6, <2>1, <3>1, AtBranchesNot, Zenon
    <3>3. Went(1, 3) /\ seen' = seen
      BY <3>2, MovesHold
    <3> QED  BY <1>6, <2>2, <3>3 DEF Went, InSecondPage, ShownAfter
  <2>3. CASE i = 1
    <3>1. ~Holds(5, 0)
      BY <1>3, <1>6, <2>3 DEF Holds
    <3>2. Moves(1, 6, seen)
      BY <1>1, <1>2, <1>6, <2>1, <3>1, AtBranchesAway, Zenon
    <3>3. Went(1, 6) /\ seen' = seen
      BY <3>2, MovesHold
    <3> QED  BY <1>6, <2>3, <3>3 DEF Went, InSecondPage, ShownAfter
  <2> QED  BY <2>2, <2>3
<1>7. ASSUME AtWord(1, 3), seen = ShownAfter(1)
      PROVE  InSecondPage' /\ \E k : Went(1, k)
  <2>1. InFlash(ADDI(5, 0, 1))
    BY <1>1, <1>2, <1>7, RunsAt, SecondListing
  <2>2. Puts(1, 4, 5, 1)
    BY <1>1, <1>2, <1>7, <2>1, AtSets, Zenon
  <2>3. Went(1, 4) /\ seen' = seen /\ Holds(5, 1)'
    BY <1>1, <2>2, PutsHold
  <2> QED  BY <1>7, <2>3 DEF Went, InSecondPage, ShownAfter
<1>8. ASSUME AtWord(1, 4), seen = ShownAfter(1), Holds(5, 1)
      PROVE  InSecondPage' /\ \E k : Went(1, k)
  <2>1. InFlash(ADDI(30, 0, 1))
    BY <1>1, <1>2, <1>8, RunsAt, SecondListing
  <2>2. Puts(1, 5, 30, 1)
    BY <1>1, <1>2, <1>8, <2>1, AtSets, Zenon
  <2>3. Went(1, 5) /\ seen' = seen /\ Holds(30, 1)' /\ Holds(5, 1)'
    BY <1>1, <1>8, <2>2, PutsHold
  <2> QED  BY <1>8, <2>3 DEF Went, InSecondPage, ShownAfter
<1>9. ASSUME AtWord(1, 5), seen = ShownAfter(1), Holds(5, 1), Holds(30, 1)
      PROVE  InSecondPage' /\ \E k : Went(1, k)
  <2>1. InFlash(JAL(0, LOAD_BASE + 4 * 5, LOAD_BASE + 4 * 7))
    BY <1>1, <1>2, <1>9, RunsAt, SecondListing
  <2>2. Moves(1, 7, seen)
    BY <1>2, <1>9, <2>1, AtJumps, Zenon
  <2>3. Went(1, 7) /\ seen' = seen /\ Holds(5, 1)' /\ Holds(30, 1)'
    BY <1>1, <1>9, <2>2, MovesHold
  <2> QED  BY <1>2, <1>9, <2>3 DEF Went, InSecondPage, ShownAfter
<1>10. ASSUME AtWord(1, 6), seen = ShownAfter(2)
       PROVE  InSecondPage' /\ \E k : Went(1, k)
  <2>1. InFlash(ADDI(30, 0, 2))
    BY <1>1, <1>2, <1>10, RunsAt, SecondListing
  <2>2. Puts(1, 7, 30, 2)
    BY <1>1, <1>2, <1>10, <2>1, AtSets, Zenon
  <2>3. Went(1, 7) /\ seen' = seen /\ Holds(30, 2)'
    BY <1>1, <2>2, PutsHold
  <2> QED  BY <1>2, <1>10, <2>3 DEF Went, InSecondPage, ShownAfter
<1>11. ASSUME NEW k \in 7 .. N - 2, AtWord(1, k),
              \/ seen = ShownAfter(1) /\ Holds(5, 1) /\ Holds(30, 1)
              \/ seen = ShownAfter(2) /\ Holds(30, 2)
       PROVE  (InSecondPage' \/ InThirdPage') /\ \E p, j : Went(p, j)
  <2>1. k \in 0 .. N - 1 /\ (k \in 7 .. N - 3 \/ k = N - 2) /\ k + 1 \in Int
    BY <1>1
  <2>2. CASE k \in 7 .. N - 3
    <3>1. InFlash(NOP)
      BY <1>1, <1>11, <2>1, <2>2, RunsAt, SecondListing
    <3>2. Moves(1, k + 1, seen) /\ k + 1 \in 7 .. N - 2
      <4>1. Moves(1, k + 1, seen)
        BY <1>11, <2>1, <3>1, AtPasses, Zenon
      <4> QED  BY <1>1, <2>2, <4>1
    <3>3. /\ Went(1, k + 1) /\ seen' = seen
          /\ \/ seen = ShownAfter(1) /\ Holds(5, 1)' /\ Holds(30, 1)'
             \/ seen = ShownAfter(2) /\ Holds(30, 2)'
      BY <1>1, <1>11, <3>2, MovesHold
    <3> QED  BY <3>2, <3>3 DEF Went, InSecondPage, ShownAfter
  <2>3. CASE k = N - 2
    <3>1. InFlash(SW(30, 0, FLASH_PAGE))
      BY <1>1, <1>11, <2>1, <2>3, RunsAt, SecondListing
    <3>2. CASE seen = ShownAfter(1) /\ Holds(5, 1) /\ Holds(30, 1)
      <4>1. Moves(1, N - 1, seen)
        BY <1>1, <1>2, <1>11, <2>3, <3>1, <3>2, AtTurns, Zenon
      <4>2. Went(1, N - 1) /\ seen' = seen /\ Holds(5, 1)'
        BY <1>1, <3>2, <4>1, MovesHold
      <4> QED  BY <3>2, <4>2 DEF Went, InSecondPage, Entering, ShownAfter
    <3>3. CASE seen = ShownAfter(2) /\ Holds(30, 2)
      <4>1. Moves(2, N - 1, seen)
        BY <1>1, <1>2, <1>11, <2>3, <3>1, <3>3, AtTurns, Zenon
      <4>2. Went(2, N - 1) /\ seen' = seen
        BY <4>1, MovesHold
      <4> QED  BY <3>3, <4>2 DEF Went, InThirdPage, Entering, ShownAfter
    <3> QED  BY <1>11, <3>2, <3>3
  <2> QED  BY <2>1, <2>2, <2>3
<1>12. (InSecondPage' \/ InThirdPage') /\ \E p, j : Went(p, j)
  BY <1>4, <1>5, <1>6, <1>7, <1>8, <1>9, <1>10, <1>11 DEF InSecondPage
<1> QED  BY <1>12 DEF Went

LEMMA ThirdPageGoes ==
  ASSUME PagesFit, FlashHeld, Ready, Instruction, test.image = PageTest, InThirdPage
  PROVE  /\ InThirdPage' \/ InLastPage'
         /\ mode' = TRUE /\ stall' = 0 /\ regs' = [n \in 1 .. 31 |-> regs'[n]]
<1> DEFINE N == PageWords
<1>1. /\ N \in 9 .. 16 /\ 2 \in 0 .. 3 /\ 2 \in 1 .. 31 /\ 30 \in 1 .. 31
      /\ 3 \in 0 .. 255 /\ 51 \in 0 .. 255 /\ 1 = 0 + 1 /\ 2 = 1 + 1
  BY WindowFacts
<1>2. /\ 0 \in 0 .. N - 1 /\ 1 \in 0 .. N - 1 /\ 2 \in 2 .. N - 3
      /\ N - 2 \in 0 .. N - 1 /\ N - 1 \in 0 .. N - 1 /\ N - 1 = (N - 2) + 1
  BY <1>1
<1>3. ASSUME Entering(2), seen = <<17, 34, 34>>
      PROVE  InThirdPage' /\ \E k : Went(2, k)
  <2>1. CASE AtWord(2, N - 1)
    <3>1. InFlash(JAL(0, LOAD_BASE + 4 * (N - 1), LOAD_BASE + 4 * 0))
      BY <1>1, <1>2, <2>1, RunsAt, ThirdListing
    <3>2. Moves(2, 0, seen)
      BY <1>2, <2>1, <3>1, AtJumps, Zenon
    <3>3. Went(2, 0) /\ seen' = seen
      BY <3>2, MovesHold
    <3> QED  BY <1>3, <3>3 DEF Went, InThirdPage, Entering
  <2>2. CASE AtWord(2, 0)
    <3>1. InFlash(ADDI(2, 0, 51))
      BY <1>1, <1>2, <2>2, RunsAt, ThirdListing
    <3>2. Puts(2, 1, 2, 51)
      BY <1>1, <1>2, <2>2, <3>1, AtSets, Zenon
    <3>3. Went(2, 1) /\ seen' = seen /\ Holds(2, 51)'
      BY <1>1, <3>2, PutsHold
    <3> QED  BY <1>3, <3>3 DEF Went, InThirdPage
  <2> QED  BY <1>3, <2>1, <2>2 DEF Entering
<1>4. ASSUME AtWord(2, 1), seen = <<17, 34, 34>>, Holds(2, 51)
      PROVE  InThirdPage' /\ \E k : Went(2, k)
  <2>1. InFlash(SW(2, 0, LED_OUT))
    BY <1>1, <1>2, <1>4, RunsAt, ThirdListing
  <2>2. <<17, 34, 34, 51>> = Append(seen, 51)
    BY <1>4, Appends, Zenon
  <2>3. Moves(2, 2, <<17, 34, 34, 51>>)
    BY <1>1, <1>2, <1>4, <2>1, <2>2, AtShows, Zenon
  <2>4. Went(2, 2) /\ seen' = <<17, 34, 34, 51>>
    BY <2>3, MovesHold
  <2> QED  BY <1>2, <2>4 DEF Went, InThirdPage
<1>5. ASSUME NEW k \in 2 .. N - 3, AtWord(2, k), seen = <<17, 34, 34, 51>>
      PROVE  InThirdPage' /\ \E j : Went(2, j)
  <2>1. k \in 0 .. N - 1 /\ (k \in 2 .. N - 4 \/ k = N - 3) /\ k + 1 \in Int
    BY <1>1
  <2>2. CASE k \in 2 .. N - 4
    <3>1. InFlash(NOP)
      BY <1>1, <1>5, <2>1, <2>2, RunsAt, ThirdListing
    <3>2. Moves(2, k + 1, seen)
      BY <1>5, <2>1, <3>1, AtPasses, Zenon
    <3>3. Went(2, k + 1) /\ seen' = seen /\ k + 1 \in 2 .. N - 3
      BY <1>1, <2>2, <3>2, MovesHold
    <3> QED  BY <1>5, <3>3 DEF Went, InThirdPage
  <2>3. CASE k = N - 3
    <3>1. InFlash(ADDI(30, 0, 3)) /\ N - 2 = k + 1
      BY <1>1, <1>5, <2>1, <2>3, RunsAt, ThirdListing
    <3>2. Puts(2, N - 2, 30, 3)
      BY <1>1, <1>5, <2>1, <3>1, AtSets, Zenon
    <3>3. Went(2, N - 2) /\ seen' = seen /\ Holds(30, 3)'
      BY <1>1, <3>2, PutsHold
    <3> QED  BY <1>5, <3>3 DEF Went, InThirdPage
  <2> QED  BY <2>1, <2>2, <2>3
<1>6. ASSUME AtWord(2, N - 2), seen = <<17, 34, 34, 51>>, Holds(30, 3)
      PROVE  InLastPage' /\ \E k : Went(3, k)
  <2>1. InFlash(SW(30, 0, FLASH_PAGE))
    BY <1>1, <1>2, <1>6, RunsAt, ThirdListing
  <2>2. Moves(3, N - 1, seen)
    BY <1>1, <1>2, <1>6, <2>1, AtTurns, Zenon
  <2>3. Went(3, N - 1) /\ seen' = seen
    BY <2>2, MovesHold
  <2> QED  BY <1>6, <2>3 DEF Went, InLastPage, Entering
<1>7. (InThirdPage' \/ InLastPage') /\ \E p, j : Went(p, j)
  BY <1>3, <1>4, <1>5, <1>6 DEF InThirdPage
<1> QED  BY <1>7 DEF Went

LEMMA LastPageGoes ==
  ASSUME PagesFit, FlashHeld, Ready, Instruction, test.image = PageTest, InLastPage
  PROVE  /\ InLastPage'
         /\ mode' = TRUE /\ stall' = 0 /\ regs' = [n \in 1 .. 31 |-> regs'[n]]
<1> DEFINE N == PageWords
<1>1. /\ N \in 9 .. 16 /\ 3 \in 0 .. 3 /\ 2 \in 1 .. 31
      /\ 68 \in 0 .. 255 /\ 1 = 0 + 1 /\ 2 = 1 + 1
  BY WindowFacts
<1>2. 0 \in 0 .. N - 1 /\ 1 \in 0 .. N - 1 /\ 2 \in 0 .. N - 1 /\ N - 1 \in 0 .. N - 1
  BY <1>1
<1>3. ASSUME Entering(3), seen = <<17, 34, 34, 51>>
      PROVE  InLastPage' /\ \E k : Went(3, k)
  <2>1. CASE AtWord(3, N - 1)
    <3>1. InFlash(JAL(0, LOAD_BASE + 4 * (N - 1), LOAD_BASE + 4 * 0))
      BY <1>1, <1>2, <2>1, RunsAt, LastListing
    <3>2. Moves(3, 0, seen)
      BY <1>2, <2>1, <3>1, AtJumps, Zenon
    <3>3. Went(3, 0) /\ seen' = seen
      BY <3>2, MovesHold
    <3> QED  BY <1>3, <3>3 DEF Went, InLastPage, Entering
  <2>2. CASE AtWord(3, 0)
    <3>1. InFlash(ADDI(2, 0, 68))
      BY <1>1, <1>2, <2>2, RunsAt, LastListing
    <3>2. Puts(3, 1, 2, 68)
      BY <1>1, <1>2, <2>2, <3>1, AtSets, Zenon
    <3>3. Went(3, 1) /\ seen' = seen /\ Holds(2, 68)'
      BY <1>1, <3>2, PutsHold
    <3> QED  BY <1>3, <3>3 DEF Went, InLastPage
  <2> QED  BY <1>3, <2>1, <2>2 DEF Entering
<1>4. ASSUME AtWord(3, 1), seen = <<17, 34, 34, 51>>, Holds(2, 68)
      PROVE  InLastPage' /\ \E k : Went(3, k)
  <2>1. InFlash(SW(2, 0, LED_OUT))
    BY <1>1, <1>2, <1>4, RunsAt, LastListing
  <2>2. <<17, 34, 34, 51, 68>> = Append(seen, 68)
    BY <1>4, Appends, Zenon
  <2>3. Moves(3, 2, <<17, 34, 34, 51, 68>>)
    BY <1>1, <1>2, <1>4, <2>1, <2>2, AtShows, Zenon
  <2>4. Went(3, 2) /\ seen' = <<17, 34, 34, 51, 68>>
    BY <2>3, MovesHold
  <2> QED  BY <2>4 DEF Went, InLastPage
<1>5. ASSUME AtWord(3, 2), seen = <<17, 34, 34, 51, 68>>
      PROVE  InLastPage' /\ \E k : Went(3, k)
  <2>1. InFlash(JAL(0, LOAD_BASE + 4 * 2, LOAD_BASE + 4 * 2))
    BY <1>1, <1>2, <1>5, RunsAt, LastListing
  <2>2. Moves(3, 2, seen)
    BY <1>2, <1>5, <2>1, AtJumps, Zenon
  <2>3. Went(3, 2) /\ seen' = seen
    BY <2>2, MovesHold
  <2> QED  BY <1>5, <2>3 DEF Went, InLastPage
<1>6. InLastPage' /\ \E j : Went(3, j)
  BY <1>3, <1>4, <1>5 DEF InLastPage
<1> QED  BY <1>6 DEF Went

LEMMA CanaryGoes ==
  ASSUME PagesFit, FlashHeld, Ready, Instruction, test.image = Canary, InCanary
  PROVE  /\ InCanary'
         /\ mode' = TRUE /\ stall' = 0 /\ regs' = [n \in 1 .. 31 |-> regs'[n]]
<1> DEFINE N == PageWords
<1>1. /\ N \in 9 .. 16 /\ 5 \in 1 .. 31 /\ 42 \in 0 .. 255
      /\ 2 = 1 + 1 /\ 3 = 2 + 1 /\ 1 \in 0 .. 3 /\ 2 \in 0 .. 3 /\ 3 \in 0 .. 3
  BY WindowFacts
<1>2. 1 \in 0 .. N - 1 /\ 2 \in 0 .. N - 1 /\ 3 \in 0 .. N - 1
  BY <1>1
<1>3. /\ Canary[1 + 1] = ADDI(5, 0, 42) /\ IsWord(ADDI(5, 0, 42))
      /\ Canary[2 + 1] = SW(5, 0, LED_OUT) /\ IsWord(SW(5, 0, LED_OUT))
  <2>1. IsWord(ADDI(5, 0, 42)) /\ IsWord(SW(5, 0, LED_OUT))
    BY MnemonicWords, Zenon
  <2> QED  BY <2>1 DEF Canary
<1>4. /\ Canary[3 + 1] = JAL(0, LOAD_BASE + 4 * 3, LOAD_BASE + 4 * 3)
      /\ IsWord(JAL(0, LOAD_BASE + 4 * 3, LOAD_BASE + 4 * 3))
  <2>1. IsWord(JAL(0, LOAD_BASE + 4 * 3, LOAD_BASE + 4 * 3))
    BY MnemonicWords, Zenon
  <2> DEFINE word(off) == EncU(2^19 * Bit(off, 20) + 2^9 * ((off \div 2) % 1024)
                               + 2^8 * Bit(off, 11) + ((off \div 4096) % 256), 0, OP_JAL)
             here == LOAD_BASE + 4 * 3
  <2>2. JAL(0, 12, 12) = word(12 - 12) /\ JAL(0, here, here) = word(here - here)
    BY DEF JAL
  <2>3. 12 - 12 = 0 /\ here - here = 0
    BY WindowFacts
  <2> HIDE DEF word
  <2>4. JAL(0, 12, 12) = JAL(0, here, here)
    BY <2>2, <2>3
  <2> QED  BY <2>1, <2>4 DEF Canary
<1>5. ASSUME AtWord(0, 1), seen = << >>
      PROVE  InCanary' /\ \E k : Went(0, k)
  <2>1. InFlash(ADDI(5, 0, 42))
    BY <1>1, <1>3, <1>5, CanaryRuns, Zenon
  <2>2. Puts(0, 2, 5, 42)
    BY <1>1, <1>2, <1>5, <2>1, AtSets, Zenon
  <2>3. Went(0, 2) /\ seen' = seen /\ Holds(5, 42)'
    BY <1>1, <2>2, PutsHold
  <2> QED  BY <1>5, <2>3 DEF Went, InCanary
<1>6. ASSUME AtWord(0, 2), seen = << >>, Holds(5, 42)
      PROVE  InCanary' /\ \E k : Went(0, k)
  <2>1. InFlash(SW(5, 0, LED_OUT))
    BY <1>1, <1>3, <1>6, CanaryRuns, Zenon
  <2>2. << 42 >> = Append(seen, 42)
    BY <1>6, Appends, Zenon
  <2>3. Moves(0, 3, << 42 >>)
    BY <1>1, <1>2, <1>6, <2>1, <2>2, AtShows, Zenon
  <2>4. Went(0, 3) /\ seen' = << 42 >>
    BY <2>3, MovesHold
  <2> QED  BY <2>4 DEF Went, InCanary
<1>7. ASSUME AtWord(0, 3), seen = << 42 >>
      PROVE  InCanary' /\ \E k : Went(0, k)
  <2>1. InFlash(JAL(0, LOAD_BASE + 4 * 3, LOAD_BASE + 4 * 3))
    BY <1>1, <1>4, <1>7, CanaryRuns, Zenon
  <2>2. Moves(0, 3, seen)
    BY <1>2, <1>7, <2>1, AtJumps, Zenon
  <2>3. Went(0, 3) /\ seen' = seen
    BY <2>2, MovesHold
  <2> QED  BY <1>7, <2>3 DEF Went, InCanary
<1>8. InCanary' /\ \E k : Went(0, k)
  BY <1>5, <1>6, <1>7 DEF InCanary
<1> QED  BY <1>8 DEF Went

-----------------------------------------------------------------------------
\* From power-on to the end of the image.

\* No instruction writes the flash.
LEMMA FlashStays ==
  ASSUME FlashHeld, Instruction \/ Stall, UNCHANGED test
  PROVE  FlashHeld'
<1>1. CASE Instruction
  <2> DEFINE w == ReadsAt(pc, 4)
             a == Addr8(AluY(w, regs))
             n == Bytes(AccessSize(w))
             wd == Reg(regs, Rs2(w))
  <2>1. store' = store \/ store' = StorePsram(store, mode, a, n, wd)
    BY <1>1, InstructionIs DEF Steps
  <2> HIDE DEF a, n, wd
  <2>2. \/ store' = store
        \/ \E m : store' = [store EXCEPT !["psram"] = m]
    BY <2>1 DEF StorePsram
  <2>3. "flash" \in DOMAIN store' /\ store'["flash"] = store["flash"]
    BY <2>2 DEF FlashHeld
  <2> QED  BY <2>3 DEF FlashHeld, FlashImage
<1>2. CASE Stall
  BY <1>2 DEF Stall, codeVars, FlashHeld, FlashImage
<1> QED  BY <1>1, <1>2

\* What the pins show before FLASH_MODE is not part of the image's output.
LEMMA SeenWaits ==
  ASSUME mode = FALSE, Instruction \/ Stall
  PROVE  seen' = seen
<1>1. CASE Instruction
  <2> DEFINE w == ReadsAt(pc, 4)
  <2>1. Steps(w)
    BY <1>1, InstructionIs
  <2> HIDE DEF w
  <2> QED  BY <2>1 DEF Steps
<1>2. CASE Stall
  BY <1>2 DEF Stall
<1> QED  BY <1>1, <1>2

LEMMA SecondWord ==
  ASSUME PagesFit
  PROVE  (LOAD_BASE + 4) % 256 = LOAD_BASE + 4 * 1
<1> DEFINE N == PageWords
<1>1. N \in 9 .. 16 /\ LOAD_BASE \in 0 .. 252 /\ LOAD_BASE + 4 * N <= 239
  BY WindowFacts
<1> HIDE DEF N
<1> QED  BY <1>1

\* The stub leaves the computer at the second word of the image.
LEMMA HandsOn ==
  ASSUME Fitting, PagesFit, HandsOff, regs = [n \in 1 .. 31 |-> regs[n]], seen' = << >>,
         UNCHANGED test, test \in Tests, OurTests
  PROVE  Showing'
<1>1. (LOAD_BASE + 4) % 256 = LOAD_BASE + 4 * 1
  BY SecondWord
<1>2. AtWord(0, 1)'
  BY <1>1 DEF HandsOff, AtWord
<1>3. \/ test.image = Canary /\ test.shows = << 42 >>
      \/ test.image = PageTest /\ test.shows = <<17, 34, 34, 51, 68>>
  BY DEF OurTests
<1>4. Canary' = Canary /\ PageTest' = PageTest
  BY Zenon DEF Canary, PageTest
<1> QED  BY <1>2, <1>3, <1>4 DEF HandsOff, Showing, InCanary, InPages, InFirstPage

\* One instruction of the image.
LEMMA ImageGoes ==
  ASSUME PagesFit, FlashHeld, Showing, Instruction \/ Stall, UNCHANGED test
  PROVE  Showing'
<1>1. Instruction /\ Ready
  BY DEF Showing, Stall, Ready
<1>2. Canary' = Canary /\ PageTest' = PageTest
  BY Zenon DEF Canary, PageTest
<1>3. CASE test.image = Canary /\ test.shows = << 42 >> /\ InCanary
  BY <1>1, <1>2, <1>3, CanaryGoes DEF Showing
<1>4. CASE test.image = PageTest /\ test.shows = <<17, 34, 34, 51, 68>> /\ InPages
  <2>1. /\ InPages'
        /\ mode' = TRUE /\ stall' = 0 /\ regs' = [n \in 1 .. 31 |-> regs'[n]]
    BY <1>1, <1>4, FirstPageGoes, SecondPageGoes, ThirdPageGoes, LastPageGoes DEF InPages
  <2> QED  BY <1>2, <1>4, <2>1 DEF Showing
<1> QED  BY <1>3, <1>4 DEF Showing

\* The program is loaded and nothing has been shown, or the image shows what it
\* has to show.
BenchIInv ==
  /\ BootIInv
  /\ test \in Tests /\ FlashHeld
  /\ \/ InPlace /\ seen = << >>
     \/ Showing

LEMMA ShowStarts ==
  ASSUME Fitting, BenchInit, BootIInv PROVE BenchIInv
<1>1. test \in Tests /\ seen = << >> /\ FlashHeld
  BY DEF BenchInit, FlashHeld
<1> QED  BY <1>1, BenchStarts DEF BenchIInv

LEMMA ShowKept ==
  ASSUME EnoughTime, Fitting, SendsStub, OurTests, PagesFit, BenchIInv, [BenchNext]_benchVars
  PROVE  BenchIInv'
<1>1. BootIInv'
  BY BenchIsBoot, BootStep DEF BenchIInv
<1>2. ASSUME RunCode PROVE BenchIInv'
  <2>1. (Instruction \/ Stall) /\ UNCHANGED test
    BY <1>2 DEF RunCode
  <2>2. test' \in Tests /\ FlashHeld'
    BY <2>1, FlashStays DEF BenchIInv
  <2>3. CASE InPlace /\ seen = << >>
    <3>1. seen' = << >> /\ regs = [n \in 1 .. 31 |-> regs[n]]
      BY <2>1, <2>3, SeenWaits DEF InPlace, Framed
    <3>2. InPlace' \/ HandsOff
      BY <1>2, <2>3, PlaceGoes DEF BenchIInv
    <3>3. HandsOff => Showing'
      BY <2>1, <3>1, HandsOn DEF BenchIInv
    <3> QED  BY <1>1, <2>2, <3>1, <3>2, <3>3 DEF BenchIInv
  <2>4. CASE Showing
    <3>1. Showing'
      BY <2>1, <2>4, ImageGoes DEF BenchIInv
    <3> QED  BY <1>1, <2>2, <3>1 DEF BenchIInv
  <2> QED  BY <2>3, <2>4 DEF BenchIInv
<1>3. ASSUME Host PROVE UNCHANGED <<chipVars, codeVars, stall, test, seen>>
  BY <1>3 DEF Host, Sending, HostStart, HostNextBit, HostRaise, HostLower, HostMoves
<1>4. ASSUME UNCHANGED benchVars PROVE UNCHANGED <<chipVars, codeVars, stall, test, seen>>
  BY <1>4 DEF benchVars, vars
<1>5. ASSUME UNCHANGED <<chipVars, codeVars, stall, test, seen>> PROVE BenchIInv'
  <2>1. FlashHeld' /\ test' \in Tests
    BY <1>5 DEF BenchIInv, FlashHeld, FlashImage, codeVars
  <2>2. CASE InPlace /\ seen = << >>
    BY <1>1, <1>5, <2>1, <2>2, Frozen DEF BenchIInv
  <2>3. CASE Showing
    <3>1. Showing'
      BY <1>5, <2>3 DEF codeVars, Showing, InCanary, InPages, InFirstPage, InSecondPage,
                        InThirdPage, InLastPage, Entering, AtWord, Holds
    <3> QED  BY <1>1, <2>1, <3>1 DEF BenchIInv
  <2> QED  BY <2>2, <2>3 DEF BenchIInv
<1> QED  BY <1>2, <1>3, <1>4, <1>5 DEF BenchNext

LEMMA ShowsSoFar == BenchIInv => ShowsInOrder
<1> SUFFICES ASSUME BenchIInv PROVE ShowsInOrder
  OBVIOUS
<1>1. CASE InPlace /\ seen = << >>
  BY <1>1 DEF ShowsInOrder, IsPrefix
<1>2. CASE test.shows = << 42 >> /\ (seen = << >> \/ seen = << 42 >>)
  <2>1. test.shows = << 42 >> /\ seen = << >> => ShowsInOrder
    BY DEF ShowsInOrder, IsPrefix
  <2>2. test.shows = << 42 >> /\ seen = << 42 >> => ShowsInOrder
    BY DEF ShowsInOrder, IsPrefix
  <2> QED  BY <1>2, <2>1, <2>2, Zenon
<1>3. CASE /\ test.shows = <<17, 34, 34, 51, 68>>
            /\ \/ seen = << >> \/ seen = << 17 >> \/ seen = <<17, 34>> \/ seen = <<17, 34, 34>>
               \/ seen = <<17, 34, 34, 51>> \/ seen = <<17, 34, 34, 51, 68>>
  <2>1. test.shows = <<17, 34, 34, 51, 68>> /\ seen = << >> => ShowsInOrder
    BY DEF ShowsInOrder, IsPrefix
  <2>2. test.shows = <<17, 34, 34, 51, 68>> /\ seen = << 17 >> => ShowsInOrder
    BY DEF ShowsInOrder, IsPrefix
  <2>3. test.shows = <<17, 34, 34, 51, 68>> /\ seen = <<17, 34>> => ShowsInOrder
    BY DEF ShowsInOrder, IsPrefix
  <2>4. test.shows = <<17, 34, 34, 51, 68>> /\ seen = <<17, 34, 34>> => ShowsInOrder
    BY DEF ShowsInOrder, IsPrefix
  <2>5. test.shows = <<17, 34, 34, 51, 68>> /\ seen = <<17, 34, 34, 51>> => ShowsInOrder
    BY DEF ShowsInOrder, IsPrefix
  <2>6. test.shows = <<17, 34, 34, 51, 68>> /\ seen = <<17, 34, 34, 51, 68>> => ShowsInOrder
    BY DEF ShowsInOrder, IsPrefix
  <2> QED  BY <1>3, <2>1, <2>2, <2>3, <2>4, <2>5, <2>6, Zenon
<1>4. CASE Showing
  <2>1. InCanary => seen = << >> \/ seen = << 42 >>
    BY DEF InCanary
  <2>2. InPages => \/ seen = << >> \/ seen = << 17 >> \/ seen = <<17, 34>> \/ seen = <<17, 34, 34>>
                   \/ seen = <<17, 34, 34, 51>> \/ seen = <<17, 34, 34, 51, 68>>
    BY DEF InPages, InFirstPage, InSecondPage, InThirdPage, InLastPage, ShownAfter
  <2> QED  BY <1>2, <1>3, <1>4, <2>1, <2>2 DEF Showing
<1> QED  BY <1>1, <1>4 DEF BenchIInv

\* The images of the benches show their values in order, each of them once: for
\* every program that starts with the stub, every content of the memory, every
\* time of the START pin and every window of nine words or more, the output in
\* FLASH_MODE is at each moment a prefix of <<42>> for the canary and of
\* <<17, 34, 34, 51, 68>> for the page test, whose pages padded to the window
\* send the core from page to page by one word at the same place of each.
THEOREM BenchShows ==
  ASSUME EnoughTime, Fitting, SendsStub, OurTests, PagesFit
  PROVE  BenchSpec => []ShowsInOrder
<1>1. BenchInit => BenchIInv
  BY BenchIsBoot, BootInit, ShowStarts
<1>2. BenchIInv /\ [BenchNext]_benchVars => BenchIInv'
  BY ShowKept
<1>3. BenchIInv => ShowsInOrder
  BY ShowsSoFar
<1> QED  BY <1>1, <1>2, <1>3, PTL DEF BenchSpec

=============================================================================
