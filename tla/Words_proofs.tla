---------------------------- MODULE Words_proofs ----------------------------
(***************************************************************************)
(* What is proved of words and bytes, with no state: the word pairs and    *)
(* part-selects of mem.v byte by byte, and the addresses of the devices,   *)
(* for every content of the ROM, of the RAM and of the devices; that the   *)
(* words of class Asm, of which every program consists, do on the core     *)
(* what their mnemonics say; and what the core computes with numbers of    *)
(* eight bits in a word.                                                   *)
(***************************************************************************)
EXTENDS Asm, ByteMem, TLAPS

-----------------------------------------------------------------------------
\* Bit vectors, bytes in words and addresses of the devices.

LEMMA ZerosType == \A n \in Nat : Zeros(n) \in Bits(n)
BY DEF Zeros, Bits, BIT

LEMMA ToBitsType == \A x, n \in Nat : ToBits(x, n) \in Bits(n)
BY DEF ToBits, Bits, BIT

LEMMA IncrementType ==
  ASSUME NEW n \in Nat, NEW v \in Bits(n)
  PROVE  Increment(v, n) \in Bits(n)
BY DEF Increment, Bits, BIT

LEMMA PlusType ==
  ASSUME NEW n \in Nat, NEW v \in Bits(n), NEW k
  PROVE  Plus(v, n, k) \in Bits(n)
<1>1. Increment(v, n) \in Bits(n)
  BY IncrementType
<1>2. Increment(Increment(v, n), n) \in Bits(n)
  BY <1>1, IncrementType
<1>3. Increment(Increment(Increment(v, n), n), n) \in Bits(n)
  BY <1>2, IncrementType
<1>. QED  BY <1>1, <1>2, <1>3 DEF Plus

LEMMA LaneType ==
  ASSUME NEW w \in Word, NEW k \in 0 .. 3
  PROVE  Lane(w, k) \in Byte
  BY DEF Lane, Word, Byte, Bits, BIT

LEMMA BitsOfWord ==
  ASSUME NEW w \in Word, NEW i \in 0 .. 31
  PROVE  w[i] \in 0 .. 1
  BY DEF Word, Bits, BIT

LEMMA ValType ==
  ASSUME NEW n \in 0 .. 8, NEW v, \A i \in 0 .. n - 1 : v[i] \in 0 .. 1
  PROVE  /\ Val(v, n) \in 0 .. 255
         /\ n = 7 => Val(v, n) \in 0 .. 127
         /\ n = 5 => Val(v, n) \in 0 .. 31
         /\ n = 3 => Val(v, n) \in 0 .. 7
<1> DEFINE bit(i) == IF i < n THEN v[i] ELSE 0
<1>1. \A i \in 0 .. 7 : bit(i) \in 0 .. 1 /\ (i >= n => bit(i) = 0)
  OBVIOUS
<1>2. Val(v, n) = bit(0) + 2 * bit(1) + 4 * bit(2) + 8 * bit(3)
                    + 16 * bit(4) + 32 * bit(5) + 64 * bit(6) + 128 * bit(7)
  BY DEF Val
<1> HIDE DEF bit
<1>3. /\ bit(0) \in 0 .. 1 /\ bit(1) \in 0 .. 1 /\ bit(2) \in 0 .. 1
      /\ bit(3) \in 0 .. 1 /\ bit(4) \in 0 .. 1 /\ bit(5) \in 0 .. 1
      /\ bit(6) \in 0 .. 1 /\ bit(7) \in 0 .. 1
  BY <1>1
<1>4. /\ n = 7 => bit(7) = 0
      /\ n = 5 => bit(5) = 0 /\ bit(6) = 0 /\ bit(7) = 0
      /\ n = 3 => bit(3) = 0 /\ bit(4) = 0 /\ bit(5) = 0 /\ bit(6) = 0 /\ bit(7) = 0
  BY <1>1
<1>. QED  BY <1>2, <1>3, <1>4

LEMMA IdxType == \A a \in Addr24 : Idx(a) \in Index
BY IdxBitsAssumption DEF Idx, Low, Index, Addr24, Bits

\* Arithmetic of word indices and byte offsets.

LEMMA WordAndOffset ==
  ASSUME NEW a \in Nat, NEW k \in 0 .. 3
  PROVE  /\ a \div 4 \in Nat /\ a % 4 \in 0 .. 3
         /\ a = 4 * (a \div 4) + (a % 4)
         /\ (a % 4) + k < 4 => /\ (a + k) \div 4 = a \div 4
                             /\ (a + k) % 4 = (a % 4) + k
         /\ (a % 4) + k >= 4 => /\ (a + k) \div 4 = a \div 4 + 1
                              /\ (a + k) % 4 = (a % 4) + k - 4
  OBVIOUS

-----------------------------------------------------------------------------
\* The address map.

LEMMA MapFacts ==
  /\ ROM_BYTES \in 0 .. 252 /\ RAM_BASE \in 0 .. 252 /\ RAM_BYTES \in 0 .. 64
  /\ LOAD_BASE \in 0 .. 252
  /\ RAM_BASE % 4 = 0 /\ RAM_BYTES % 4 = 0
  /\ RAM_BASE + RAM_BYTES <= 240
  /\ ROM_BYTES <= RAM_BASE
  /\ RAM_BYTES = 4 * NWORDS /\ NWORDS \in 0 .. 16
  BY MapAssumption DEF NWORDS

\* Byte k of what the pair {w1, w0} shows from byte offset off.
LEMMA PairLane ==
  ASSUME NEW w0, NEW w1, NEW off \in 0 .. 3, NEW k \in 0 .. 3
  PROVE  Lane(PairSelect(w0, w1, off), k) =
           IF off + k < 4 THEN Lane(w0, off + k) ELSE Lane(w1, off + k - 4)
  BY DEF Lane, PairSelect

\* A RAM address is its distance from RAM_BASE, and indexes a word that is there.
LEMMA RamIndex ==
  ASSUME NEW a \in BusAddr, in_ram_range(a)
  PROVE  /\ ram_addr(a) = a - RAM_BASE
         /\ a - RAM_BASE \in 0 .. RAM_BYTES - 1
         /\ ram_widx0(a) = (a - RAM_BASE) \div 4
         /\ ram_widx0(a) \in 0 .. NWORDS - 1
<1>1. a - RAM_BASE \in 0 .. RAM_BYTES - 1
  BY MapFacts DEF BusAddr, in_ram_range
<1>2. ram_addr(a) = a - RAM_BASE
  BY <1>1, MapFacts DEF ram_addr
<1>3. (a - RAM_BASE) \div 4 \in 0 .. NWORDS - 1
  BY <1>1, MapFacts
<1>. QED  BY <1>1, <1>2, <1>3 DEF ram_widx0

\* Bytes of one access lie in one region.
LEMMA SameRegion ==
  ASSUME NEW a \in BusAddr, NEW n \in {1, 2, 4}, NEW fm \in BOOLEAN,
         InContract(a, n, fm), NEW k \in 0 .. n - 1
  PROVE  /\ a + k \in BusAddr
         /\ in_rom(a) => in_rom(a + k)
         /\ ~in_rom(a) /\ in_ram(a, fm) => in_ram(a + k, fm)
<1>1. a + k \in BusAddr /\ Region(a + k, fm) = Region(a, fm)
  BY DEF InContract
<1>2. in_rom(a) => in_rom(a + k)
  BY <1>1, MapFacts DEF Region, in_rom, BusAddr
<1>3. ASSUME ~in_rom(a), in_ram(a, fm)
      PROVE  in_ram(a + k, fm)
  <2>1. Region(a, fm) = "ram"
    BY <1>3, MapFacts
       DEF BusAddr, Region, in_rom, in_ram, in_ram_range, in_ext_flash, in_load_range
  <2>. QED
    BY <1>1, <2>1, MapFacts
       DEF BusAddr, Region, in_rom, in_ram, in_ram_range, in_ext_flash, in_load_range
<1>. QED  BY <1>1, <1>2, <1>3

\* The bytes of the ROM from address a on.
LEMMA RomBytes ==
  ASSUME NEW image, NEW a \in BusAddr, NEW k \in 0 .. 3, in_rom(a + k)
  PROVE  Lane(rom_word(image, a), k) = Lane(image[(a + k) \div 4], (a + k) % 4)
<1>1. a + k < 252
  BY MapFacts DEF in_rom, BusAddr
<1>2. (a % 4) + k >= 4 => ((a \div 4) + 1) % 64 = (a + k) \div 4
  <2>1. (a % 4) + k >= 4 => (a + k) \div 4 = (a \div 4) + 1
    BY WordAndOffset DEF BusAddr
  <2>2. (a + k) \div 4 \in 0 .. 62
    BY <1>1 DEF BusAddr
  <2>. QED  BY <2>1, <2>2
<1>3. (a % 4) + k < 4 => (a + k) \div 4 = a \div 4 /\ (a + k) % 4 = (a % 4) + k
  BY WordAndOffset DEF BusAddr
<1>4. (a % 4) + k >= 4 => (a + k) % 4 = (a % 4) + k - 4
  BY WordAndOffset DEF BusAddr
<1>5. a % 4 \in 0 .. 3
  BY DEF BusAddr
<1>6. Lane(rom_word(image, a), k) =
        IF (a % 4) + k < 4 THEN Lane(image[a \div 4], (a % 4) + k)
        ELSE Lane(image[((a \div 4) + 1) % 64], (a % 4) + k - 4)
  BY <1>5, PairLane DEF rom_word
<1>7. CASE (a % 4) + k < 4
  BY <1>7, <1>3, <1>6
<1>8. CASE ~((a % 4) + k < 4)
  BY <1>8, <1>5, <1>2, <1>4, <1>6
<1>. QED  BY <1>7, <1>8

\* The bytes of the RAM from address a on: a word that is not there is never
\* looked at.
LEMMA RamLoadBytes ==
  ASSUME NEW words, NEW u, NEW a \in BusAddr, NEW k \in 0 .. 3,
         in_ram_range(a), in_ram_range(a + k), a + k \in BusAddr
  PROVE  Lane(ram_word(words, a, u), k) = RamAsBytes(words)[a + k]
<1> DEFINE r == a - RAM_BASE
<1>1. /\ ram_addr(a) = r /\ r \in 0 .. RAM_BYTES - 1
      /\ ram_widx0(a) = r \div 4 /\ ram_widx0(a) \in 0 .. NWORDS - 1
  BY RamIndex
<1>2. r + k \in 0 .. RAM_BYTES - 1 /\ (r + k) \div 4 \in 0 .. NWORDS - 1
  <2>1. (a + k) - RAM_BASE = r + k
    BY MapFacts DEF BusAddr
  <2>. QED  BY <2>1, RamIndex
<1>3. RamAsBytes(words)[a + k] = Lane(words[(r + k) \div 4], (r + k) % 4)
  <2>1. a + k \in RAM_BASE .. RAM_BASE + RAM_BYTES - 1
    BY MapFacts DEF in_ram_range, BusAddr
  <2>2. (a + k) - RAM_BASE = r + k
    BY MapFacts DEF BusAddr
  <2>. QED  BY <2>1, <2>2 DEF RamAsBytes
<1>4. r % 4 \in 0 .. 3 /\ r \in Nat
  BY <1>1, MapFacts
<1> HIDE DEF r
<1>5. Lane(ram_word(words, a, u), k) =
        IF (r % 4) + k < 4
          THEN Lane(ReadWordAt(words, ram_widx0(a), u), (r % 4) + k)
          ELSE Lane(ReadWordAt(words, ram_widx1(a), u), (r % 4) + k - 4)
  BY <1>1, <1>4, PairLane DEF ram_word
<1>6. CASE (r % 4) + k < 4
  <2>1. (r + k) \div 4 = r \div 4 /\ (r + k) % 4 = (r % 4) + k
    BY <1>4, <1>6, WordAndOffset
  <2>2. ReadWordAt(words, ram_widx0(a), u) = words[r \div 4]
    BY <1>1, MapFacts DEF ReadWordAt
  <2>. QED  BY <1>3, <1>5, <1>6, <2>1, <2>2
<1>7. CASE ~((r % 4) + k < 4)
  <2>. (r % 4) + k >= 4
    BY <1>4, <1>7
  <2>1. (r + k) \div 4 = (r \div 4) + 1 /\ (r + k) % 4 = (r % 4) + k - 4
    BY <1>4, WordAndOffset
  <2>2. ram_widx1(a) = (r + k) \div 4
    BY <1>1, <1>2, <2>1, MapFacts DEF ram_widx1
  <2>3. ReadWordAt(words, ram_widx1(a), u) = words[(r + k) \div 4]
    BY <1>2, <2>2, MapFacts DEF ReadWordAt
  <2>. QED  BY <1>3, <1>5, <1>7, <2>1, <2>3
<1>. QED  BY <1>6, <1>7

-----------------------------------------------------------------------------
\* Stores.

\* Putting byte b into lane k changes that lane only.
LEMMA PutLaneLanes ==
  ASSUME NEW w \in Word, NEW b \in Byte, NEW k \in 0 .. 3, NEW j \in 0 .. 3
  PROVE  /\ PutLane(w, k, b) \in Word
         /\ Lane(PutLane(w, k, b), j) = IF j = k THEN b ELSE Lane(w, j)
<1>1. PutLane(w, k, b) \in Word
  BY DEF PutLane, Word, Byte, Bits, BIT
<1>2. \A i \in 0 .. 7 : 8 * j + i \in 0 .. 31 /\ (8 * j + i) \div 8 = j
                        /\ (8 * j + i) % 8 = i
  OBVIOUS
<1>3. Lane(PutLane(w, k, b), j)
        = [i \in 0 .. 7 |-> IF j = k THEN b[i] ELSE w[8 * j + i]]
  BY <1>2 DEF PutLane, Lane
<1>4. b = [i \in 0 .. 7 |-> b[i]]
  BY DEF Byte, Bits
<1>. QED  BY <1>1, <1>3, <1>4 DEF Lane

\* The same, quantified, and for the lanes of a word stored.
LEMMA PutLaneAll ==
  \A w \in Word, wd \in Word, l \in 0 .. 3, k \in 0 .. 3, j \in 0 .. 3 :
    /\ PutLane(w, k, Lane(wd, l)) \in Word
    /\ Lane(PutLane(w, k, Lane(wd, l)), j) = IF j = k THEN Lane(wd, l) ELSE Lane(w, j)
<1> SUFFICES ASSUME NEW w \in Word, NEW wd \in Word,
                    NEW l \in 0 .. 3, NEW k \in 0 .. 3, NEW j \in 0 .. 3
             PROVE  /\ PutLane(w, k, Lane(wd, l)) \in Word
                    /\ Lane(PutLane(w, k, Lane(wd, l)), j)
                         = IF j = k THEN Lane(wd, l) ELSE Lane(w, j)
  OBVIOUS
<1>1. Lane(wd, l) \in Byte
  BY LaneType
<1>. QED  BY <1>1, PutLaneLanes

\* The bytes of the RAM are determined by its words.
LEMMA ByteOfWord ==
  ASSUME NEW words, NEW b \in RAM_BASE .. RAM_BASE + RAM_BYTES - 1
  PROVE  /\ RamAsBytes(words)[b] = Lane(words[(b - RAM_BASE) \div 4], (b - RAM_BASE) % 4)
         /\ (b - RAM_BASE) \div 4 \in 0 .. NWORDS - 1
         /\ (b - RAM_BASE) % 4 \in 0 .. 3
         /\ b - RAM_BASE \in Nat
  BY MapFacts DEF RamAsBytes

\* What one byte of the RAM holds after a store inside the RAM.
LEMMA StoreLane ==
  ASSUME NEW words \in RamWords, NEW a \in BusAddr, NEW size \in Size,
         NEW wd \in Word, in_ram_range(a),
         size = 1 => in_ram_range(a + 1), size = 2 => a % 4 = 0,
         NEW b \in RAM_BASE .. RAM_BASE + RAM_BYTES - 1
  PROVE  RamAsBytes(WriteRam(words, a, size, wd))[b]
           = IF b - a \in 0 .. Bytes(size) - 1 THEN Lane(wd, b - a)
             ELSE RamAsBytes(words)[b]
<1> DEFINE r   == a - RAM_BASE
           s   == b - RAM_BASE
           w0  == r \div 4
           off == r % 4
           q   == s \div 4
           t   == s % 4
           new == WriteRam(words, a, size, wd)
<1>1. /\ ram_addr(a) = r /\ r \in 0 .. RAM_BYTES - 1
      /\ ram_widx0(a) = w0 /\ w0 \in 0 .. NWORDS - 1
  BY RamIndex
<1>2. off \in 0 .. 3
  BY <1>1, MapFacts
<1>2a. r = 4 * w0 + off
  <2>1. r \in Nat
    BY <1>1, MapFacts
  <2> HIDE DEF r
  <2>. QED  BY <2>1
<1>3. q \in 0 .. NWORDS - 1 /\ t \in 0 .. 3 /\ s \in Nat
  BY ByteOfWord
<1>4. s = 4 * q + t
  BY <1>3
<1>5. /\ RamAsBytes(new)[b] = Lane(new[q], t)
      /\ RamAsBytes(words)[b] = Lane(words[q], t)
  BY ByteOfWord
<1>6. b - a = s - r
  BY MapFacts DEF BusAddr
<1>7. /\ words[w0] \in Word /\ words[q] \in Word
      /\ Lane(wd, 0) \in Byte /\ Lane(wd, 1) \in Byte
  BY <1>1, <1>3, LaneType DEF RamWords
<1>8. a % 4 = 0 => off = 0
  BY MapFacts DEF BusAddr
<1>9. size = 1 /\ off = 3 => /\ ram_widx1(a) = w0 + 1
                             /\ w0 + 1 \in 0 .. NWORDS - 1
  BY <1>1, <1>2, MapFacts DEF ram_widx1, in_ram_range, BusAddr
<1>10. new = IF size = 0 THEN [words EXCEPT ![w0] = PutLane(@, off, Lane(wd, 0))]
             ELSE IF size = 1 /\ off = 3
               THEN [words EXCEPT ![w0] = PutLane(@, 3, Lane(wd, 0)),
                                  ![ram_widx1(a)] = PutLane(@, 0, Lane(wd, 1))]
             ELSE IF size = 1
               THEN [words EXCEPT ![w0] = PutLane(PutLane(@, off, Lane(wd, 0)),
                                                  off + 1, Lane(wd, 1))]
             ELSE [words EXCEPT ![w0] = wd]
  BY <1>1 DEF WriteRam
<1> HIDE DEF r, s, w0, off, q, t, new
<1>11. CASE size = 0
  <2>1. new[q] = IF q = w0 THEN PutLane(words[w0], off, Lane(wd, 0))
                        ELSE words[q]
    BY <1>1, <1>3, <1>10, <1>11 DEF RamWords
  <2>2. Lane(new[q], t)
          = IF q = w0 /\ t = off THEN Lane(wd, 0)
            ELSE Lane(words[q], t)
    <3>1. Lane(PutLane(words[w0], off, Lane(wd, 0)), t)
            = IF t = off THEN Lane(wd, 0) ELSE Lane(words[w0], t)
      BY <1>2, <1>3, <1>7, PutLaneAll
    <3>. QED  BY <2>1, <3>1
  <2>3. b - a \in 0 .. Bytes(size) - 1 <=> q = w0 /\ t = off
    BY <1>1, <1>2, <1>2a, <1>3, <1>4, <1>6, <1>11 DEF Bytes
  <2>4. q = w0 /\ t = off => b - a = 0
    BY <1>1, <1>2, <1>2a, <1>3, <1>4, <1>6
  <2>. QED  BY <1>5, <2>2, <2>3, <2>4 DEF new
<1>12. CASE size = 1 /\ off = 3
  <2>1. new[q] = IF q = w0 THEN PutLane(words[w0], 3, Lane(wd, 0))
                        ELSE IF q = w0 + 1
                          THEN PutLane(words[q], 0, Lane(wd, 1))
                        ELSE words[q]
    BY <1>1, <1>3, <1>9, <1>10, <1>12 DEF RamWords
  <2>2. Lane(new[q], t)
          = IF q = w0 /\ t = 3 THEN Lane(wd, 0)
            ELSE IF q = w0 + 1 /\ t = 0 THEN Lane(wd, 1)
            ELSE Lane(words[q], t)
    <3>1. Lane(PutLane(words[w0], 3, Lane(wd, 0)), t)
            = IF t = 3 THEN Lane(wd, 0) ELSE Lane(words[w0], t)
      BY <1>3, <1>7, PutLaneAll
    <3>2. Lane(PutLane(words[q], 0, Lane(wd, 1)), t)
            = IF t = 0 THEN Lane(wd, 1) ELSE Lane(words[q], t)
      BY <1>3, <1>7, PutLaneAll
    <3>3. w0 # w0 + 1
      BY <1>1
    <3>. QED  BY <2>1, <3>1, <3>2, <3>3
  <2>3. /\ b - a = 0 <=> q = w0 /\ t = 3
        /\ b - a = 1 <=> q = w0 + 1 /\ t = 0
    BY <1>1, <1>2, <1>2a, <1>3, <1>4, <1>6, <1>12
  <2>4. b - a \in 0 .. Bytes(size) - 1 <=> b - a = 0 \/ b - a = 1
    BY <1>1, <1>3, <1>6, <1>12 DEF Bytes
  <2>. QED  BY <1>5, <2>2, <2>3, <2>4 DEF new
<1>13. CASE size = 1 /\ off # 3
  <2>0. off + 1 \in 0 .. 3 /\ off \in 0 .. 3
    BY <1>2, <1>13
  <2>1. new[q] = IF q = w0
                          THEN PutLane(PutLane(words[w0], off, Lane(wd, 0)),
                                       off + 1, Lane(wd, 1))
                        ELSE words[q]
    BY <1>1, <1>3, <1>10, <1>13 DEF RamWords
  <2>2. Lane(PutLane(PutLane(words[w0], off, Lane(wd, 0)), off + 1, Lane(wd, 1)), t)
          = IF t = off + 1 THEN Lane(wd, 1)
            ELSE IF t = off THEN Lane(wd, 0)
            ELSE Lane(words[w0], t)
    <3> DEFINE first == PutLane(words[w0], off, Lane(wd, 0))
    <3>1. /\ first \in Word
          /\ Lane(first, t) = IF t = off THEN Lane(wd, 0)
                                   ELSE Lane(words[w0], t)
      BY <2>0, <1>3, <1>7, PutLaneAll
    <3> HIDE DEF first
    <3>2. Lane(PutLane(first, off + 1, Lane(wd, 1)), t)
            = IF t = off + 1 THEN Lane(wd, 1) ELSE Lane(first, t)
      BY <2>0, <1>3, <1>7, <3>1, PutLaneAll
    <3>. QED  BY <3>1, <3>2 DEF first
  <2>3. Lane(new[q], t)
          = IF q = w0 /\ t = off + 1 THEN Lane(wd, 1)
            ELSE IF q = w0 /\ t = off THEN Lane(wd, 0)
            ELSE Lane(words[q], t)
    BY <2>1, <2>2
  <2>4. /\ b - a = 0 <=> q = w0 /\ t = off
        /\ b - a = 1 <=> q = w0 /\ t = off + 1
    BY <1>1, <1>2, <1>2a, <1>3, <1>4, <1>6, <2>0, <1>2a
  <2>5. b - a \in 0 .. Bytes(size) - 1 <=> b - a = 0 \/ b - a = 1
    BY <1>1, <1>3, <1>6, <1>13 DEF Bytes
  <2>. QED  BY <1>5, <2>3, <2>4, <2>5 DEF new
<1>14. CASE size = 2
  <2>1. off = 0 /\ r = 4 * w0
    BY <1>1, <1>2, <1>2a, <1>8, <1>14
  <2>2. new[q] = IF q = w0 THEN wd ELSE words[q]
    BY <1>1, <1>3, <1>10, <1>14 DEF RamWords
  <2>3. b - a \in 0 .. Bytes(size) - 1 <=> q = w0
    BY <1>1, <1>3, <1>4, <1>6, <1>14, <2>1 DEF Bytes
  <2>4. q = w0 => b - a = t
    BY <1>1, <1>3, <1>4, <1>6, <2>1
  <2>. QED  BY <1>5, <2>2, <2>3, <2>4 DEF new
<1>. QED  BY <1>11, <1>12, <1>13, <1>14 DEF Size

\* A store keeps every word a word.
LEMMA WriteRamType ==
  ASSUME NEW words \in RamWords, NEW a \in BusAddr, NEW size \in Size,
         NEW wd \in Word, in_ram_range(a)
  PROVE  WriteRam(words, a, size, wd) \in RamWords
<1>1. /\ ram_widx0(a) \in 0 .. NWORDS - 1
      /\ ram_addr(a) % 4 \in 0 .. 3
      /\ ram_widx1(a) \in Nat
  BY RamIndex, MapFacts DEF ram_widx1
<1>2. \A w \in Word, k \in 0 .. 3 : /\ PutLane(w, k, Lane(wd, 0)) \in Word
                                     /\ PutLane(w, k, Lane(wd, 1)) \in Word
  BY PutLaneAll
<1>3. \A i \in 0 .. NWORDS - 1 : words[i] \in Word
  BY DEF RamWords
<1>4. ASSUME NEW i, NEW w \in Word
      PROVE  [words EXCEPT ![i] = w] \in RamWords
  BY DEF RamWords
<1> DEFINE w0   == ram_widx0(a)
           w1   == ram_widx1(a)
           off  == ram_addr(a) % 4
           one  == PutLane(words[w0], off, Lane(wd, 0))
           next == [words EXCEPT ![w0] = PutLane(@, 3, Lane(wd, 0))]
<1>5. one \in Word
  BY <1>1, <1>2, <1>3
<1>6. off # 3 => PutLane(one, off + 1, Lane(wd, 1)) \in Word
  <2> HIDE DEF one
  <2>. QED  BY <1>1, <1>2, <1>5
<1>7. next \in RamWords
  BY <1>1, <1>2, <1>3, <1>4
<1>8. [next EXCEPT ![w1] = PutLane(words[w1], 0, Lane(wd, 1))] \in RamWords
  <2> HIDE DEF next, w1
  <2>1. CASE w1 \in 0 .. NWORDS - 1
    <3>1. PutLane(words[w1], 0, Lane(wd, 1)) \in Word
      BY <2>1, <1>2, <1>3
    <3>. QED  BY <3>1, <1>7 DEF RamWords
  <2>2. CASE w1 \notin 0 .. NWORDS - 1
    BY <2>2, <1>7 DEF RamWords
  <2>. QED  BY <2>1, <2>2
<1>9. CASE size = 0
  BY <1>9, <1>4, <1>5 DEF WriteRam
<1>10. CASE size = 1 /\ off = 3
  <2>1. w0 # w1
    BY <1>1, RamIndex, MapFacts DEF ram_widx0, ram_widx1
  <2>2. next[w1] = words[w1]
    <3> HIDE DEF w0, w1
    <3>. QED  BY <2>1 DEF RamWords
  <2>3. WriteRam(words, a, size, wd)
          = [next EXCEPT ![w1] = PutLane(words[w1], 0, Lane(wd, 1))]
    BY <1>10, <2>1, <2>2 DEF WriteRam
  <2>. QED  BY <1>8, <2>3
<1>11. CASE size = 1 /\ off # 3
  <2>1. [words EXCEPT ![w0] = PutLane(one, off + 1, Lane(wd, 1))] \in RamWords
    BY <1>11, <1>4, <1>6
  <2>2. WriteRam(words, a, size, wd)
          = [words EXCEPT ![w0] = PutLane(one, off + 1, Lane(wd, 1))]
    BY <1>11 DEF WriteRam
  <2>. QED  BY <2>1, <2>2
<1>12. CASE size = 2
  <2>1. [words EXCEPT ![w0] = wd] \in RamWords
    BY <1>4
  <2>2. WriteRam(words, a, size, wd) = [words EXCEPT ![w0] = wd]
    BY <1>12 DEF WriteRam
  <2>. QED  BY <2>1, <2>2
<1>. QED  BY <1>9, <1>10, <1>11, <1>12 DEF Size

\* A store inside the RAM changes the bytes it names and no other.
LEMMA RamStore ==
  ASSUME NEW words \in RamWords, NEW a \in BusAddr, NEW size \in Size,
         NEW wd \in Word, NEW fm \in BOOLEAN,
         in_ram(a, fm), InContract(a, Bytes(size), fm)
  PROVE  RamAsBytes(WriteRam(words, a, size, wd))
           = StoreRam(RamAsBytes(words), fm, a, Bytes(size), wd)
<1> DEFINE new == WriteRam(words, a, size, wd)
           D   == RAM_BASE .. RAM_BASE + RAM_BYTES - 1
<1>1. Bytes(size) \in {1, 2, 4}
  BY DEF Size, Bytes
<1>2. in_ram_range(a) /\ ~in_rom(a)
  BY MapFacts DEF in_ram, in_ram_range, in_rom, BusAddr
<1>3. size = 2 => a % 4 = 0
  BY DEF InContract, Bytes
<1>4. size = 1 => in_ram_range(a + 1)
  <2> SUFFICES ASSUME size = 1
               PROVE  in_ram_range(a + 1)
    OBVIOUS
  <2>1. Bytes(size) = 2 /\ 1 \in 0 .. Bytes(size) - 1
    BY DEF Bytes
  <2>2. in_ram(a + 1, fm)
    BY <1>1, <1>2, <2>1, SameRegion
  <2>. QED  BY <2>2 DEF in_ram
<1>5. Region(a, fm) = "ram"
  BY <1>2 DEF Region
<1>6. StoreRam(RamAsBytes(words), fm, a, Bytes(size), wd)
        = [b \in D |-> IF b - a \in 0 .. Bytes(size) - 1 THEN Lane(wd, b - a)
                       ELSE RamAsBytes(words)[b]]
  <2>1. DOMAIN RamAsBytes(words) = D
    BY DEF RamAsBytes
  <2>. QED  BY <1>5, <2>1 DEF StoreRam
<1>7. \A b \in D : RamAsBytes(new)[b]
                     = IF b - a \in 0 .. Bytes(size) - 1 THEN Lane(wd, b - a)
                       ELSE RamAsBytes(words)[b]
  BY <1>1, <1>2, <1>3, <1>4, StoreLane
<1> HIDE DEF new
<1>8. RamAsBytes(new) = [b \in D |-> RamAsBytes(new)[b]]
  BY DEF RamAsBytes
<1>. QED  BY <1>6, <1>7, <1>8 DEF new

\* The RAM as bytes is an array of bytes.
LEMMA RamType ==
  ASSUME NEW words \in RamWords
  PROVE  RamAsBytes(words) \in RamBytes
<1> SUFFICES ASSUME NEW b \in RAM_BASE .. RAM_BASE + RAM_BYTES - 1
             PROVE  Lane(words[(b - RAM_BASE) \div 4], (b - RAM_BASE) % 4) \in Byte
  BY DEF RamAsBytes, RamBytes
<1>1. (b - RAM_BASE) \div 4 \in 0 .. NWORDS - 1 /\ (b - RAM_BASE) % 4 \in 0 .. 3
  BY ByteOfWord
<1>2. words[(b - RAM_BASE) \div 4] \in Word
  BY <1>1 DEF RamWords
<1> QED  BY <1>1, <1>2, LaneType

-----------------------------------------------------------------------------
\* The adder of the serial devices on the addresses of the chip.

BitNo(x, i) == (x \div 2^i) % 2

Ones(x, i) == \A j \in 0 .. i - 1 : BitNo(x, j) = 1

LowPowers  == {1, 2, 4, 8, 16, 32, 64, 128, 256, 512, 1024, 2048, 4096, 8192, 16384}
HighPowers == {32768, 65536, 131072, 262144, 524288, 1048576, 2097152, 4194304, 8388608}

LEMMA PowersOfTwo ==
  /\ 2^0 = 1 /\ 2^1 = 2 /\ 2^2 = 4 /\ 2^3 = 8 /\ 2^4 = 16 /\ 2^5 = 32 /\ 2^6 = 64
  /\ 2^7 = 128 /\ 2^8 = 256 /\ 2^9 = 512 /\ 2^10 = 1024 /\ 2^11 = 2048 /\ 2^12 = 4096
  /\ 2^13 = 8192 /\ 2^14 = 16384 /\ 2^15 = 32768 /\ 2^16 = 65536 /\ 2^17 = 131072
  /\ 2^18 = 262144 /\ 2^19 = 524288 /\ 2^20 = 1048576 /\ 2^21 = 2097152
  /\ 2^22 = 4194304 /\ 2^23 = 8388608
OBVIOUS

\* A sum of one carries into the bit of weight p from below when every lower
\* bit is one.
LEMMA BitOfSuccessor ==
  ASSUME NEW x \in Nat, NEW p \in LowPowers
  PROVE  /\ x % (2 * p) = 2 * p - 1 <=> x % p = p - 1 /\ (x \div p) % 2 = 1
         /\ ((x + 1) \div p) % 2 =
              IF x % p = p - 1 THEN 1 - ((x \div p) % 2) ELSE (x \div p) % 2
<1>1. CASE p \in {1, 2, 4}
  BY <1>1
<1>2. CASE p \in {8, 16, 32}
  BY <1>2
<1>3. CASE p \in {64, 128, 256}
  BY <1>3
<1>4. CASE p \in {512, 1024, 2048}
  BY <1>4
<1>5. CASE p \in {4096, 8192, 16384}
  BY <1>5
<1> QED
  BY <1>1, <1>2, <1>3, <1>4, <1>5 DEF LowPowers

LEMMA Powers ==
  /\ \A i \in 0 .. 14 : 2^i \in LowPowers /\ 2^(i + 1) = 2 * 2^i
  /\ \A i \in 15 .. 23 : 2^i \in HighPowers
<1>1. ASSUME NEW i \in 0 .. 14 PROVE 2^i \in LowPowers /\ 2^(i + 1) = 2 * 2^i
  <2>1. \A k \in 0 .. 14 : i = k => 2^i = 2^k /\ 2^(i + 1) = 2^(k + 1)
    OBVIOUS
  <2>2. \/ i = 0 \/ i = 1 \/ i = 2 \/ i = 3 \/ i = 4 \/ i = 5 \/ i = 6 \/ i = 7
        \/ i = 8 \/ i = 9 \/ i = 10 \/ i = 11 \/ i = 12 \/ i = 13 \/ i = 14
    OBVIOUS
  <2> QED  BY <2>1, <2>2, PowersOfTwo DEF LowPowers
<1>2. ASSUME NEW i \in 15 .. 23 PROVE 2^i \in HighPowers
  <2>1. \A k \in 15 .. 23 : i = k => 2^i = 2^k
    OBVIOUS
  <2>2. \/ i = 15 \/ i = 16 \/ i = 17 \/ i = 18 \/ i = 19
        \/ i = 20 \/ i = 21 \/ i = 22 \/ i = 23
    OBVIOUS
  <2> QED  BY <2>1, <2>2, PowersOfTwo DEF HighPowers
<1> QED  BY <1>1, <1>2

LEMMA NextOne ==
  ASSUME NEW x \in Nat, NEW i \in 0 .. 14, Ones(x, i) <=> x % 2^i = 2^i - 1
  PROVE  Ones(x, i + 1) <=> x % 2^(i + 1) = 2^(i + 1) - 1
<1>1. Ones(x, i + 1) <=> Ones(x, i) /\ BitNo(x, i) = 1
  <2>1. \A j : j \in 0 .. (i + 1) - 1 <=> j \in 0 .. i - 1 \/ j = i
    OBVIOUS
  <2> QED
    BY <2>1, Zenon DEF Ones
<1>2. x % (2 * 2^i) = 2 * 2^i - 1 <=> x % 2^i = 2^i - 1 /\ (x \div 2^i) % 2 = 1
  <2>1. 2^i \in LowPowers
    BY Powers
  <2> DEFINE p == 2^i
  <2>2. x % (2 * p) = 2 * p - 1 <=> x % p = p - 1 /\ (x \div p) % 2 = 1
    <3> HIDE DEF p
    <3>1. p \in LowPowers
      BY <2>1, Zenon DEF p
    <3> QED  BY <3>1, BitOfSuccessor
  <2> QED  BY <2>2, Zenon
<1>3. 2^(i + 1) = 2 * 2^i
  BY Powers
<1> QED
  BY <1>1, <1>2, <1>3, Zenon DEF BitNo

LEMMA OnesBelow ==
  ASSUME NEW x \in Nat, NEW i \in 0 .. 15
  PROVE  Ones(x, i) <=> x % 2^i = 2^i - 1
<1> DEFINE Q(n) == Ones(x, n) <=> x % 2^n = 2^n - 1
<1>0. Q(0)
  BY PowersOfTwo DEF Ones
<1>n. \A n \in 0 .. 14 : Q(n) => Q(n + 1)
  BY NextOne, Zenon
<1> HIDE DEF Q
<1>1. Q(1) /\ Q(2) /\ Q(3) /\ Q(4)
  BY <1>0, <1>n
<1>2. Q(5) /\ Q(6) /\ Q(7) /\ Q(8)
  BY <1>1, <1>n
<1>3. Q(9) /\ Q(10) /\ Q(11) /\ Q(12)
  BY <1>2, <1>n
<1>4. Q(13) /\ Q(14) /\ Q(15)
  BY <1>3, <1>n
<1>5. Q(i)
  <2>1. \/ i = 0 \/ i = 1 \/ i = 2 \/ i = 3 \/ i = 4 \/ i = 5 \/ i = 6 \/ i = 7
        \/ i = 8 \/ i = 9 \/ i = 10 \/ i = 11 \/ i = 12 \/ i = 13 \/ i = 14 \/ i = 15
    OBVIOUS
  <2> QED  BY <1>0, <1>1, <1>2, <1>3, <1>4, <2>1
<1> QED
  BY <1>5 DEF Q

LEMMA BitsOf24 == \A y : ToBits(y, 24) = [i \in 0 .. 23 |-> BitNo(y, i)]
BY DEF ToBits, BitNo

LEMMA LowBits ==
  ASSUME NEW x \in Nat, NEW i \in 0 .. 14
  PROVE  BitNo(x + 1, i) = IF Ones(x, i) THEN 1 - BitNo(x, i) ELSE BitNo(x, i)
<1>1. 2^i \in LowPowers
  BY Powers, Zenon
<1>2. Ones(x, i) <=> x % 2^i = 2^i - 1
  <2>1. i \in 0 .. 15
    OBVIOUS
  <2> QED  BY <2>1, OnesBelow, Zenon
<1> DEFINE p == 2^i
<1>3. ((x + 1) \div p) % 2 =
        IF x % p = p - 1 THEN 1 - ((x \div p) % 2) ELSE (x \div p) % 2
  <2> HIDE DEF p
  <2>1. p \in LowPowers
    BY <1>1, Zenon DEF p
  <2> QED  BY <2>1, BitOfSuccessor
<1> QED
  BY <1>2, <1>3, Zenon DEF BitNo

Ceiling == 32767

LEMMA HighBits ==
  ASSUME NEW x \in Nat, x < Ceiling, NEW i \in 15 .. 23
  PROVE  BitNo(x + 1, i) = 0 /\ BitNo(x, i) = 0 /\ ~Ones(x, i)
<1>1. 2^i \in HighPowers
  BY Powers, Zenon
<1>2. \A p \in HighPowers : ((x + 1) \div p) % 2 = 0 /\ (x \div p) % 2 = 0
  BY DEF HighPowers, Ceiling
<1>3. BitNo(x + 1, i) = 0 /\ BitNo(x, i) = 0
  BY <1>1, <1>2, Zenon DEF BitNo
<1>4. ~Ones(x, 15)
  <2> DEFINE p == 2^15
  <2>1. Ones(x, 15) <=> x % p = p - 1
    BY OnesBelow
  <2>2. p = 32768
    BY PowersOfTwo
  <2> HIDE DEF p
  <2>3. x % p # p - 1
    BY <2>2 DEF Ceiling
  <2> QED  BY <2>1, <2>3
<1>5. \A j : j \in 0 .. 15 - 1 => j \in 0 .. i - 1
  OBVIOUS
<1> QED
  BY <1>3, <1>4, <1>5, Zenon DEF Ones

\* Counting up as the devices do is addition, on every address mem.v asks for.
LEMMA IncrementToBits ==
  ASSUME NEW x \in Nat, x < Ceiling
  PROVE  Increment(ToBits(x, 24), 24) = ToBits(x + 1, 24)
<1>1. \A i \in 0 .. 23 :
        BitNo(x + 1, i) = IF Ones(x, i) THEN 1 - BitNo(x, i) ELSE BitNo(x, i)
  <2> SUFFICES ASSUME NEW i \in 0 .. 23
               PROVE  BitNo(x + 1, i) = IF Ones(x, i) THEN 1 - BitNo(x, i) ELSE BitNo(x, i)
    OBVIOUS
  <2>1. i \in 0 .. 14 \/ i \in 15 .. 23
    OBVIOUS
  <2> QED  BY <2>1, LowBits, HighBits, Zenon
<1>2. \A i \in 0 .. 23 : ToBits(x, 24)[i] = BitNo(x, i)
  BY BitsOf24, Zenon
<1>3. \A i : i \in 0 .. 24 - 1 <=> i \in 0 .. 23
  OBVIOUS
<1>4. \A i \in 0 .. 23 :
        (\A j \in 0 .. i - 1 : ToBits(x, 24)[j] = 1) <=> Ones(x, i)
  <2> SUFFICES ASSUME NEW i \in 0 .. 23
               PROVE  (\A j \in 0 .. i - 1 : ToBits(x, 24)[j] = 1) <=> Ones(x, i)
    OBVIOUS
  <2>1. \A j \in 0 .. i - 1 : j \in 0 .. 23
    OBVIOUS
  <2>2. \A j \in 0 .. i - 1 : ToBits(x, 24)[j] = BitNo(x, j)
    BY <1>2, <2>1
  <2> QED  BY <2>2 DEF Ones
<1>5. Increment(ToBits(x, 24), 24) =
        [i \in 0 .. 23 |-> IF Ones(x, i) THEN 1 - BitNo(x, i) ELSE BitNo(x, i)]
  BY <1>2, <1>4 DEF Increment
<1>6. [i \in 0 .. 23 |-> IF Ones(x, i) THEN 1 - BitNo(x, i) ELSE BitNo(x, i)]
        = [i \in 0 .. 23 |-> BitNo(x + 1, i)]
  BY <1>1, Zenon
<1> QED
  BY <1>5, <1>6, BitsOf24, Zenon

\* The address k bytes on, as the devices count it.
LEMMA PlusToBits ==
  ASSUME NEW x \in Nat, x + 3 < Ceiling, NEW k \in 0 .. 3
  PROVE  Plus(ToBits(x, 24), 24, k) = ToBits(x + k, 24)
<1>0. /\ x + 1 \in Nat /\ x + 1 < Ceiling /\ (x + 1) + 1 = x + 2
      /\ x + 2 \in Nat /\ x + 2 < Ceiling /\ (x + 2) + 1 = x + 3 /\ x < Ceiling
  BY DEF Ceiling
<1>1. Increment(ToBits(x, 24), 24) = ToBits(x + 1, 24)
  BY <1>0, IncrementToBits, Zenon
<1>2. Increment(ToBits(x + 1, 24), 24) = ToBits(x + 2, 24)
  <2>1. Increment(ToBits(x + 1, 24), 24) = ToBits((x + 1) + 1, 24)
    BY <1>0, IncrementToBits, Zenon
  <2> QED  BY <1>0, <2>1, Zenon
<1>3. Increment(ToBits(x + 2, 24), 24) = ToBits(x + 3, 24)
  <2>1. Increment(ToBits(x + 2, 24), 24) = ToBits((x + 2) + 1, 24)
    BY <1>0, IncrementToBits, Zenon
  <2> QED  BY <1>0, <2>1, Zenon
<1>4. x + 0 = x /\ (k = 0 \/ k = 1 \/ k = 2 \/ k = 3)
  OBVIOUS
<1> QED
  BY <1>1, <1>2, <1>3, <1>4 DEF Plus

-----------------------------------------------------------------------------
\* Addresses, regions and the devices.

\* Every address is in one region.
LEMMA RegionFacts ==
  ASSUME NEW a \in BusAddr, NEW fm \in BOOLEAN
  PROVE  /\ Region(a, fm) = "rom" <=> in_rom(a)
         /\ Region(a, fm) = "ram" <=> in_ram(a, fm)
         /\ Region(a, fm) = "flash" <=> in_ext_flash(a, fm)
         /\ Region(a, fm) = "psram" <=> in_ext_psram(a)
         /\ Region(a, fm) = "register" <=> ~in_rom(a) /\ ~in_ram(a, fm) /\ ~in_ext(a, fm)
         /\ in_rom(a) => ~in_ram(a, fm) /\ ~in_ext(a, fm)
         /\ in_ram(a, fm) => ~in_ext(a, fm)
         /\ in_ext_flash(a, fm) => ~in_ext_psram(a)
         /\ a >= 240 => Region(a, fm) = "register"
<1>1. /\ ROM_BYTES <= RAM_BASE /\ RAM_BASE <= LOAD_BASE
      /\ RAM_BASE + RAM_BYTES <= EXT_PSRAM_BASE
      /\ EXT_PSRAM_BASE + EXT_PSRAM_BYTES <= 240
      /\ ROM_BYTES \in Int /\ RAM_BASE \in Int /\ RAM_BYTES \in Int /\ LOAD_BASE \in Int
      /\ EXT_PSRAM_BASE \in Int /\ EXT_PSRAM_BYTES \in Int
      /\ ROM_BYTES <= 240 /\ RAM_BYTES >= 0 /\ RAM_BASE + RAM_BYTES <= 240
  BY MapFacts, MapAssumption
<1>2. a \in Int
  BY DEF BusAddr
<1>3. /\ in_rom(a) => ~in_ram_range(a) /\ ~in_load_range(a) /\ ~in_ext_psram(a)
      /\ in_ext_psram(a) => ~in_ram_range(a) /\ ~in_load_range(a)
      /\ in_load_range(a) => in_ram_range(a)
      /\ a >= 240 => ~in_rom(a) /\ ~in_ram_range(a) /\ ~in_load_range(a) /\ ~in_ext_psram(a)
  BY <1>1, <1>2 DEF in_rom, in_ram_range, in_load_range, in_ext_psram
<1>4. /\ in_rom(a) => ~in_ram(a, fm) /\ ~in_ext(a, fm)
      /\ in_ram(a, fm) => ~in_rom(a) /\ ~in_ext(a, fm)
      /\ in_ext_flash(a, fm) => ~in_rom(a) /\ ~in_ram(a, fm) /\ ~in_ext_psram(a)
      /\ in_ext_psram(a) => ~in_rom(a) /\ ~in_ram(a, fm) /\ ~in_ext_flash(a, fm)
      /\ a >= 240 => ~in_rom(a) /\ ~in_ram(a, fm) /\ ~in_ext(a, fm)
  BY <1>3 DEF in_ram, in_ext, in_ext_flash
<1>5. Region(a, fm) = IF in_rom(a) THEN "rom" ELSE IF in_ram(a, fm) THEN "ram"
        ELSE IF in_ext_flash(a, fm) THEN "flash" ELSE IF in_ext_psram(a) THEN "psram"
        ELSE "register"
  BY DEF Region
<1>6. in_ext(a, fm) <=> in_ext_flash(a, fm) \/ in_ext_psram(a)
  BY DEF in_ext
<1> QED
  BY <1>4, <1>5, <1>6

\* The address on the serial bus, k bytes on, is that of the byte k places on.
LEMMA DeviceAddress ==
  ASSUME NEW a \in BusAddr, NEW fm \in BOOLEAN, NEW page \in BusAddr, NEW k \in 0 .. 3
  PROVE  /\ in_ext_flash(a, fm) =>
              Plus(ext_addr(a, fm, page), 24, k)
                = ToBits(page * WINDOW_BYTES + ((a + k) - LOAD_BASE), 24)
         /\ in_ext_psram(a) /\ ~in_ext_flash(a, fm) =>
              Plus(ext_addr(a, fm, page), 24, k) = ToBits(a - EXT_PSRAM_BASE + k, 24)
<1>1. CASE in_ext_flash(a, fm)
  <2> DEFINE x == page * WINDOW_BYTES + (a - LOAD_BASE)
  <2>1. ext_addr(a, fm, page) = ToBits(x, 24)
    BY <1>1 DEF ext_addr
  <2>2. WINDOW_BYTES \in 0 .. 64 /\ a - LOAD_BASE \in 0 .. 63 /\ LOAD_BASE \in Int
        /\ page \in 0 .. 255 /\ a \in Int
    BY <1>1, MapFacts, MapAssumption
       DEF WINDOW_BYTES, in_ext_flash, in_load_range, BusAddr
  <2>3. page * WINDOW_BYTES \in Nat /\ page * WINDOW_BYTES <= 255 * 64
    <3>1. \A p \in 0 .. 255, w \in 0 .. 64 : p * w \in Nat /\ p * w <= 255 * 64
      OBVIOUS
    <3> QED  BY <2>2, <3>1
  <2>4. x \in Nat /\ x + 3 < Ceiling
        /\ x + k = page * WINDOW_BYTES + ((a + k) - LOAD_BASE)
    BY <2>2, <2>3 DEF Ceiling
  <2> HIDE DEF x
  <2>5. Plus(ToBits(x, 24), 24, k) = ToBits(x + k, 24)
    BY <2>4, PlusToBits
  <2> QED
    BY <1>1, <2>1, <2>4, <2>5, Zenon
<1>2. CASE in_ext_psram(a) /\ ~in_ext_flash(a, fm)
  <2> DEFINE x == a - EXT_PSRAM_BASE
  <2>1. x \in 0 .. 255
    BY <1>2, MapAssumption DEF in_ext_psram, BusAddr
  <2>2. x % 256 = x
    BY <2>1
  <2>3. ext_addr(a, fm, page) = ToBits(x, 24)
    BY <1>2, <2>2 DEF ext_addr
  <2> HIDE DEF x
  <2>4. x \in Nat /\ x + 3 < Ceiling
    BY <2>1 DEF Ceiling
  <2>5. Plus(ToBits(x, 24), 24, k) = ToBits(x + k, 24)
    BY <2>4, PlusToBits
  <2> QED
    BY <1>2, <2>3, <2>5 DEF x
<1> QED
  BY <1>1, <1>2

\* One byte more of a store to the PSRAM.
LEMMA PutNext ==
  ASSUME NEW s \in Store, NEW a, NEW fm, NEW wd, NEW n \in 0 .. 3,
         Region(a, fm) = "psram"
  PROVE  StorePsram(s, fm, a, n + 1, wd)
           = [StorePsram(s, fm, a, n, wd) EXCEPT
                !["psram"][Idx(ToBits((a - EXT_PSRAM_BASE) + n, 24))] = Lane(wd, n)]
<1> DEFINE put(m, k) == [m EXCEPT ![Idx(ToBits(a - EXT_PSRAM_BASE + k, 24))] = Lane(wd, k)]
           one   == put(s["psram"], 0)
           two   == put(one, 1)
           three == put(two, 2)
<1>1. ASSUME NEW m, NEW k
      PROVE  [[s EXCEPT !["psram"] = m] EXCEPT
                !["psram"][Idx(ToBits((a - EXT_PSRAM_BASE) + k, 24))] = Lane(wd, k)]
               = [s EXCEPT !["psram"] = put(m, k)]
  BY DEF Store, Dev
<1>2. CASE n = 0
  <2>1. StorePsram(s, fm, a, 0, wd) = s
    BY DEF StorePsram
  <2>2. StorePsram(s, fm, a, 1, wd) = [s EXCEPT !["psram"] = one]
    BY DEF StorePsram
  <2>3. [s EXCEPT !["psram"][Idx(ToBits((a - EXT_PSRAM_BASE) + 0, 24))] = Lane(wd, 0)]
          = [s EXCEPT !["psram"] = one]
    BY DEF Store, Dev
  <2> QED  BY <1>2, <2>1, <2>2, <2>3
<1>3. CASE n = 1
  <2>1. /\ StorePsram(s, fm, a, 1, wd) = [s EXCEPT !["psram"] = one]
        /\ StorePsram(s, fm, a, 2, wd) = [s EXCEPT !["psram"] = two]
    BY DEF StorePsram
  <2> QED  BY <1>1, <1>3, <2>1
<1>4. CASE n = 2
  <2>1. /\ StorePsram(s, fm, a, 2, wd) = [s EXCEPT !["psram"] = two]
        /\ StorePsram(s, fm, a, 3, wd) = [s EXCEPT !["psram"] = three]
    BY DEF StorePsram
  <2> QED  BY <1>1, <1>4, <2>1
<1>5. CASE n = 3
  <2>1. /\ StorePsram(s, fm, a, 3, wd) = [s EXCEPT !["psram"] = three]
        /\ StorePsram(s, fm, a, 4, wd) = [s EXCEPT !["psram"] = put(three, 3)]
    BY DEF StorePsram
  <2> QED  BY <1>1, <1>5, <2>1
<1> QED
  BY <1>2, <1>3, <1>4, <1>5

\* Nothing moved, or nothing of the PSRAM: the devices are as they were.
LEMMA PutNone ==
  ASSUME NEW s, NEW a, NEW fm, NEW n, NEW wd, n = 0 \/ Region(a, fm) # "psram"
  PROVE  StorePsram(s, fm, a, n, wd) = s
BY DEF StorePsram

-----------------------------------------------------------------------------
\* Encoders: what the core takes out of a word is what class Asm put in.

\* The bits of a number, by place.
LEMMA BitPlaces ==
  ASSUME NEW x \in Int
  PROVE  /\ Bit(x, 0) = x % 2 /\ Bit(x, 1) = (x \div 2) % 2
         /\ Bit(x, 2) = (x \div 4) % 2 /\ Bit(x, 3) = (x \div 8) % 2
         /\ Bit(x, 4) = (x \div 16) % 2 /\ Bit(x, 5) = (x \div 32) % 2
         /\ Bit(x, 6) = (x \div 64) % 2 /\ Bit(x, 7) = (x \div 128) % 2
         /\ Bit(x, 8) = (x \div 256) % 2 /\ Bit(x, 9) = (x \div 512) % 2
         /\ Bit(x, 10) = (x \div 1024) % 2 /\ Bit(x, 11) = (x \div 2048) % 2
         /\ Bit(x, 12) = (x \div 4096) % 2
BY PowersOfTwo DEF Bit

\* A field of a few bits stands for the number whose bits it has.
LEMMA Field3 ==
  ASSUME NEW x \in 0 .. 7, NEW v, \A i \in 0 .. 2 : v[i] = Bit(x, i)
  PROVE  Val(v, 3) = x
<1>1. v[0] = x % 2 /\ v[1] = (x \div 2) % 2 /\ v[2] = (x \div 4) % 2
  BY PowersOfTwo DEF Bit
<1>2. Val(v, 3) = v[0] + 2 * v[1] + 4 * v[2]
  BY <1>1 DEF Val
<1> QED  BY <1>1, <1>2

LEMMA Field5 ==
  ASSUME NEW x \in 0 .. 31, NEW v, \A i \in 0 .. 4 : v[i] = Bit(x, i)
  PROVE  Val(v, 5) = x
<1>1. /\ v[0] = x % 2 /\ v[1] = (x \div 2) % 2 /\ v[2] = (x \div 4) % 2
      /\ v[3] = (x \div 8) % 2 /\ v[4] = (x \div 16) % 2
  BY PowersOfTwo DEF Bit
<1>2. Val(v, 5) = v[0] + 2 * v[1] + 4 * v[2] + 8 * v[3] + 16 * v[4]
  BY <1>1 DEF Val
<1> QED  BY <1>1, <1>2

LEMMA Field7 ==
  ASSUME NEW x \in 0 .. 127, NEW v, \A i \in 0 .. 6 : v[i] = Bit(x, i)
  PROVE  Val(v, 7) = x
<1>1. /\ v[0] = x % 2 /\ v[1] = (x \div 2) % 2 /\ v[2] = (x \div 4) % 2
      /\ v[3] = (x \div 8) % 2 /\ v[4] = (x \div 16) % 2
      /\ v[5] = (x \div 32) % 2 /\ v[6] = (x \div 64) % 2
  BY PowersOfTwo DEF Bit
<1>2. Val(v, 7) = v[0] + 2 * v[1] + 4 * v[2] + 8 * v[3] + 16 * v[4] + 32 * v[5] + 64 * v[6]
  BY <1>1 DEF Val
<1>3. /\ x \div 128 = 0
      /\ x = 2 * (x \div 2) + (x % 2)
      /\ (x \div 2) = 2 * (x \div 4) + ((x \div 2) % 2)
      /\ (x \div 4) = 2 * (x \div 8) + ((x \div 4) % 2)
      /\ (x \div 8) = 2 * (x \div 16) + ((x \div 8) % 2)
      /\ (x \div 16) = 2 * (x \div 32) + ((x \div 16) % 2)
      /\ (x \div 32) = 2 * (x \div 64) + ((x \div 32) % 2)
      /\ (x \div 64) = 2 * (x \div 128) + ((x \div 64) % 2)
  OBVIOUS
<1> QED  BY <1>1, <1>2, <1>3

LEMMA Field8 ==
  ASSUME NEW x \in 0 .. 255, NEW v, \A i \in 0 .. 7 : v[i] = Bit(x, i)
  PROVE  Val(v, 8) = x
<1>1. /\ v[0] = x % 2 /\ v[1] = (x \div 2) % 2 /\ v[2] = (x \div 4) % 2
      /\ v[3] = (x \div 8) % 2 /\ v[4] = (x \div 16) % 2
      /\ v[5] = (x \div 32) % 2 /\ v[6] = (x \div 64) % 2 /\ v[7] = (x \div 128) % 2
  BY PowersOfTwo DEF Bit
<1>2. Val(v, 8) = v[0] + 2 * v[1] + 4 * v[2] + 8 * v[3] + 16 * v[4] + 32 * v[5]
                    + 64 * v[6] + 128 * v[7]
  BY <1>1 DEF Val
<1>3. /\ x \div 256 = 0
      /\ x = 2 * (x \div 2) + (x % 2)
      /\ (x \div 2) = 2 * (x \div 4) + ((x \div 2) % 2)
      /\ (x \div 4) = 2 * (x \div 8) + ((x \div 4) % 2)
      /\ (x \div 8) = 2 * (x \div 16) + ((x \div 8) % 2)
      /\ (x \div 16) = 2 * (x \div 32) + ((x \div 16) % 2)
      /\ (x \div 32) = 2 * (x \div 64) + ((x \div 32) % 2)
      /\ (x \div 64) = 2 * (x \div 128) + ((x \div 64) % 2)
      /\ (x \div 128) = 2 * (x \div 256) + ((x \div 128) % 2)
  OBVIOUS
<1> QED  BY <1>1, <1>2, <1>3

\* The fields of an instruction, as they were put in.
RFields(w, f7, rs2, rs1, f3, rd, op) ==
  /\ Opcode(w) = op /\ Rd(w) = rd /\ Funct3(w) = f3
  /\ Rs1(w) = rs1 /\ Rs2(w) = rs2
  /\ \A i \in 0 .. 4 : w[7 + i] = Bit(rd, i)
  /\ \A i \in 0 .. 4 : w[20 + i] = Bit(rs2, i)
  /\ \A i \in 0 .. 6 : w[25 + i] = Bit(f7, i)

LEMMA EncRFields ==
  ASSUME NEW f7 \in Int, NEW rs2 \in 0 .. 31, NEW rs1 \in 0 .. 31,
         NEW f3 \in 0 .. 7, NEW rd \in 0 .. 31, NEW op \in 0 .. 127
  PROVE  RFields(EncR(f7, rs2, rs1, f3, rd, op), f7, rs2, rs1, f3, rd, op)
<1> DEFINE w == EncR(f7, rs2, rs1, f3, rd, op)
<1>1. \A i \in 0 .. 6 : w[i] = Bit(op, i)
  BY DEF EncR
<1>2. \A i \in 0 .. 4 : w[7 + i] = Bit(rd, i)
  BY DEF EncR
<1>3. \A i \in 0 .. 2 : w[12 + i] = Bit(f3, i)
  BY DEF EncR
<1>4. \A i \in 0 .. 4 : w[15 + i] = Bit(rs1, i)
  BY DEF EncR
<1>5. \A i \in 0 .. 4 : w[20 + i] = Bit(rs2, i)
  BY DEF EncR
<1>6. \A i \in 0 .. 6 : w[25 + i] = Bit(f7, i)
  BY DEF EncR
<1> HIDE DEF w
<1>7. Opcode(w) = op
  <2>1. \A i \in 0 .. 6 : Slice(w, 6, 0)[i] = Bit(op, i)
    BY <1>1 DEF Slice
  <2> QED  BY <2>1, Field7 DEF Opcode
<1>8. Rd(w) = rd
  <2>1. \A i \in 0 .. 4 : Slice(w, 11, 7)[i] = Bit(rd, i)
    BY <1>2 DEF Slice
  <2> QED  BY <2>1, Field5 DEF Rd
<1>9. Funct3(w) = f3
  <2>1. \A i \in 0 .. 2 : Slice(w, 14, 12)[i] = Bit(f3, i)
    BY <1>3 DEF Slice
  <2> QED  BY <2>1, Field3 DEF Funct3
<1>10. Rs1(w) = rs1
  <2>1. \A i \in 0 .. 4 : Slice(w, 19, 15)[i] = Bit(rs1, i)
    BY <1>4 DEF Slice
  <2> QED  BY <2>1, Field5 DEF Rs1
<1>11. Rs2(w) = rs2
  <2>1. \A i \in 0 .. 4 : Slice(w, 24, 20)[i] = Bit(rs2, i)
    BY <1>5 DEF Slice
  <2> QED  BY <2>1, Field5 DEF Rs2
<1> QED  BY <1>2, <1>5, <1>6, <1>7, <1>8, <1>9, <1>10, <1>11 DEF w, RFields

\* What the core makes of twelve bits of an immediate, whatever the number.
Signed12(imm) == [i \in 0 .. 31 |-> IF i < 11 THEN Bit(imm, i) ELSE Bit(imm, 11)]

\* _i, _s cut a number into its lowest five bits and the seven above them.
LEMMA CutImmediate ==
  ASSUME NEW imm \in Int
  PROVE  /\ imm \div 32 \in Int /\ imm % 32 \in 0 .. 31
         /\ \A i \in 0 .. 4 : Bit(imm % 32, i) = Bit(imm, i)
         /\ \A i \in 0 .. 6 : Bit(imm \div 32, i) = Bit(imm, i + 5)
<1> DEFINE hi == imm \div 32
           lo == imm % 32
<1>1. hi \in Int /\ lo \in 0 .. 31 /\ imm = 32 * hi + lo
  OBVIOUS
<1> HIDE DEF hi, lo
<1>2. /\ lo % 2 = imm % 2 /\ (lo \div 2) % 2 = (imm \div 2) % 2
      /\ (lo \div 4) % 2 = (imm \div 4) % 2 /\ (lo \div 8) % 2 = (imm \div 8) % 2
      /\ (lo \div 16) % 2 = (imm \div 16) % 2
  BY <1>1
<1>3. /\ hi = imm \div 32 /\ hi \div 2 = imm \div 64 /\ hi \div 4 = imm \div 128
      /\ hi \div 8 = imm \div 256 /\ hi \div 16 = imm \div 512
      /\ hi \div 32 = imm \div 1024 /\ hi \div 64 = imm \div 2048
  BY <1>1
<1>6. /\ Bit(imm, 0) = imm % 2 /\ Bit(imm, 1) = (imm \div 2) % 2
      /\ Bit(imm, 2) = (imm \div 4) % 2 /\ Bit(imm, 3) = (imm \div 8) % 2
      /\ Bit(imm, 4) = (imm \div 16) % 2 /\ Bit(imm, 5) = (imm \div 32) % 2
      /\ Bit(imm, 6) = (imm \div 64) % 2 /\ Bit(imm, 7) = (imm \div 128) % 2
      /\ Bit(imm, 8) = (imm \div 256) % 2 /\ Bit(imm, 9) = (imm \div 512) % 2
      /\ Bit(imm, 10) = (imm \div 1024) % 2 /\ Bit(imm, 11) = (imm \div 2048) % 2
  BY PowersOfTwo DEF Bit
<1>4. \A i \in 0 .. 4 : Bit(lo, i) = Bit(imm, i)
  <2>0. /\ Bit(lo, 0) = lo % 2 /\ Bit(lo, 1) = (lo \div 2) % 2
        /\ Bit(lo, 2) = (lo \div 4) % 2 /\ Bit(lo, 3) = (lo \div 8) % 2
        /\ Bit(lo, 4) = (lo \div 16) % 2
    BY <1>1, PowersOfTwo DEF Bit
  <2>1. /\ Bit(lo, 0) = Bit(imm, 0) /\ Bit(lo, 1) = Bit(imm, 1) /\ Bit(lo, 2) = Bit(imm, 2)
        /\ Bit(lo, 3) = Bit(imm, 3) /\ Bit(lo, 4) = Bit(imm, 4)
    BY <1>1, <1>2, <1>6, <2>0
  <2>2. \A i \in 0 .. 4 : i = 0 \/ i = 1 \/ i = 2 \/ i = 3 \/ i = 4
    OBVIOUS
  <2> QED  BY <2>1, <2>2, Zenon
<1>5. \A i \in 0 .. 6 : Bit(hi, i) = Bit(imm, i + 5)
  <2>0. /\ Bit(hi, 0) = hi % 2 /\ Bit(hi, 1) = (hi \div 2) % 2
        /\ Bit(hi, 2) = (hi \div 4) % 2 /\ Bit(hi, 3) = (hi \div 8) % 2
        /\ Bit(hi, 4) = (hi \div 16) % 2 /\ Bit(hi, 5) = (hi \div 32) % 2
        /\ Bit(hi, 6) = (hi \div 64) % 2
    BY <1>1, PowersOfTwo DEF Bit
  <2>1. /\ Bit(hi, 0) = Bit(imm, 5) /\ Bit(hi, 1) = Bit(imm, 6) /\ Bit(hi, 2) = Bit(imm, 7)
        /\ Bit(hi, 3) = Bit(imm, 8) /\ Bit(hi, 4) = Bit(imm, 9) /\ Bit(hi, 5) = Bit(imm, 10)
        /\ Bit(hi, 6) = Bit(imm, 11)
    BY <1>1, <1>3, <1>6, <2>0
  <2>2. \A i \in 0 .. 6 : \/ i = 0 \/ i = 1 \/ i = 2 \/ i = 3 \/ i = 4 \/ i = 5 \/ i = 6
    OBVIOUS
  <2>3. /\ 0 + 5 = 5 /\ 1 + 5 = 6 /\ 2 + 5 = 7 /\ 3 + 5 = 8 /\ 4 + 5 = 9
        /\ 5 + 5 = 10 /\ 6 + 5 = 11
    OBVIOUS
  <2> QED  BY <2>1, <2>2, <2>3, Zenon
<1> QED  BY <1>1, <1>4, <1>5 DEF hi, lo

IFields(w, imm, rs1, f3, rd, op) ==
  /\ Opcode(w) = op /\ Rd(w) = rd /\ Funct3(w) = f3 /\ Rs1(w) = rs1
  /\ ImmI(w) = Signed12(imm) /\ w[30] = Bit(imm, 10)

LEMMA EncIFields ==
  ASSUME NEW imm \in Int, NEW rs1 \in 0 .. 31, NEW f3 \in 0 .. 7,
         NEW rd \in 0 .. 31, NEW op \in 0 .. 127
  PROVE  IFields(EncI(imm, rs1, f3, rd, op), imm, rs1, f3, rd, op)
<1> DEFINE w == EncI(imm, rs1, f3, rd, op)
<1> DEFINE hi == imm \div 32
           lo == imm % 32
<1>0. w = EncR(hi, lo, rs1, f3, rd, op)
  BY DEF EncI
<1>1. /\ hi \in Int /\ lo \in 0 .. 31
      /\ \A i \in 0 .. 4 : Bit(lo, i) = Bit(imm, i)
      /\ \A i \in 0 .. 6 : Bit(hi, i) = Bit(imm, i + 5)
  BY CutImmediate
<1> HIDE DEF hi, lo, w
<1>2. /\ Opcode(w) = op /\ Rd(w) = rd /\ Funct3(w) = f3 /\ Rs1(w) = rs1
      /\ \A i \in 0 .. 4 : w[20 + i] = Bit(lo, i)
      /\ \A i \in 0 .. 6 : w[25 + i] = Bit(hi, i)
  <2>1. RFields(w, hi, lo, rs1, f3, rd, op)
    BY <1>0, <1>1, EncRFields, Zenon
  <2> QED  BY <2>1 DEF RFields
<1>3. /\ \A i \in 0 .. 4 : w[20 + i] = Bit(imm, i)
      /\ \A i \in 0 .. 6 : w[25 + i] = Bit(imm, i + 5)
  BY <1>1, <1>2
<1>4. \A i \in 0 .. 11 : w[20 + i] = Bit(imm, i)
  <2> SUFFICES ASSUME NEW i \in 5 .. 11
               PROVE  w[20 + i] = Bit(imm, i)
    BY <1>3
  <2>1. i - 5 \in 0 .. 6 /\ 25 + (i - 5) = 20 + i /\ (i - 5) + 5 = i
    OBVIOUS
  <2> QED  BY <1>3, <2>1
<1>5. w[30] = Bit(imm, 10) /\ w[31] = Bit(imm, 11)
  <2>1. 20 + 10 = 30 /\ 20 + 11 = 31
    OBVIOUS
  <2> QED  BY <1>4, <2>1
<1> QED  BY <1>2, <1>4, <1>5 DEF ImmI, Signed12, IFields, w

SFields(w, imm, rs2, rs1, f3) ==
  /\ Opcode(w) = OP_STORE /\ Funct3(w) = f3
  /\ Rs1(w) = rs1 /\ Rs2(w) = rs2
  /\ ImmS(w) = Signed12(imm)

LEMMA EncSFields ==
  ASSUME NEW imm \in Int, NEW rs2 \in 0 .. 31, NEW rs1 \in 0 .. 31, NEW f3 \in 0 .. 7
  PROVE  SFields(EncS(imm, rs2, rs1, f3), imm, rs2, rs1, f3)
<1> DEFINE w == EncS(imm, rs2, rs1, f3)
<1> DEFINE hi == imm \div 32
           lo == imm % 32
<1>0. w = EncR(hi, rs2, rs1, f3, lo, OP_STORE)
  BY DEF EncS
<1>1. /\ hi \in Int /\ lo \in 0 .. 31
      /\ \A i \in 0 .. 4 : Bit(lo, i) = Bit(imm, i)
      /\ \A i \in 0 .. 6 : Bit(hi, i) = Bit(imm, i + 5)
  BY CutImmediate
<1> HIDE DEF hi, lo, w
<1>6. OP_STORE \in 0 .. 127
  BY DEF OP_STORE
<1>2. /\ Opcode(w) = OP_STORE /\ Funct3(w) = f3 /\ Rs1(w) = rs1 /\ Rs2(w) = rs2
      /\ \A i \in 0 .. 4 : w[7 + i] = Bit(lo, i)
      /\ \A i \in 0 .. 6 : w[25 + i] = Bit(hi, i)
  <2>1. RFields(w, hi, rs2, rs1, f3, lo, OP_STORE)
    BY <1>0, <1>1, <1>6, EncRFields, Zenon
  <2> QED  BY <2>1 DEF RFields
<1>3. /\ \A i \in 0 .. 4 : w[7 + i] = Bit(imm, i)
      /\ \A i \in 0 .. 6 : w[25 + i] = Bit(imm, i + 5)
  BY <1>1, <1>2
<1>4. \A i \in 5 .. 11 : w[20 + i] = Bit(imm, i)
  <2> SUFFICES ASSUME NEW i \in 5 .. 11
               PROVE  w[20 + i] = Bit(imm, i)
    OBVIOUS
  <2>1. i - 5 \in 0 .. 6 /\ 25 + (i - 5) = 20 + i /\ (i - 5) + 5 = i
    OBVIOUS
  <2> QED  BY <1>3, <2>1
<1>5. w[31] = Bit(imm, 11)
  <2>1. 20 + 11 = 31
    OBVIOUS
  <2> QED  BY <1>4, <2>1
<1> QED  BY <1>2, <1>3, <1>4, <1>5 DEF ImmS, Signed12, SFields, w

\* The lowest eight bits of a number are those of its remainder.
LEMMA LowByte ==
  ASSUME NEW x \in Int
  PROVE  /\ x % 256 \in 0 .. 255
         /\ \A i \in 0 .. 7 : Bit(x % 256, i) = Bit(x, i)
<1> DEFINE y == x % 256
           q == x \div 256
<1>1. y \in 0 .. 255 /\ q \in Int /\ x = 256 * q + y
  OBVIOUS
<1> HIDE DEF y, q
<1>2. /\ x \div 2 = 128 * q + (y \div 2) /\ x \div 4 = 64 * q + (y \div 4)
      /\ x \div 8 = 32 * q + (y \div 8) /\ x \div 16 = 16 * q + (y \div 16)
  BY <1>1
<1>3. /\ x \div 32 = 8 * q + (y \div 32) /\ x \div 64 = 4 * q + (y \div 64)
      /\ x \div 128 = 2 * q + (y \div 128)
  BY <1>1
<1>4. /\ y % 2 = x % 2 /\ (y \div 2) % 2 = (x \div 2) % 2
      /\ (y \div 4) % 2 = (x \div 4) % 2 /\ (y \div 8) % 2 = (x \div 8) % 2
  BY <1>1, <1>2
<1>5. /\ (y \div 16) % 2 = (x \div 16) % 2 /\ (y \div 32) % 2 = (x \div 32) % 2
      /\ (y \div 64) % 2 = (x \div 64) % 2 /\ (y \div 128) % 2 = (x \div 128) % 2
  BY <1>1, <1>2, <1>3
<1>6. /\ Bit(x, 0) = x % 2 /\ Bit(x, 1) = (x \div 2) % 2
      /\ Bit(x, 2) = (x \div 4) % 2 /\ Bit(x, 3) = (x \div 8) % 2
      /\ Bit(x, 4) = (x \div 16) % 2 /\ Bit(x, 5) = (x \div 32) % 2
      /\ Bit(x, 6) = (x \div 64) % 2 /\ Bit(x, 7) = (x \div 128) % 2
  BY PowersOfTwo DEF Bit
<1>7. /\ Bit(y, 0) = y % 2 /\ Bit(y, 1) = (y \div 2) % 2
      /\ Bit(y, 2) = (y \div 4) % 2 /\ Bit(y, 3) = (y \div 8) % 2
      /\ Bit(y, 4) = (y \div 16) % 2 /\ Bit(y, 5) = (y \div 32) % 2
      /\ Bit(y, 6) = (y \div 64) % 2 /\ Bit(y, 7) = (y \div 128) % 2
  BY <1>1, PowersOfTwo DEF Bit
<1>8. /\ Bit(y, 0) = Bit(x, 0) /\ Bit(y, 1) = Bit(x, 1) /\ Bit(y, 2) = Bit(x, 2)
      /\ Bit(y, 3) = Bit(x, 3) /\ Bit(y, 4) = Bit(x, 4) /\ Bit(y, 5) = Bit(x, 5)
      /\ Bit(y, 6) = Bit(x, 6) /\ Bit(y, 7) = Bit(x, 7)
  BY <1>1, <1>4, <1>5, <1>6, <1>7
<1>9. \A i \in 0 .. 7 : Bit(y, i) = Bit(x, i)
  <2>1. \A i \in 0 .. 7 : \/ i = 0 \/ i = 1 \/ i = 2 \/ i = 3
                          \/ i = 4 \/ i = 5 \/ i = 6 \/ i = 7
    OBVIOUS
  <2> QED  BY <1>8, <2>1, Zenon
<1> QED  BY <1>1, <1>9 DEF y

\* A distance that is even, as between two labels, goes through the encoding of
\* a branch and of a jump up to the width of the pc.
LEMMA EvenOffset ==
  ASSUME NEW off \in Int, off % 2 = 0, NEW v, v[0] = 0,
         \A i \in 1 .. 7 : v[i] = Bit(off, i)
  PROVE  Val(v, 8) = off % 256
<1>1. Bit(off, 0) = 0
  BY PowersOfTwo DEF Bit
<1>2. \A i \in 0 .. 7 : v[i] = Bit(off, i)
  BY <1>1
<1> DEFINE x == off % 256
<1>3. x \in 0 .. 255 /\ \A i \in 0 .. 7 : Bit(x, i) = Bit(off, i)
  BY LowByte
<1> HIDE DEF x
<1>4. \A i \in 0 .. 7 : v[i] = Bit(x, i)
  BY <1>2, <1>3
<1>5. Val(v, 8) = x
  BY <1>3, <1>4, Field8
<1> QED  BY <1>5 DEF x

LEMMA Reaches ==
  ASSUME NEW from \in 0 .. 255, NEW target \in 0 .. 255
  PROVE  (from + ((target - from) % 256)) % 256 = target
OBVIOUS

\* The bits of a branch's distance, in the two fields it is spread over.
BranchParts(off, f, r) ==
  /\ f \in Int /\ r \in 0 .. 31
  /\ \A i \in 1 .. 4 : Bit(r, i) = Bit(off, i)
  /\ \A i \in 0 .. 2 : Bit(f, i) = Bit(off, i + 5)

LEMMA BranchBits ==
  ASSUME NEW off \in Int, NEW b \in 0 .. 1, NEW c \in 0 .. 1
  PROVE  BranchParts(off, 64 * b + ((off \div 32) % 64), 2 * ((off \div 2) % 16) + c)
<1> DEFINE m == (off \div 2) % 16
           n == (off \div 32) % 64
<1>1. /\ m \in 0 .. 15 /\ m % 2 = (off \div 2) % 2 /\ (m \div 2) % 2 = (off \div 4) % 2
      /\ (m \div 4) % 2 = (off \div 8) % 2 /\ (m \div 8) % 2 = (off \div 16) % 2
  OBVIOUS
<1>2. /\ n \in 0 .. 63 /\ n % 2 = (off \div 32) % 2 /\ (n \div 2) % 2 = (off \div 64) % 2
      /\ (n \div 4) % 2 = (off \div 128) % 2
  OBVIOUS
<1> HIDE DEF m, n
<1> DEFINE r == 2 * m + c
           f == 64 * b + n
<1>3. /\ r \in 0 .. 31 /\ (r \div 2) % 2 = m % 2 /\ (r \div 4) % 2 = (m \div 2) % 2
      /\ (r \div 8) % 2 = (m \div 4) % 2 /\ (r \div 16) % 2 = (m \div 8) % 2
  BY <1>1
<1>4. /\ f \in Int /\ f % 2 = n % 2 /\ (f \div 2) % 2 = (n \div 2) % 2
      /\ (f \div 4) % 2 = (n \div 4) % 2
  BY <1>2
<1> HIDE DEF r, f
<1>5. /\ Bit(r, 1) = (r \div 2) % 2 /\ Bit(r, 2) = (r \div 4) % 2
      /\ Bit(r, 3) = (r \div 8) % 2 /\ Bit(r, 4) = (r \div 16) % 2
  BY <1>3, PowersOfTwo DEF Bit
<1>6. Bit(f, 0) = f % 2 /\ Bit(f, 1) = (f \div 2) % 2 /\ Bit(f, 2) = (f \div 4) % 2
  BY <1>4, PowersOfTwo DEF Bit
<1>7. /\ Bit(off, 1) = (off \div 2) % 2
      /\ Bit(off, 2) = (off \div 4) % 2 /\ Bit(off, 3) = (off \div 8) % 2
      /\ Bit(off, 4) = (off \div 16) % 2 /\ Bit(off, 5) = (off \div 32) % 2
      /\ Bit(off, 6) = (off \div 64) % 2 /\ Bit(off, 7) = (off \div 128) % 2
  BY PowersOfTwo DEF Bit
<1>8. /\ Bit(r, 1) = Bit(off, 1) /\ Bit(r, 2) = Bit(off, 2)
      /\ Bit(r, 3) = Bit(off, 3) /\ Bit(r, 4) = Bit(off, 4)
  BY <1>1, <1>3, <1>5, <1>7
<1>9. Bit(f, 0) = Bit(off, 5) /\ Bit(f, 1) = Bit(off, 6) /\ Bit(f, 2) = Bit(off, 7)
  BY <1>2, <1>4, <1>6, <1>7
<1>10. \A i \in 1 .. 4 : Bit(r, i) = Bit(off, i)
  <2>1. \A i \in 1 .. 4 : i = 1 \/ i = 2 \/ i = 3 \/ i = 4
    OBVIOUS
  <2> QED  BY <1>8, <2>1, Zenon
<1>11. \A i \in 0 .. 2 : Bit(f, i) = Bit(off, i + 5)
  <2>1. \A i \in 0 .. 2 : i = 0 \/ i = 1 \/ i = 2
    OBVIOUS
  <2>2. 0 + 5 = 5 /\ 1 + 5 = 6 /\ 2 + 5 = 7
    OBVIOUS
  <2> QED  BY <1>9, <2>1, <2>2, Zenon
<1> QED  BY <1>3, <1>4, <1>10, <1>11 DEF BranchParts, r, f, m, n

BFields(w, f3, rs1, rs2, from, target) ==
  /\ Opcode(w) = OP_BRANCH /\ Funct3(w) = f3 /\ Rs1(w) = rs1 /\ Rs2(w) = rs2
  /\ (from + ImmB(w)) % 256 = target

LEMMA BranchFields ==
  ASSUME NEW f3 \in 0 .. 7, NEW rs1 \in 0 .. 31, NEW rs2 \in 0 .. 31,
         NEW from \in 0 .. 255, NEW target \in 0 .. 255, (target - from) % 2 = 0
  PROVE  BFields(Branch(f3, rs1, rs2, from, target), f3, rs1, rs2, from, target)
<1> DEFINE off == target - from
           b == Bit(off, 12)
           c == Bit(off, 11)
           f == 64 * b + ((off \div 32) % 64)
           r == 2 * ((off \div 2) % 16) + c
           w == EncR(f, rs2, rs1, f3, r, OP_BRANCH)
<1>1. Branch(f3, rs1, rs2, from, target) = w
  BY DEF Branch
<1>2. off \in Int /\ off % 2 = 0 /\ (from + (off % 256)) % 256 = target
  BY Reaches
<1> HIDE DEF off
<1>3. b \in 0 .. 1 /\ c \in 0 .. 1
  BY <1>2, PowersOfTwo DEF Bit
<1> HIDE DEF b, c
<1>4. BranchParts(off, f, r)
  BY <1>2, <1>3, BranchBits, Zenon
<1> HIDE DEF f, r
<1>5. OP_BRANCH \in 0 .. 127
  BY DEF OP_BRANCH
<1>6. RFields(w, f, rs2, rs1, f3, r, OP_BRANCH)
  <2>1. f \in Int /\ r \in 0 .. 31
    BY <1>4, Zenon DEF BranchParts
  <2> QED  BY <1>5, <2>1, EncRFields, Zenon
<1> HIDE DEF w
<1>7. /\ Opcode(w) = OP_BRANCH /\ Funct3(w) = f3 /\ Rs1(w) = rs1 /\ Rs2(w) = rs2
      /\ \A i \in 0 .. 4 : w[7 + i] = Bit(r, i)
      /\ \A i \in 0 .. 6 : w[25 + i] = Bit(f, i)
  BY <1>6 DEF RFields
<1> DEFINE v == [i \in 0 .. 7 |-> IF i = 0 THEN 0 ELSE IF i < 5 THEN w[7 + i] ELSE w[20 + i]]
<1>8. v[0] = 0 /\ \A i \in 1 .. 7 : v[i] = Bit(off, i)
  <2>1. v[0] = 0
    OBVIOUS
  <2>2. \A i \in 1 .. 4 : v[i] = Bit(off, i)
    BY <1>4, <1>7 DEF BranchParts
  <2>3. ASSUME NEW i \in 5 .. 7
        PROVE  v[i] = Bit(off, i)
    <3>1. i - 5 \in 0 .. 2 /\ 25 + (i - 5) = 20 + i /\ (i - 5) + 5 = i
      OBVIOUS
    <3>2. w[20 + i] = Bit(off, i)
      BY <1>4, <1>7, <3>1 DEF BranchParts
    <3> QED  BY <3>2
  <2> QED  BY <2>1, <2>2, <2>3
<1>9. ImmB(w) = off % 256
  <2>1. ImmB(w) = Val(v, 8)
    BY DEF ImmB
  <2> HIDE DEF v
  <2> QED  BY <1>2, <1>8, <2>1, EvenOffset
<1> QED  BY <1>1, <1>2, <1>7, <1>9 DEF BFields

\* The same for a jump, whose distance is in the upper twenty bits.
JumpField(off, b, c) ==
  2^19 * b + 2^9 * ((off \div 2) % 1024) + 2^8 * c + ((off \div 4096) % 256)

LEMMA JumpBits ==
  ASSUME NEW off \in Int, NEW b \in 0 .. 1, NEW c \in 0 .. 1
  PROVE  /\ JumpField(off, b, c) \in Int
         /\ \A i \in 0 .. 6 : Bit(JumpField(off, b, c), i + 9) = Bit(off, i + 1)
<1> DEFINE m == (off \div 2) % 1024
           n == (off \div 4096) % 256
           x == JumpField(off, b, c)
<1>1. /\ m \in 0 .. 1023 /\ m % 2 = (off \div 2) % 2 /\ (m \div 2) % 2 = (off \div 4) % 2
      /\ (m \div 4) % 2 = (off \div 8) % 2 /\ (m \div 8) % 2 = (off \div 16) % 2
      /\ (m \div 16) % 2 = (off \div 32) % 2
  OBVIOUS
<1>2. /\ (m \div 32) % 2 = (off \div 64) % 2 /\ (m \div 64) % 2 = (off \div 128) % 2
      /\ n \in 0 .. 255
  OBVIOUS
<1>3. x = 524288 * b + 512 * m + 256 * c + n
  BY PowersOfTwo DEF JumpField
<1> HIDE DEF m, n, x
<1> DEFINE h == 1024 * b + m
<1>4. x \in Int /\ h \in Int /\ x = 512 * h + (256 * c + n) /\ 256 * c + n \in 0 .. 511
  BY <1>1, <1>2, <1>3
<1>5. /\ h % 2 = m % 2 /\ (h \div 2) % 2 = (m \div 2) % 2 /\ (h \div 4) % 2 = (m \div 4) % 2
      /\ (h \div 8) % 2 = (m \div 8) % 2
  BY <1>1
<1>6. /\ (h \div 16) % 2 = (m \div 16) % 2
      /\ (h \div 32) % 2 = (m \div 32) % 2 /\ (h \div 64) % 2 = (m \div 64) % 2
  BY <1>1
<1> HIDE DEF h
<1>7. /\ x \div 512 = h /\ x \div 1024 = h \div 2 /\ x \div 2048 = h \div 4
      /\ x \div 4096 = h \div 8 /\ x \div 8192 = h \div 16 /\ x \div 16384 = h \div 32
      /\ x \div 32768 = h \div 64
  <2> DEFINE r == 256 * c + n
  <2>0. x \in Int /\ h \in Int /\ x = 512 * h + r /\ r \in 0 .. 511
    BY <1>4
  <2> HIDE DEF r
  <2>1. x \div 512 = h
    BY <2>0
  <2>2. x \div 1024 = h \div 2
    BY <2>0
  <2>3. x \div 2048 = h \div 4
    BY <2>0
  <2>4. x \div 4096 = h \div 8
    BY <2>0
  <2>5. x \div 8192 = h \div 16
    BY <2>0
  <2>6. x \div 16384 = h \div 32
    BY <2>0
  <2>7. x \div 32768 = h \div 64
    BY <2>0
  <2> QED  BY <2>1, <2>2, <2>3, <2>4, <2>5, <2>6, <2>7
<1>8. /\ Bit(x, 9) = (x \div 512) % 2 /\ Bit(x, 10) = (x \div 1024) % 2
      /\ Bit(x, 11) = (x \div 2048) % 2 /\ Bit(x, 12) = (x \div 4096) % 2
      /\ Bit(x, 13) = (x \div 8192) % 2 /\ Bit(x, 14) = (x \div 16384) % 2
      /\ Bit(x, 15) = (x \div 32768) % 2
  BY <1>4, PowersOfTwo DEF Bit
<1>9. /\ Bit(off, 1) = (off \div 2) % 2
      /\ Bit(off, 2) = (off \div 4) % 2 /\ Bit(off, 3) = (off \div 8) % 2
      /\ Bit(off, 4) = (off \div 16) % 2 /\ Bit(off, 5) = (off \div 32) % 2
      /\ Bit(off, 6) = (off \div 64) % 2 /\ Bit(off, 7) = (off \div 128) % 2
  BY PowersOfTwo DEF Bit
<1>10. /\ Bit(x, 9) = Bit(off, 1) /\ Bit(x, 10) = Bit(off, 2)
       /\ Bit(x, 11) = Bit(off, 3) /\ Bit(x, 12) = Bit(off, 4)
       /\ Bit(x, 13) = Bit(off, 5) /\ Bit(x, 14) = Bit(off, 6)
       /\ Bit(x, 15) = Bit(off, 7)
  BY <1>1, <1>2, <1>5, <1>6, <1>7, <1>8, <1>9
<1>11. \A i \in 0 .. 6 : Bit(x, i + 9) = Bit(off, i + 1)
  <2>1. \A i \in 0 .. 6 : \/ i = 0 \/ i = 1 \/ i = 2 \/ i = 3 \/ i = 4 \/ i = 5 \/ i = 6
    OBVIOUS
  <2>2. /\ 0 + 9 = 9 /\ 1 + 9 = 10 /\ 2 + 9 = 11 /\ 3 + 9 = 12
        /\ 4 + 9 = 13 /\ 5 + 9 = 14 /\ 6 + 9 = 15
        /\ 0 + 1 = 1 /\ 1 + 1 = 2 /\ 2 + 1 = 3 /\ 3 + 1 = 4
        /\ 4 + 1 = 5 /\ 5 + 1 = 6 /\ 6 + 1 = 7
    OBVIOUS
  <2> QED  BY <1>10, <2>1, <2>2, Zenon
<1> QED  BY <1>4, <1>11 DEF x

UFields(w, imm20, rd, op) ==
  /\ Opcode(w) = op /\ Rd(w) = rd
  /\ \A i \in 12 .. 31 : w[i] = Bit(imm20, i - 12)
  /\ ImmU(w) = [i \in 0 .. 31 |-> IF i < 12 THEN 0 ELSE Bit(imm20, i - 12)]

LEMMA EncUFields ==
  ASSUME NEW imm20 \in Int, NEW rd \in 0 .. 31, NEW op \in 0 .. 127
  PROVE  UFields(EncU(imm20, rd, op), imm20, rd, op)
<1> DEFINE w == EncU(imm20, rd, op)
           u == EncR(0, 0, 0, 0, rd, op)
<1>1. (\A i \in 0 .. 6 : u[i] = Bit(op, i)) /\ \A i \in 0 .. 4 : u[7 + i] = Bit(rd, i)
  BY DEF EncR
<1> HIDE DEF u
<1>2. (\A i \in 0 .. 11 : w[i] = u[i]) /\ \A i \in 12 .. 31 : w[i] = Bit(imm20, i - 12)
  BY DEF EncU, u
<1> HIDE DEF w
<1>3. \A i \in 0 .. 6 : w[i] = Bit(op, i)
  BY <1>1, <1>2
<1>4. \A i \in 0 .. 4 : w[7 + i] = Bit(rd, i)
  BY <1>1, <1>2
<1>5. Opcode(w) = op
  <2>1. \A i \in 0 .. 6 : Slice(w, 6, 0)[i] = Bit(op, i)
    BY <1>3 DEF Slice
  <2> QED  BY <2>1, Field7 DEF Opcode
<1>6. Rd(w) = rd
  <2>1. \A i \in 0 .. 4 : Slice(w, 11, 7)[i] = Bit(rd, i)
    BY <1>4 DEF Slice
  <2> QED  BY <2>1, Field5 DEF Rd
<1>7. ImmU(w) = [i \in 0 .. 31 |-> IF i < 12 THEN 0 ELSE Bit(imm20, i - 12)]
  BY <1>2 DEF ImmU
<1> QED  BY <1>2, <1>5, <1>6, <1>7 DEF UFields, w

JFields(w, rd, from, target) ==
  Opcode(w) = OP_JAL /\ Rd(w) = rd /\ (from + ImmJ(w)) % 256 = target

LEMMA JalFields ==
  ASSUME NEW rd \in 0 .. 31,
         NEW from \in 0 .. 255, NEW target \in 0 .. 255, (target - from) % 2 = 0
  PROVE  JFields(JAL(rd, from, target), rd, from, target)
<1> DEFINE off == target - from
           b == Bit(off, 20)
           c == Bit(off, 11)
           x == JumpField(off, b, c)
           w == EncU(x, rd, OP_JAL)
<1>1. JAL(rd, from, target) = w
  BY DEF JAL, JumpField
<1>2. off \in Int /\ off % 2 = 0 /\ (from + (off % 256)) % 256 = target
  BY Reaches
<1> HIDE DEF off
<1>3. b \in 0 .. 1 /\ c \in 0 .. 1
  BY <1>2, PowersOfTwo DEF Bit
<1> HIDE DEF b, c
<1>4. x \in Int /\ \A i \in 0 .. 6 : Bit(x, i + 9) = Bit(off, i + 1)
  BY <1>2, <1>3, JumpBits, Zenon
<1> HIDE DEF x
<1>5. OP_JAL \in 0 .. 127
  BY DEF OP_JAL
<1>6. UFields(w, x, rd, OP_JAL)
  BY <1>4, <1>5, EncUFields, Zenon
<1> HIDE DEF w
<1>7. /\ Opcode(w) = OP_JAL /\ Rd(w) = rd /\ \A i \in 12 .. 31 : w[i] = Bit(x, i - 12)
  BY <1>6 DEF UFields
<1> DEFINE v == [i \in 0 .. 7 |-> IF i = 0 THEN 0 ELSE w[20 + i]]
<1>8. v[0] = 0 /\ \A i \in 1 .. 7 : v[i] = Bit(off, i)
  <2> SUFFICES ASSUME NEW i \in 1 .. 7
               PROVE  v[i] = Bit(off, i)
    OBVIOUS
  <2>1. i - 1 \in 0 .. 6 /\ 20 + i \in 12 .. 31 /\ (20 + i) - 12 = (i - 1) + 9 /\ (i - 1) + 1 = i
    OBVIOUS
  <2>2. w[20 + i] = Bit(x, (i - 1) + 9)
    BY <1>7, <2>1
  <2>3. w[20 + i] = Bit(off, i)
    BY <1>4, <2>1, <2>2
  <2> QED  BY <2>3
<1>9. ImmJ(w) = off % 256
  <2>1. ImmJ(w) = Val(v, 8)
    BY DEF ImmJ
  <2> HIDE DEF v
  <2> QED  BY <1>2, <1>8, <2>1, EvenOffset
<1> QED  BY <1>1, <1>2, <1>7, <1>9 DEF JFields

-----------------------------------------------------------------------------
\* Mnemonics: what the core does with each of them.

OPS == {OP_LUI, OP_AUIPC, OP_JAL, OP_JALR, OP_BRANCH, OP_LOAD, OP_STORE, OP_IMM, OP_REG}

LEMMA OpsDiffer ==
  /\ OPS \subseteq 0 .. 127
  /\ OP_LUI = 55 /\ OP_AUIPC = 23 /\ OP_JAL = 111 /\ OP_JALR = 103 /\ OP_BRANCH = 99
  /\ OP_LOAD = 3 /\ OP_STORE = 35 /\ OP_IMM = 19 /\ OP_REG = 51
BY DEF OPS, OP_LUI, OP_AUIPC, OP_JAL, OP_JALR, OP_BRANCH, OP_LOAD, OP_STORE, OP_IMM, OP_REG

\* The register file with rd set; x0 is not set.
Put(regfile, rd, v) == IF rd = 0 THEN regfile ELSE [regfile EXCEPT ![rd] = v]

\* An instruction that sets rd and goes on.
Sets(w, regfile, at_pc, rd, v) ==
  /\ Opcode(w) \notin {OP_LOAD, OP_STORE}
  /\ NextPc(w, regfile, at_pc) = (at_pc + 4) % 256
  /\ \A rdata : WriteBack(w, regfile, at_pc, AluY(w, regfile), rdata) = Put(regfile, rd, v)

\* An instruction that sets rd and goes to `to`.
JumpsTo(w, regfile, at_pc, rd, to) ==
  /\ Opcode(w) \notin {OP_LOAD, OP_STORE}
  /\ NextPc(w, regfile, at_pc) = to
  /\ \A rdata : WriteBack(w, regfile, at_pc, AluY(w, regfile), rdata)
                  = Put(regfile, rd, Add(ToBits(at_pc, 32), ToBits(4, 32)))

\* An instruction that sets nothing and goes to `to`.
GoesTo(w, regfile, at_pc, to) ==
  /\ Opcode(w) \notin {OP_LOAD, OP_STORE}
  /\ NextPc(w, regfile, at_pc) = to
  /\ \A rdata : WriteBack(w, regfile, at_pc, AluY(w, regfile), rdata) = regfile

\* The lowest 2^size bytes of a word, made a word again.
Widened(size, unsigned, v) ==
  IF size = 2 THEN v
  ELSE Extend(v, 8 * (size + 1), IF unsigned THEN 0 ELSE v[8 * size + 7])

\* A load of 2^size bytes at base + imm, a store of them.
LoadsFrom(w, regfile, at_pc, rd, base, imm, size, unsigned) ==
  /\ Opcode(w) = OP_LOAD
  /\ AluY(w, regfile) = Add(base, Signed12(imm))
  /\ AccessSize(w) = size
  /\ NextPc(w, regfile, at_pc) = (at_pc + 4) % 256
  /\ \A y, rdata : WriteBack(w, regfile, at_pc, y, rdata) 
                          = Put(regfile, rd, Widened(size, unsigned, rdata))

StoresTo(w, regfile, at_pc, rs2, base, imm, size) ==
  /\ Opcode(w) = OP_STORE
  /\ AluY(w, regfile) = Add(base, Signed12(imm))
  /\ AccessSize(w) = size
  /\ Rs2(w) = rs2
  /\ NextPc(w, regfile, at_pc) = (at_pc + 4) % 256
  /\ \A y, rdata : WriteBack(w, regfile, at_pc, y, rdata) = regfile

\* The operation of a register-register and of an immediate instruction.
RegisterOp(f7, f3) ==
  CASE f3 = 0 -> IF f7 = 32 THEN "sub" ELSE "add"
    [] f3 = 1 -> "sll"
    [] f3 = 2 -> "slt"
    [] f3 = 3 -> "sltu"
    [] f3 = 4 -> "xor"
    [] f3 = 5 -> IF f7 = 32 THEN "sra" ELSE "srl"
    [] f3 = 6 -> "or"
    [] f3 = 7 -> "and"

ImmediateOp(imm, f3) == RegisterOp(IF f3 = 5 /\ Bit(imm, 10) = 1 THEN 32 ELSE 0, f3)

LEMMA OpNames ==
  /\ RegisterOp(0, 0) = "add" /\ RegisterOp(32, 0) = "sub" /\ RegisterOp(0, 1) = "sll"
  /\ RegisterOp(0, 2) = "slt" /\ RegisterOp(0, 3) = "sltu" /\ RegisterOp(0, 4) = "xor"
  /\ RegisterOp(0, 5) = "srl" /\ RegisterOp(32, 5) = "sra" /\ RegisterOp(0, 6) = "or"
  /\ RegisterOp(0, 7) = "and"
  /\ \A imm : /\ ImmediateOp(imm, 0) = "add" /\ ImmediateOp(imm, 1) = "sll"
              /\ ImmediateOp(imm, 2) = "slt" /\ ImmediateOp(imm, 3) = "sltu"
              /\ ImmediateOp(imm, 4) = "xor" /\ ImmediateOp(imm, 6) = "or"
              /\ ImmediateOp(imm, 7) = "and"
              /\ Bit(imm, 10) = 0 => ImmediateOp(imm, 5) = "srl"
              /\ Bit(imm, 10) = 1 => ImmediateOp(imm, 5) = "sra"
BY DEF RegisterOp, ImmediateOp

\* The fields of these instructions are numbers of so many bits.
LEMMA SmallNumbers ==
  /\ 0 \in {0, 32} /\ 32 \in {0, 32}
  /\ 0 \in 0 .. 7 /\ 1 \in 0 .. 7 /\ 2 \in 0 .. 7 /\ 3 \in 0 .. 7
  /\ 4 \in 0 .. 7 /\ 5 \in 0 .. 7 /\ 6 \in 0 .. 7 /\ 7 \in 0 .. 7
OBVIOUS

LEMMA RegisterFormat ==
  ASSUME NEW f7 \in {0, 32}, NEW rs2 \in 0 .. 31, NEW rs1 \in 0 .. 31,
         NEW f3 \in 0 .. 7, NEW rd \in 0 .. 31, NEW regfile, NEW at_pc
  PROVE  Sets(EncR(f7, rs2, rs1, f3, rd, OP_REG), regfile, at_pc, rd,
              Alu(RegisterOp(f7, f3), Reg(regfile, rs1), Reg(regfile, rs2)))
<1> DEFINE w == EncR(f7, rs2, rs1, f3, rd, OP_REG)
           op == RegisterOp(f7, f3)
<1> HIDE DEF w, op
<1>1. RFields(w, f7, rs2, rs1, f3, rd, OP_REG)
  <2>1. f7 \in Int /\ OP_REG \in 0 .. 127
    BY OpsDiffer
  <2> QED  BY <2>1, EncRFields, Zenon DEF w
<1>2. /\ Opcode(w) = OP_REG /\ Rd(w) = rd /\ Funct3(w) = f3 /\ Rs1(w) = rs1 /\ Rs2(w) = rs2
      /\ \A i \in 0 .. 6 : w[25 + i] = Bit(f7, i)
  BY <1>1 DEF RFields
<1>3. w[30] = IF f7 = 32 THEN 1 ELSE 0
  <2>1. w[25 + 5] = Bit(f7, 5)
    BY <1>2
  <2>2. Bit(f7, 5) = (f7 \div 32) % 2
    BY PowersOfTwo DEF Bit
  <2> QED  BY <2>1, <2>2
<1>4. Opcode(w) = 51 /\ OP_REG = 51
  BY <1>2, OpsDiffer
<1>5. AluOp(w) = op
  BY <1>2, <1>3, <1>4, OpsDiffer DEF AluOp, op, RegisterOp
<1>6. AluY(w, regfile) = Alu(op, Reg(regfile, rs1), Reg(regfile, rs2))
  BY <1>2, <1>4, <1>5, OpsDiffer DEF AluY
<1>7. NextPc(w, regfile, at_pc) = (at_pc + 4) % 256
  BY <1>4, OpsDiffer DEF NextPc
<1>8. \A rdata : WriteBack(w, regfile, at_pc, AluY(w, regfile), rdata)
                   = Put(regfile, rd, AluY(w, regfile))
  BY <1>2, <1>4, OpsDiffer DEF WriteBack, Put
<1> QED  BY <1>4, <1>6, <1>7, <1>8, OpsDiffer DEF Sets, w, op

LEMMA ImmediateFormat ==
  ASSUME NEW imm \in Int, NEW rs1 \in 0 .. 31, NEW f3 \in 0 .. 7, NEW rd \in 0 .. 31,
         NEW regfile, NEW at_pc
  PROVE  Sets(EncI(imm, rs1, f3, rd, OP_IMM), regfile, at_pc, rd,
              Alu(ImmediateOp(imm, f3), Reg(regfile, rs1), Signed12(imm)))
<1> DEFINE w == EncI(imm, rs1, f3, rd, OP_IMM)
           op == ImmediateOp(imm, f3)
<1> HIDE DEF w, op
<1>1. IFields(w, imm, rs1, f3, rd, OP_IMM)
  <2>1. OP_IMM \in 0 .. 127
    BY OpsDiffer
  <2> QED  BY <2>1, EncIFields, Zenon DEF w
<1>2. /\ Opcode(w) = OP_IMM /\ Rd(w) = rd /\ Funct3(w) = f3 /\ Rs1(w) = rs1
      /\ ImmI(w) = Signed12(imm) /\ w[30] = Bit(imm, 10)
  BY <1>1 DEF IFields
<1>4. Opcode(w) = 19 /\ OP_IMM = 19
  BY <1>2, OpsDiffer
<1>5. AluOp(w) = op
  BY <1>2, <1>4, OpsDiffer DEF AluOp, op, ImmediateOp, RegisterOp
<1>6. AluY(w, regfile) = Alu(op, Reg(regfile, rs1), Signed12(imm))
  BY <1>2, <1>4, <1>5, OpsDiffer DEF AluY
<1>7. NextPc(w, regfile, at_pc) = (at_pc + 4) % 256
  BY <1>4, OpsDiffer DEF NextPc
<1>8. \A rdata : WriteBack(w, regfile, at_pc, AluY(w, regfile), rdata)
                   = Put(regfile, rd, AluY(w, regfile))
  BY <1>2, <1>4, OpsDiffer DEF WriteBack, Put
<1> QED  BY <1>4, <1>6, <1>7, <1>8, OpsDiffer DEF Sets, w, op

\* How many places a shift by an immediate shifts.
LEMMA ShiftAmount ==
  ASSUME NEW sh \in 0 .. 31
  PROVE  /\ Val(ToBits(sh, 32), 5) = sh
         /\ Val(Signed12(sh), 5) = sh /\ Bit(sh, 10) = 0
         /\ Val(Signed12(1024 + sh), 5) = sh /\ Bit(1024 + sh, 10) = 1
<1>1. \A i \in 0 .. 4 : ToBits(sh, 32)[i] = Bit(sh, i)
  BY DEF ToBits, Bit
<1>2. \A i \in 0 .. 4 : Signed12(sh)[i] = Bit(sh, i)
  BY DEF Signed12
<1>3. \A i \in 0 .. 4 : Signed12(1024 + sh)[i] = Bit(sh, i)
  <2>1. \A i \in 0 .. 4 : Signed12(1024 + sh)[i] = Bit(1024 + sh, i)
    BY DEF Signed12
  <2> DEFINE x == 1024 + sh
  <2>2. /\ x \in Int /\ x % 2 = sh % 2 /\ (x \div 2) % 2 = (sh \div 2) % 2
        /\ (x \div 4) % 2 = (sh \div 4) % 2 /\ (x \div 8) % 2 = (sh \div 8) % 2
        /\ (x \div 16) % 2 = (sh \div 16) % 2
    OBVIOUS
  <2> HIDE DEF x
  <2>3. /\ Bit(x, 0) = Bit(sh, 0) /\ Bit(x, 1) = Bit(sh, 1) /\ Bit(x, 2) = Bit(sh, 2)
        /\ Bit(x, 3) = Bit(sh, 3) /\ Bit(x, 4) = Bit(sh, 4)
    BY <2>2, PowersOfTwo DEF Bit
  <2>4. \A i \in 0 .. 4 : i = 0 \/ i = 1 \/ i = 2 \/ i = 3 \/ i = 4
    OBVIOUS
  <2>5. \A i \in 0 .. 4 : Bit(x, i) = Bit(sh, i)
    BY <2>3, <2>4, Zenon
  <2> QED  BY <2>1, <2>5 DEF x
<1>4. Bit(sh, 10) = 0 /\ Bit(1024 + sh, 10) = 1
  BY PowersOfTwo DEF Bit
<1> QED  BY <1>1, <1>2, <1>3, <1>4, Field5

LEMMA LoadFormat ==
  ASSUME NEW imm \in Int, NEW rs1 \in 0 .. 31, NEW f3 \in {0, 1, 2, 4, 5},
         NEW rd \in 0 .. 31, NEW regfile, NEW at_pc
  PROVE  LoadsFrom(EncI(imm, rs1, f3, rd, OP_LOAD), regfile, at_pc, rd,
                   Reg(regfile, rs1), imm, f3 % 4, f3 >= 4)
<1> DEFINE w == EncI(imm, rs1, f3, rd, OP_LOAD)
<1> HIDE DEF w
<1>1. IFields(w, imm, rs1, f3, rd, OP_LOAD)
  <2>1. OP_LOAD \in 0 .. 127 /\ f3 \in 0 .. 7
    BY OpsDiffer
  <2> QED  BY <2>1, EncIFields, Zenon DEF w
<1>2. /\ Opcode(w) = OP_LOAD /\ Rd(w) = rd /\ Funct3(w) = f3 /\ Rs1(w) = rs1
      /\ ImmI(w) = Signed12(imm)
  BY <1>1 DEF IFields
<1>4. Opcode(w) = 3 /\ OP_LOAD = 3
  BY <1>2, OpsDiffer
<1>5. AluOp(w) = "add"
  BY <1>4, OpsDiffer DEF AluOp
<1>6. AluY(w, regfile) = Add(Reg(regfile, rs1), Signed12(imm))
  BY <1>2, <1>4, <1>5, OpsDiffer DEF AluY, Alu
<1>7. NextPc(w, regfile, at_pc) = (at_pc + 4) % 256
  BY <1>4, OpsDiffer DEF NextPc
<1>8. \A rdata : LoadValue(w, rdata) = Widened(f3 % 4, f3 >= 4, rdata)
  BY <1>2 DEF LoadValue, Widened
<1>9. \A y, rdata : WriteBack(w, regfile, at_pc, y, rdata) = Put(regfile, rd, LoadValue(w, rdata))
  BY <1>2, <1>4, OpsDiffer DEF WriteBack, Put
<1>10. AccessSize(w) = f3 % 4
  BY <1>2 DEF AccessSize
<1> QED  BY <1>2, <1>6, <1>7, <1>8, <1>9, <1>10 DEF LoadsFrom, w

LEMMA StoreFormat ==
  ASSUME NEW imm \in Int, NEW rs2 \in 0 .. 31, NEW rs1 \in 0 .. 31,
         NEW f3 \in {0, 1, 2}, NEW regfile, NEW at_pc
  PROVE  StoresTo(EncS(imm, rs2, rs1, f3), regfile, at_pc, rs2,
                  Reg(regfile, rs1), imm, f3)
<1> DEFINE w == EncS(imm, rs2, rs1, f3)
<1> HIDE DEF w
<1>1. SFields(w, imm, rs2, rs1, f3)
  <2>1. f3 \in 0 .. 7
    OBVIOUS
  <2> QED  BY <2>1, EncSFields, Zenon DEF w
<1>2. /\ Opcode(w) = OP_STORE /\ Funct3(w) = f3 /\ Rs1(w) = rs1 /\ Rs2(w) = rs2
      /\ ImmS(w) = Signed12(imm)
  BY <1>1 DEF SFields
<1>4. Opcode(w) = 35 /\ OP_STORE = 35
  BY <1>2, OpsDiffer
<1>5. AluOp(w) = "add"
  BY <1>4, OpsDiffer DEF AluOp
<1>6. AluY(w, regfile) = Add(Reg(regfile, rs1), Signed12(imm))
  BY <1>2, <1>4, <1>5, OpsDiffer DEF AluY, Alu
<1>7. NextPc(w, regfile, at_pc) = (at_pc + 4) % 256
  BY <1>4, OpsDiffer DEF NextPc
<1>9. \A y, rdata : WriteBack(w, regfile, at_pc, y, rdata) = regfile
  BY <1>4, OpsDiffer DEF WriteBack
<1>10. AccessSize(w) = f3
  BY <1>2 DEF AccessSize
<1> QED  BY <1>2, <1>6, <1>7, <1>9, <1>10 DEF StoresTo, w

\* The condition of a branch.
CondHolds(f3, a, b) ==
  CASE f3 = 0 -> a = b
    [] f3 = 1 -> a # b
    [] f3 = 4 -> LessS(a, b)
    [] f3 = 5 -> ~LessS(a, b)
    [] f3 = 6 -> LessU(a, b)
    [] f3 = 7 -> ~LessU(a, b)
    [] OTHER  -> FALSE

LEMMA Conditions ==
  \A a, b : /\ CondHolds(0, a, b) = (a = b) /\ CondHolds(1, a, b) = (a # b)
           /\ CondHolds(4, a, b) = LessS(a, b) /\ CondHolds(5, a, b) = ~LessS(a, b)
           /\ CondHolds(6, a, b) = LessU(a, b) /\ CondHolds(7, a, b) = ~LessU(a, b)
BY DEF CondHolds

LEMMA BranchFormat ==
  ASSUME NEW f3 \in 0 .. 7, NEW rs1 \in 0 .. 31, NEW rs2 \in 0 .. 31,
         NEW from \in 0 .. 255, NEW target \in 0 .. 255, (target - from) % 2 = 0,
         NEW regfile
  PROVE  GoesTo(Branch(f3, rs1, rs2, from, target), regfile, from,
                IF CondHolds(f3, Reg(regfile, rs1), Reg(regfile, rs2))
                  THEN target ELSE (from + 4) % 256)
<1> DEFINE w == Branch(f3, rs1, rs2, from, target)
           taken == CondHolds(f3, Reg(regfile, rs1), Reg(regfile, rs2))
<1> HIDE DEF w, taken
<1>1. /\ Opcode(w) = OP_BRANCH /\ Funct3(w) = f3 /\ Rs1(w) = rs1 /\ Rs2(w) = rs2
      /\ (from + ImmB(w)) % 256 = target
  <2>1. BFields(w, f3, rs1, rs2, from, target)
    BY BranchFields, Zenon DEF w
  <2> QED  BY <2>1 DEF BFields
<1>2. Opcode(w) = 99 /\ OP_BRANCH = 99
  BY <1>1, OpsDiffer
<1>3. taken = BranchCond(w, regfile)
  BY <1>1 DEF BranchCond, CondHolds, taken
<1>4. NextPc(w, regfile, from) = IF taken THEN target ELSE (from + 4) % 256
  <2>1. NextPc(w, regfile, from)
          = IF BranchCond(w, regfile) THEN (from + ImmB(w)) % 256 ELSE (from + 4) % 256
    BY <1>2, OpsDiffer DEF NextPc
  <2> QED  BY <1>1, <1>3, <2>1, Zenon
<1>5. \A y, rdata : WriteBack(w, regfile, from, y, rdata) = regfile
  BY <1>2, OpsDiffer DEF WriteBack
<1> QED  BY <1>2, <1>4, <1>5, OpsDiffer DEF GoesTo, w, taken

LEMMA JumpFormat ==
  ASSUME NEW rd \in 0 .. 31,
         NEW from \in 0 .. 255, NEW target \in 0 .. 255, (target - from) % 2 = 0,
         NEW regfile
  PROVE  JumpsTo(JAL(rd, from, target), regfile, from, rd, target)
<1> DEFINE w == JAL(rd, from, target)
<1> HIDE DEF w
<1>1. Opcode(w) = OP_JAL /\ Rd(w) = rd /\ (from + ImmJ(w)) % 256 = target
  <2>1. JFields(w, rd, from, target)
    BY JalFields, Zenon DEF w
  <2> QED  BY <2>1 DEF JFields
<1>2. Opcode(w) = 111 /\ OP_JAL = 111
  BY <1>1, OpsDiffer
<1>3. NextPc(w, regfile, from) = target
  BY <1>1, <1>2, OpsDiffer DEF NextPc
<1>4. \A rdata : WriteBack(w, regfile, from, AluY(w, regfile), rdata)
                   = Put(regfile, rd, Add(ToBits(from, 32), ToBits(4, 32)))
  BY <1>1, <1>2, OpsDiffer DEF WriteBack, Put
<1> QED  BY <1>2, <1>3, <1>4, OpsDiffer DEF JumpsTo, w

\* The low byte of an immediate.
LEMMA LowImmediate ==
  ASSUME NEW imm \in Int
  PROVE  Val(Signed12(imm), 8) = imm % 256
<1> DEFINE x == imm % 256
<1>1. x \in 0 .. 255 /\ \A i \in 0 .. 7 : Bit(x, i) = Bit(imm, i)
  BY LowByte
<1>2. \A i \in 0 .. 7 : Signed12(imm)[i] = Bit(imm, i)
  BY DEF Signed12
<1> HIDE DEF x
<1>3. \A i \in 0 .. 7 : Signed12(imm)[i] = Bit(x, i)
  BY <1>1, <1>2
<1>4. Val(Signed12(imm), 8) = x
  BY <1>1, <1>3, Field8
<1> QED  BY <1>4 DEF x

\* A jump to a register is to an even address.
Even(t) == t - (t % 2)

LEMMA RegisterJumpFormat ==
  ASSUME NEW rd \in 0 .. 31, NEW rs1 \in 0 .. 31, NEW imm \in Int,
         NEW regfile, NEW at_pc
  PROVE  JumpsTo(JALR(rd, rs1, imm), regfile, at_pc, rd,
                 Even((Addr8(Reg(regfile, rs1)) + (imm % 256)) % 256))
<1> DEFINE w == JALR(rd, rs1, imm)
<1> HIDE DEF w
<1>1. IFields(w, imm, rs1, 0, rd, OP_JALR)
  <2>1. OP_JALR \in 0 .. 127 /\ 0 \in 0 .. 7
    BY OpsDiffer
  <2> QED  BY <2>1, EncIFields, Zenon DEF JALR, w
<1>2. /\ Opcode(w) = OP_JALR /\ Rd(w) = rd /\ Rs1(w) = rs1 /\ ImmI(w) = Signed12(imm)
  BY <1>1 DEF IFields
<1>3. Opcode(w) = 103 /\ OP_JALR = 103
  BY <1>2, OpsDiffer
<1>4. Addr8(ImmI(w)) = imm % 256
  BY <1>2, LowImmediate DEF Addr8
<1>5. NextPc(w, regfile, at_pc) = Even((Addr8(Reg(regfile, rs1)) + (imm % 256)) % 256)
  <2>1. NextPc(w, regfile, at_pc) = Even((Addr8(Reg(regfile, Rs1(w))) + Addr8(ImmI(w))) % 256)
    BY <1>3, OpsDiffer DEF NextPc, Even
  <2> QED  BY <1>2, <1>4, <2>1
<1>6. \A rdata : WriteBack(w, regfile, at_pc, AluY(w, regfile), rdata)
                   = Put(regfile, rd, Add(ToBits(at_pc, 32), ToBits(4, 32)))
  BY <1>2, <1>3, OpsDiffer DEF WriteBack, Put
<1> QED  BY <1>3, <1>5, <1>6, OpsDiffer DEF JumpsTo, w

\* An immediate in the upper twenty bits.
Upper(imm20) == [i \in 0 .. 31 |-> IF i < 12 THEN 0 ELSE Bit(imm20, i - 12)]

LEMMA UpperFormat ==
  ASSUME NEW rd \in 0 .. 31, NEW imm20 \in Int, NEW regfile, NEW at_pc
  PROVE  /\ Sets(LUI(rd, imm20), regfile, at_pc, rd, Upper(imm20))
         /\ Sets(AUIPC(rd, imm20), regfile, at_pc, rd, Add(ToBits(at_pc, 32), Upper(imm20)))
<1>1. ASSUME NEW w, UFields(w, imm20, rd, OP_LUI)
      PROVE  Sets(w, regfile, at_pc, rd, Upper(imm20))
  <2>1. Opcode(w) = OP_LUI /\ Rd(w) = rd /\ ImmU(w) = Upper(imm20)
    BY <1>1 DEF UFields, Upper
  <2>2. Opcode(w) = 55 /\ OP_LUI = 55
    BY <2>1, OpsDiffer
  <2>3. NextPc(w, regfile, at_pc) = (at_pc + 4) % 256
    BY <2>2, OpsDiffer DEF NextPc
  <2>4. \A rdata : WriteBack(w, regfile, at_pc, AluY(w, regfile), rdata)
                     = Put(regfile, rd, Upper(imm20))
    BY <2>1, <2>2, OpsDiffer DEF WriteBack, Put
  <2> QED  BY <2>2, <2>3, <2>4, OpsDiffer DEF Sets
<1>2. ASSUME NEW w, UFields(w, imm20, rd, OP_AUIPC)
      PROVE  Sets(w, regfile, at_pc, rd, Add(ToBits(at_pc, 32), Upper(imm20)))
  <2>1. Opcode(w) = OP_AUIPC /\ Rd(w) = rd /\ ImmU(w) = Upper(imm20)
    BY <1>2 DEF UFields, Upper
  <2>2. Opcode(w) = 23 /\ OP_AUIPC = 23
    BY <2>1, OpsDiffer
  <2>3. NextPc(w, regfile, at_pc) = (at_pc + 4) % 256
    BY <2>2, OpsDiffer DEF NextPc
  <2>4. \A rdata : WriteBack(w, regfile, at_pc, AluY(w, regfile), rdata)
                     = Put(regfile, rd, Add(ToBits(at_pc, 32), Upper(imm20)))
    BY <2>1, <2>2, OpsDiffer DEF WriteBack, Put
  <2> QED  BY <2>2, <2>3, <2>4, OpsDiffer DEF Sets
<1>3. OP_LUI \in 0 .. 127 /\ OP_AUIPC \in 0 .. 127
  BY OpsDiffer
<1>4. /\ UFields(LUI(rd, imm20), imm20, rd, OP_LUI)
      /\ UFields(AUIPC(rd, imm20), imm20, rd, OP_AUIPC)
  BY <1>3, EncUFields, Zenon DEF LUI, AUIPC
<1> QED  BY <1>1, <1>2, <1>4

-----------------------------------------------------------------------------
RegisterMnemonics(rd, rs1, rs2, regfile, at_pc) ==
  LET a == Reg(regfile, rs1)
      b == Reg(regfile, rs2)
  IN  /\ Sets(ADD(rd, rs1, rs2), regfile, at_pc, rd, Add(a, b))
      /\ Sets(SUB(rd, rs1, rs2), regfile, at_pc, rd, Sub(a, b))
      /\ Sets(SLT(rd, rs1, rs2), regfile, at_pc, rd, Flag(LessS(a, b)))
      /\ Sets(SLTU(rd, rs1, rs2), regfile, at_pc, rd, Flag(LessU(a, b)))
      /\ Sets(SLL(rd, rs1, rs2), regfile, at_pc, rd, Alu("sll", a, b))
      /\ Sets(SRL(rd, rs1, rs2), regfile, at_pc, rd, Alu("srl", a, b))
      /\ Sets(SRA(rd, rs1, rs2), regfile, at_pc, rd, Alu("sra", a, b))
      /\ Sets(XOR(rd, rs1, rs2), regfile, at_pc, rd, Alu("xor", a, b))
      /\ Sets(OR(rd, rs1, rs2), regfile, at_pc, rd, Alu("or", a, b))
      /\ Sets(AND(rd, rs1, rs2), regfile, at_pc, rd, Alu("and", a, b))

\* Every register-register mnemonic does its operation.
THEOREM RegistersMean ==
  ASSUME NEW rd \in 0 .. 31, NEW rs1 \in 0 .. 31, NEW rs2 \in 0 .. 31,
         NEW regfile, NEW at_pc
  PROVE  RegisterMnemonics(rd, rs1, rs2, regfile, at_pc)
<1> DEFINE a == Reg(regfile, rs1)
           b == Reg(regfile, rs2)
<1>1. /\ Alu("add", a, b) = Add(a, b) /\ Alu("sub", a, b) = Sub(a, b)
      /\ Alu("slt", a, b) = Flag(LessS(a, b)) /\ Alu("sltu", a, b) = Flag(LessU(a, b))
  BY DEF Alu
<1>2. Sets(ADD(rd, rs1, rs2), regfile, at_pc, rd, Alu("add", a, b))
  BY RegisterFormat, OpNames, SmallNumbers, Zenon DEF ADD
<1>3. Sets(SUB(rd, rs1, rs2), regfile, at_pc, rd, Alu("sub", a, b))
  BY RegisterFormat, OpNames, SmallNumbers, Zenon DEF SUB
<1>4. Sets(SLL(rd, rs1, rs2), regfile, at_pc, rd, Alu("sll", a, b))
  BY RegisterFormat, OpNames, SmallNumbers, Zenon DEF SLL
<1>5. Sets(SLT(rd, rs1, rs2), regfile, at_pc, rd, Alu("slt", a, b))
  BY RegisterFormat, OpNames, SmallNumbers, Zenon DEF SLT
<1>6. Sets(SLTU(rd, rs1, rs2), regfile, at_pc, rd, Alu("sltu", a, b))
  BY RegisterFormat, OpNames, SmallNumbers, Zenon DEF SLTU
<1>7. Sets(XOR(rd, rs1, rs2), regfile, at_pc, rd, Alu("xor", a, b))
  BY RegisterFormat, OpNames, SmallNumbers, Zenon DEF XOR
<1>8. Sets(SRL(rd, rs1, rs2), regfile, at_pc, rd, Alu("srl", a, b))
  BY RegisterFormat, OpNames, SmallNumbers, Zenon DEF SRL
<1>9. Sets(SRA(rd, rs1, rs2), regfile, at_pc, rd, Alu("sra", a, b))
  BY RegisterFormat, OpNames, SmallNumbers, Zenon DEF SRA
<1>10. Sets(OR(rd, rs1, rs2), regfile, at_pc, rd, Alu("or", a, b))
  BY RegisterFormat, OpNames, SmallNumbers, Zenon DEF OR
<1>11. Sets(AND(rd, rs1, rs2), regfile, at_pc, rd, Alu("and", a, b))
  BY RegisterFormat, OpNames, SmallNumbers, Zenon DEF AND
<1> QED  BY <1>1, <1>2, <1>3, <1>4, <1>5, <1>6, <1>7, <1>8, <1>9, <1>10, <1>11
         DEF RegisterMnemonics

ImmediateMnemonics(rd, rs1, imm, regfile, at_pc) ==
  LET a == Reg(regfile, rs1)
      b == Signed12(imm)
  IN  /\ Sets(ADDI(rd, rs1, imm), regfile, at_pc, rd, Add(a, b))
      /\ Sets(SLTI(rd, rs1, imm), regfile, at_pc, rd, Flag(LessS(a, b)))
      /\ Sets(SLTIU(rd, rs1, imm), regfile, at_pc, rd, Flag(LessU(a, b)))
      /\ Sets(XORI(rd, rs1, imm), regfile, at_pc, rd, Alu("xor", a, b))
      /\ Sets(ORI(rd, rs1, imm), regfile, at_pc, rd, Alu("or", a, b))
      /\ Sets(ANDI(rd, rs1, imm), regfile, at_pc, rd, Alu("and", a, b))

\* So does every one with an immediate, whatever number it is given.
THEOREM ImmediatesMean ==
  ASSUME NEW rd \in 0 .. 31, NEW rs1 \in 0 .. 31, NEW imm \in Int,
         NEW regfile, NEW at_pc
  PROVE  ImmediateMnemonics(rd, rs1, imm, regfile, at_pc)
<1> DEFINE a == Reg(regfile, rs1)
           b == Signed12(imm)
<1>1. /\ Alu("add", a, b) = Add(a, b)
      /\ Alu("slt", a, b) = Flag(LessS(a, b)) /\ Alu("sltu", a, b) = Flag(LessU(a, b))
  BY DEF Alu
<1>2. Sets(ADDI(rd, rs1, imm), regfile, at_pc, rd, Alu("add", a, b))
  BY ImmediateFormat, OpNames, SmallNumbers, Zenon DEF ADDI
<1>3. Sets(SLTI(rd, rs1, imm), regfile, at_pc, rd, Alu("slt", a, b))
  BY ImmediateFormat, OpNames, SmallNumbers, Zenon DEF SLTI
<1>4. Sets(SLTIU(rd, rs1, imm), regfile, at_pc, rd, Alu("sltu", a, b))
  BY ImmediateFormat, OpNames, SmallNumbers, Zenon DEF SLTIU
<1>5. Sets(XORI(rd, rs1, imm), regfile, at_pc, rd, Alu("xor", a, b))
  BY ImmediateFormat, OpNames, SmallNumbers, Zenon DEF XORI
<1>6. Sets(ORI(rd, rs1, imm), regfile, at_pc, rd, Alu("or", a, b))
  BY ImmediateFormat, OpNames, SmallNumbers, Zenon DEF ORI
<1>7. Sets(ANDI(rd, rs1, imm), regfile, at_pc, rd, Alu("and", a, b))
  BY ImmediateFormat, OpNames, SmallNumbers, Zenon DEF ANDI
<1> QED  BY <1>1, <1>2, <1>3, <1>4, <1>5, <1>6, <1>7 DEF ImmediateMnemonics

ShiftMnemonics(rd, rs1, sh, regfile, at_pc) ==
  LET a == Reg(regfile, rs1)
      n == ToBits(sh % 32, 32)
  IN  /\ Sets(SLLI(rd, rs1, sh), regfile, at_pc, rd, Alu("sll", a, n))
      /\ Sets(SRLI(rd, rs1, sh), regfile, at_pc, rd, Alu("srl", a, n))
      /\ Sets(SRAI(rd, rs1, sh), regfile, at_pc, rd, Alu("sra", a, n))

\* A shift by an immediate shifts by its lowest five bits, and the marker of
\* SRAI, which is a bit of the immediate too, is no part of the distance.
THEOREM ShiftsMean ==
  ASSUME NEW rd \in 0 .. 31, NEW rs1 \in 0 .. 31, NEW sh \in Int,
         NEW regfile, NEW at_pc
  PROVE  ShiftMnemonics(rd, rs1, sh, regfile, at_pc)
<1> DEFINE a == Reg(regfile, rs1)
           m == sh % 32
           n == ToBits(m, 32)
<1>1. m \in 0 .. 31 /\ m \in Int /\ 1024 + m \in Int
  OBVIOUS
<1> HIDE DEF m
<1>2. /\ Val(n, 5) = m
      /\ Val(Signed12(m), 5) = m /\ Bit(m, 10) = 0
      /\ Val(Signed12(1024 + m), 5) = m /\ Bit(1024 + m, 10) = 1
  BY <1>1, ShiftAmount
<1>3. /\ Alu("sll", a, Signed12(m)) = Alu("sll", a, n)
      /\ Alu("srl", a, Signed12(m)) = Alu("srl", a, n)
      /\ Alu("sra", a, Signed12(1024 + m)) = Alu("sra", a, n)
  BY <1>2 DEF Alu
<1>4. Sets(SLLI(rd, rs1, sh), regfile, at_pc, rd, Alu("sll", a, Signed12(m)))
  <2>1. Sets(EncI(m, rs1, 1, rd, OP_IMM), regfile, at_pc, rd,
             Alu(ImmediateOp(m, 1), a, Signed12(m)))
    BY <1>1, ImmediateFormat, SmallNumbers, Zenon
  <2>2. ImmediateOp(m, 1) = "sll"
    BY OpNames, Zenon
  <2> QED  BY <2>1, <2>2, Zenon DEF SLLI, m
<1>5. Sets(SRLI(rd, rs1, sh), regfile, at_pc, rd, Alu("srl", a, Signed12(m)))
  <2>1. Sets(EncI(m, rs1, 5, rd, OP_IMM), regfile, at_pc, rd,
             Alu(ImmediateOp(m, 5), a, Signed12(m)))
    BY <1>1, ImmediateFormat, SmallNumbers, Zenon
  <2>2. ImmediateOp(m, 5) = "srl"
    BY <1>2, OpNames, Zenon
  <2> QED  BY <2>1, <2>2, Zenon DEF SRLI, m
<1>6. Sets(SRAI(rd, rs1, sh), regfile, at_pc, rd, Alu("sra", a, Signed12(1024 + m)))
  <2> DEFINE x == 1024 + m
  <2>1. x \in Int /\ Bit(x, 10) = 1
    BY <1>1, <1>2
  <2>2. SRAI(rd, rs1, sh) = EncI(x, rs1, 5, rd, OP_IMM)
    BY DEF SRAI, m
  <2> HIDE DEF x
  <2>3. Sets(EncI(x, rs1, 5, rd, OP_IMM), regfile, at_pc, rd,
             Alu(ImmediateOp(x, 5), a, Signed12(x)))
    BY <2>1, ImmediateFormat, SmallNumbers, Zenon
  <2>4. ImmediateOp(x, 5) = "sra"
    BY <2>1, OpNames, Zenon
  <2>5. Sets(SRAI(rd, rs1, sh), regfile, at_pc, rd, Alu("sra", a, Signed12(x)))
    BY <2>2, <2>3, <2>4, Zenon
  <2> QED  BY <2>5 DEF x
<1> QED  BY <1>3, <1>4, <1>5, <1>6 DEF ShiftMnemonics, m

AccessMnemonics(r, rs1, imm, regfile, at_pc) ==
  LET a == Reg(regfile, rs1)
  IN  /\ LoadsFrom(LB(r, rs1, imm), regfile, at_pc, r, a, imm, 0, FALSE)
      /\ LoadsFrom(LH(r, rs1, imm), regfile, at_pc, r, a, imm, 1, FALSE)
      /\ LoadsFrom(LW(r, rs1, imm), regfile, at_pc, r, a, imm, 2, FALSE)
      /\ LoadsFrom(LBU(r, rs1, imm), regfile, at_pc, r, a, imm, 0, TRUE)
      /\ LoadsFrom(LHU(r, rs1, imm), regfile, at_pc, r, a, imm, 1, TRUE)
      /\ StoresTo(SB(r, rs1, imm), regfile, at_pc, r, a, imm, 0)
      /\ StoresTo(SH(r, rs1, imm), regfile, at_pc, r, a, imm, 1)
      /\ StoresTo(SW(r, rs1, imm), regfile, at_pc, r, a, imm, 2)

\* A load or store moves what its mnemonic says, to or from the register named,
\* at the sum of base and immediate.
THEOREM AccessesMean ==
  ASSUME NEW r \in 0 .. 31, NEW rs1 \in 0 .. 31, NEW imm \in Int,
         NEW regfile, NEW at_pc
  PROVE  AccessMnemonics(r, rs1, imm, regfile, at_pc)
<1> DEFINE a == Reg(regfile, rs1)
<1>0. /\ 0 \in {0, 1, 2, 4, 5} /\ 1 \in {0, 1, 2, 4, 5} /\ 2 \in {0, 1, 2, 4, 5}
      /\ 4 \in {0, 1, 2, 4, 5} /\ 5 \in {0, 1, 2, 4, 5}
      /\ 0 \in {0, 1, 2} /\ 1 \in {0, 1, 2} /\ 2 \in {0, 1, 2}
      /\ 0 % 4 = 0 /\ 1 % 4 = 1 /\ 2 % 4 = 2 /\ 4 % 4 = 0 /\ 5 % 4 = 1
      /\ (0 >= 4) = FALSE /\ (1 >= 4) = FALSE /\ (2 >= 4) = FALSE
      /\ (4 >= 4) = TRUE /\ (5 >= 4) = TRUE
  OBVIOUS
<1>1. LoadsFrom(LB(r, rs1, imm), regfile, at_pc, r, a, imm, 0, FALSE)
  BY <1>0, LoadFormat, Zenon DEF LB
<1>2. LoadsFrom(LH(r, rs1, imm), regfile, at_pc, r, a, imm, 1, FALSE)
  BY <1>0, LoadFormat, Zenon DEF LH
<1>3. LoadsFrom(LW(r, rs1, imm), regfile, at_pc, r, a, imm, 2, FALSE)
  BY <1>0, LoadFormat, Zenon DEF LW
<1>4. LoadsFrom(LBU(r, rs1, imm), regfile, at_pc, r, a, imm, 0, TRUE)
  BY <1>0, LoadFormat, Zenon DEF LBU
<1>5. LoadsFrom(LHU(r, rs1, imm), regfile, at_pc, r, a, imm, 1, TRUE)
  BY <1>0, LoadFormat, Zenon DEF LHU
<1>6. StoresTo(SB(r, rs1, imm), regfile, at_pc, r, a, imm, 0)
  BY <1>0, StoreFormat, Zenon DEF SB
<1>7. StoresTo(SH(r, rs1, imm), regfile, at_pc, r, a, imm, 1)
  BY <1>0, StoreFormat, Zenon DEF SH
<1>8. StoresTo(SW(r, rs1, imm), regfile, at_pc, r, a, imm, 2)
  BY <1>0, StoreFormat, Zenon DEF SW
<1> QED  BY <1>1, <1>2, <1>3, <1>4, <1>5, <1>6, <1>7, <1>8 DEF AccessMnemonics

BranchMnemonics(rs1, rs2, from, target, regfile) ==
  LET a == Reg(regfile, rs1)
      b == Reg(regfile, rs2)
      next == (from + 4) % 256
  IN  /\ GoesTo(BEQ(rs1, rs2, from, target), regfile, from, IF a = b THEN target ELSE next)
      /\ GoesTo(BNE(rs1, rs2, from, target), regfile, from, IF a # b THEN target ELSE next)
      /\ GoesTo(BLT(rs1, rs2, from, target), regfile, from,
                IF LessS(a, b) THEN target ELSE next)
      /\ GoesTo(BGE(rs1, rs2, from, target), regfile, from,
                IF LessS(a, b) THEN next ELSE target)
      /\ GoesTo(BLTU(rs1, rs2, from, target), regfile, from,
                IF LessU(a, b) THEN target ELSE next)
      /\ GoesTo(BGEU(rs1, rs2, from, target), regfile, from,
                IF LessU(a, b) THEN next ELSE target)

\* A branch goes to its label exactly when its condition holds, forwards or
\* backwards, wherever on the eight bit bus both are.
THEOREM BranchesMean ==
  ASSUME NEW rs1 \in 0 .. 31, NEW rs2 \in 0 .. 31,
         NEW from \in 0 .. 255, NEW target \in 0 .. 255, (target - from) % 2 = 0,
         NEW regfile
  PROVE  BranchMnemonics(rs1, rs2, from, target, regfile)
<1> DEFINE a == Reg(regfile, rs1)
           b == Reg(regfile, rs2)
           To(c) == IF c THEN target ELSE (from + 4) % 256
<1>1. GoesTo(BEQ(rs1, rs2, from, target), regfile, from, To(CondHolds(0, a, b)))
  BY BranchFormat, SmallNumbers, Zenon DEF BEQ
<1>2. GoesTo(BNE(rs1, rs2, from, target), regfile, from, To(CondHolds(1, a, b)))
  BY BranchFormat, SmallNumbers, Zenon DEF BNE
<1>3. GoesTo(BLT(rs1, rs2, from, target), regfile, from, To(CondHolds(4, a, b)))
  BY BranchFormat, SmallNumbers, Zenon DEF BLT
<1>4. GoesTo(BGE(rs1, rs2, from, target), regfile, from, To(CondHolds(5, a, b)))
  BY BranchFormat, SmallNumbers, Zenon DEF BGE
<1>5. GoesTo(BLTU(rs1, rs2, from, target), regfile, from, To(CondHolds(6, a, b)))
  BY BranchFormat, SmallNumbers, Zenon DEF BLTU
<1>6. GoesTo(BGEU(rs1, rs2, from, target), regfile, from, To(CondHolds(7, a, b)))
  BY BranchFormat, SmallNumbers, Zenon DEF BGEU
<1> HIDE DEF To
<1>7. /\ CondHolds(0, a, b) = (a = b) /\ CondHolds(1, a, b) = (a # b)
      /\ CondHolds(4, a, b) = LessS(a, b) /\ CondHolds(5, a, b) = ~LessS(a, b)
      /\ CondHolds(6, a, b) = LessU(a, b) /\ CondHolds(7, a, b) = ~LessU(a, b)
  BY Conditions
<1>8. /\ GoesTo(BEQ(rs1, rs2, from, target), regfile, from, To(a = b))
      /\ GoesTo(BNE(rs1, rs2, from, target), regfile, from, To(a # b))
      /\ GoesTo(BLT(rs1, rs2, from, target), regfile, from, To(LessS(a, b)))
      /\ GoesTo(BGE(rs1, rs2, from, target), regfile, from, To(~LessS(a, b)))
      /\ GoesTo(BLTU(rs1, rs2, from, target), regfile, from, To(LessU(a, b)))
      /\ GoesTo(BGEU(rs1, rs2, from, target), regfile, from, To(~LessU(a, b)))
  BY <1>1, <1>2, <1>3, <1>4, <1>5, <1>6, <1>7
<1>9. /\ To(~LessS(a, b)) = IF LessS(a, b) THEN (from + 4) % 256 ELSE target
      /\ To(~LessU(a, b)) = IF LessU(a, b) THEN (from + 4) % 256 ELSE target
  BY DEF To
<1> QED  BY <1>8, <1>9 DEF BranchMnemonics, To

JumpMnemonics(rd, rs1, imm, from, target, regfile) ==
  /\ JumpsTo(JAL(rd, from, target), regfile, from, rd, target)
  /\ JumpsTo(JALR(rd, rs1, imm), regfile, from, rd,
             Even((Addr8(Reg(regfile, rs1)) + (imm % 256)) % 256))
  /\ Sets(LUI(rd, imm), regfile, from, rd, Upper(imm))
  /\ Sets(AUIPC(rd, imm), regfile, from, rd, Add(ToBits(from, 32), Upper(imm)))

\* A jump goes to its label, or to the sum of register and immediate, and keeps
\* the address behind it; LUI and AUIPC take any number for their upper bits.
THEOREM JumpsMean ==
  ASSUME NEW rd \in 0 .. 31, NEW rs1 \in 0 .. 31, NEW imm \in Int,
         NEW from \in 0 .. 255, NEW target \in 0 .. 255, (target - from) % 2 = 0,
         NEW regfile
  PROVE  JumpMnemonics(rd, rs1, imm, from, target, regfile)
<1>1. JumpsTo(JAL(rd, from, target), regfile, from, rd, target)
  BY JumpFormat, Zenon
<1>2. JumpsTo(JALR(rd, rs1, imm), regfile, from, rd,
              Even((Addr8(Reg(regfile, rs1)) + (imm % 256)) % 256))
  BY RegisterJumpFormat
<1>3. /\ Sets(LUI(rd, imm), regfile, from, rd, Upper(imm))
      /\ Sets(AUIPC(rd, imm), regfile, from, rd, Add(ToBits(from, 32), Upper(imm)))
  BY UpperFormat, Zenon
<1> QED  BY <1>1, <1>2, <1>3 DEF JumpMnemonics

-----------------------------------------------------------------------------
\* Numbers below 256 in a word.

Num(x) == ToBits(x, 32)

IsNum(v, x) ==
  /\ v = [i \in 0 .. 31 |-> v[i]]
  /\ \A i \in 0 .. 7 : v[i] = Bit(x, i)
  /\ \A i \in 8 .. 31 : v[i] = 0

\* b are the binary digits of x.
Digits(b, x) ==
  /\ \A i \in 0 .. 7 : b[i] \in {0, 1}
  /\ x = b[0] + 2 * b[1] + 4 * b[2] + 8 * b[3] + 16 * b[4] + 32 * b[5]
           + 64 * b[6] + 128 * b[7]

LEMMA OneOfEight ==
  \A i \in 0 .. 7 : \/ i = 0 \/ i = 1 \/ i = 2 \/ i = 3
                    \/ i = 4 \/ i = 5 \/ i = 6 \/ i = 7
OBVIOUS

LEMMA BitsAreDigits ==
  ASSUME NEW x \in 0 .. 255, NEW b, \A i \in 0 .. 7 : b[i] = Bit(x, i)
  PROVE  Digits(b, x)
<1>1. Val(b, 8) = x
  BY Field8
<1>2. \A i \in 0 .. 7 : b[i] \in {0, 1}
  <2>1. /\ Bit(x, 0) \in {0, 1} /\ Bit(x, 1) \in {0, 1} /\ Bit(x, 2) \in {0, 1}
        /\ Bit(x, 3) \in {0, 1} /\ Bit(x, 4) \in {0, 1} /\ Bit(x, 5) \in {0, 1}
        /\ Bit(x, 6) \in {0, 1} /\ Bit(x, 7) \in {0, 1}
    BY PowersOfTwo DEF Bit
  <2> QED  BY <2>1, OneOfEight
<1> QED  BY <1>1, <1>2 DEF Digits, Val

\* Division by a power of two drops the digits below.
LEMMA Quotients ==
  \A t \in Nat :
    /\ \A l \in 0 .. 1   : (2 * t + l) \div 2 = t /\ (2 * t + l) % 2 = l
    /\ \A l \in 0 .. 3   : (4 * t + l) \div 4 = t
    /\ \A l \in 0 .. 7   : (8 * t + l) \div 8 = t
    /\ \A l \in 0 .. 15  : (16 * t + l) \div 16 = t
    /\ \A l \in 0 .. 31  : (32 * t + l) \div 32 = t
    /\ \A l \in 0 .. 63  : (64 * t + l) \div 64 = t
    /\ \A l \in 0 .. 127 : (128 * t + l) \div 128 = t
OBVIOUS

LEMMA DigitsAreBits ==
  ASSUME NEW x, NEW b, Digits(b, x)
  PROVE  x \in 0 .. 255 /\ \A i \in 0 .. 7 : b[i] = Bit(x, i)
<1> DEFINE b0 == b[0]
           b1 == b[1]
           b2 == b[2]
           b3 == b[3]
           b4 == b[4]
           b5 == b[5]
           b6 == b[6]
           b7 == b[7]
           t6 == 2 * b7 + b6
           t5 == 2 * t6 + b5
           t4 == 2 * t5 + b4
           t3 == 2 * t4 + b3
           t2 == 2 * t3 + b2
           t1 == 2 * t2 + b1
<1>1. /\ b0 \in 0 .. 1 /\ b1 \in 0 .. 1 /\ b2 \in 0 .. 1 /\ b3 \in 0 .. 1
      /\ b4 \in 0 .. 1 /\ b5 \in 0 .. 1 /\ b6 \in 0 .. 1 /\ b7 \in 0 .. 1
      /\ x = b0 + 2 * b1 + 4 * b2 + 8 * b3 + 16 * b4 + 32 * b5 + 64 * b6 + 128 * b7
  BY DEF Digits
<1> HIDE DEF b0, b1, b2, b3, b4, b5, b6, b7
<1>2. /\ t1 \in Nat /\ t2 \in Nat /\ t3 \in Nat /\ t4 \in Nat /\ t5 \in Nat /\ t6 \in Nat
      /\ b7 \in Nat
  BY <1>1
<1>3. /\ x = 2 * t1 + b0
      /\ x = 4 * t2 + (b0 + 2 * b1)
      /\ x = 8 * t3 + (b0 + 2 * b1 + 4 * b2)
      /\ x = 16 * t4 + (b0 + 2 * b1 + 4 * b2 + 8 * b3)
      /\ x = 32 * t5 + (b0 + 2 * b1 + 4 * b2 + 8 * b3 + 16 * b4)
      /\ x = 64 * t6 + (b0 + 2 * b1 + 4 * b2 + 8 * b3 + 16 * b4 + 32 * b5)
      /\ x = 128 * b7 + (b0 + 2 * b1 + 4 * b2 + 8 * b3 + 16 * b4 + 32 * b5 + 64 * b6)
  BY <1>1
<1>4. /\ b0 + 2 * b1 \in 0 .. 3
      /\ b0 + 2 * b1 + 4 * b2 \in 0 .. 7
      /\ b0 + 2 * b1 + 4 * b2 + 8 * b3 \in 0 .. 15
      /\ b0 + 2 * b1 + 4 * b2 + 8 * b3 + 16 * b4 \in 0 .. 31
      /\ b0 + 2 * b1 + 4 * b2 + 8 * b3 + 16 * b4 + 32 * b5 \in 0 .. 63
      /\ b0 + 2 * b1 + 4 * b2 + 8 * b3 + 16 * b4 + 32 * b5 + 64 * b6 \in 0 .. 127
      /\ x \in 0 .. 255
  BY <1>1
<1>5. /\ t1 % 2 = b1 /\ t2 % 2 = b2 /\ t3 % 2 = b3 /\ t4 % 2 = b4 /\ t5 % 2 = b5
      /\ t6 % 2 = b6 /\ b7 % 2 = b7 /\ x % 2 = b0
  <2>2. b7 % 2 = b7
    BY <1>1
  <2>3. t6 % 2 = b6
    BY <1>1, <1>2, Quotients, Zenon
  <2> HIDE DEF t6
  <2>4. t5 % 2 = b5
    BY <1>1, <1>2, Quotients, Zenon
  <2> HIDE DEF t5
  <2>5. t4 % 2 = b4
    BY <1>1, <1>2, Quotients, Zenon
  <2> HIDE DEF t4
  <2>6. t3 % 2 = b3
    BY <1>1, <1>2, Quotients, Zenon
  <2> HIDE DEF t3
  <2>7. t2 % 2 = b2
    BY <1>1, <1>2, Quotients, Zenon
  <2> HIDE DEF t2
  <2>8. t1 % 2 = b1
    BY <1>1, <1>2, Quotients, Zenon
  <2> HIDE DEF t1
  <2>1. x % 2 = b0
    <3>1. x = 2 * t1 + b0 /\ t1 \in Nat /\ b0 \in 0 .. 1
      BY <1>1, <1>2, <1>3
    <3> QED  BY <3>1
  <2> QED  BY <2>1, <2>2, <2>3, <2>4, <2>5, <2>6, <2>7, <2>8
<1> HIDE DEF t1, t2, t3, t4, t5, t6
<1>6. /\ x \div 2 = t1 /\ x \div 4 = t2 /\ x \div 8 = t3 /\ x \div 16 = t4
      /\ x \div 32 = t5 /\ x \div 64 = t6 /\ x \div 128 = b7
  <2>1. x \div 2 = t1
    <3> DEFINE l == b0
    <3>1. x = 2 * t1 + l /\ l \in 0 .. 1 /\ t1 \in Nat
      BY <1>1, <1>2, <1>3, <1>4
    <3> HIDE DEF l
    <3> QED  BY <3>1
  <2>2. x \div 4 = t2
    <3> DEFINE l == b0 + 2 * b1
    <3>1. x = 4 * t2 + l /\ l \in 0 .. 3 /\ t2 \in Nat
      BY <1>1, <1>2, <1>3, <1>4
    <3> HIDE DEF l
    <3> QED  BY <3>1
  <2>3. x \div 8 = t3
    <3> DEFINE l == b0 + 2 * b1 + 4 * b2
    <3>1. x = 8 * t3 + l /\ l \in 0 .. 7 /\ t3 \in Nat
      BY <1>1, <1>2, <1>3, <1>4
    <3> HIDE DEF l
    <3> QED  BY <3>1
  <2>4. x \div 16 = t4
    <3> DEFINE l == b0 + 2 * b1 + 4 * b2 + 8 * b3
    <3>1. x = 16 * t4 + l /\ l \in 0 .. 15 /\ t4 \in Nat
      BY <1>1, <1>2, <1>3, <1>4
    <3> HIDE DEF l
    <3> QED  BY <3>1
  <2>5. x \div 32 = t5
    <3> DEFINE l == b0 + 2 * b1 + 4 * b2 + 8 * b3 + 16 * b4
    <3>1. x = 32 * t5 + l /\ l \in 0 .. 31 /\ t5 \in Nat
      BY <1>1, <1>2, <1>3, <1>4
    <3> HIDE DEF l
    <3> QED  BY <3>1
  <2>6. x \div 64 = t6
    <3> DEFINE l == b0 + 2 * b1 + 4 * b2 + 8 * b3 + 16 * b4 + 32 * b5
    <3>1. x = 64 * t6 + l /\ l \in 0 .. 63 /\ t6 \in Nat
      BY <1>1, <1>2, <1>3, <1>4
    <3> HIDE DEF l
    <3> QED  BY <3>1
  <2>7. x \div 128 = b7
    <3> DEFINE l == b0 + 2 * b1 + 4 * b2 + 8 * b3 + 16 * b4 + 32 * b5 + 64 * b6
    <3>1. x = 128 * b7 + l /\ l \in 0 .. 127 /\ b7 \in Nat
      BY <1>1, <1>2, <1>3, <1>4
    <3> HIDE DEF l
    <3> QED  BY <3>1
  <2> QED  BY <2>1, <2>2, <2>3, <2>4, <2>5, <2>6, <2>7
<1>7. x \in Int
  BY <1>4
<1>8. /\ b0 = Bit(x, 0) /\ b1 = Bit(x, 1) /\ b2 = Bit(x, 2) /\ b3 = Bit(x, 3)
      /\ b4 = Bit(x, 4) /\ b5 = Bit(x, 5) /\ b6 = Bit(x, 6) /\ b7 = Bit(x, 7)
  BY <1>5, <1>6, <1>7, PowersOfTwo DEF Bit
<1>9. \A i \in 0 .. 7 : b[i] = Bit(x, i)
  BY <1>8, OneOfEight, Zenon DEF b0, b1, b2, b3, b4, b5, b6, b7
<1> QED  BY <1>4, <1>9

LEMMA HighBitsZero ==
  ASSUME NEW x \in 0 .. 255
  PROVE  \A i \in 8 .. 29 : (x \div 2^i) % 2 = 0
<1>1. /\ x \div 256 = 0 /\ x \div 512 = 0 /\ x \div 1024 = 0 /\ x \div 2048 = 0
      /\ x \div 4096 = 0 /\ x \div 8192 = 0 /\ x \div 16384 = 0 /\ x \div 32768 = 0
      /\ x \div 65536 = 0 /\ x \div 131072 = 0 /\ x \div 262144 = 0 /\ x \div 524288 = 0
      /\ x \div 1048576 = 0 /\ x \div 2097152 = 0 /\ x \div 4194304 = 0
      /\ x \div 8388608 = 0 /\ x \div 16777216 = 0 /\ x \div 33554432 = 0
      /\ x \div 67108864 = 0 /\ x \div 134217728 = 0 /\ x \div 268435456 = 0
      /\ x \div 536870912 = 0
  OBVIOUS
<1>2. /\ 2^24 = 16777216 /\ 2^25 = 33554432 /\ 2^26 = 67108864 /\ 2^27 = 134217728
      /\ 2^28 = 268435456 /\ 2^29 = 536870912
  OBVIOUS
<1>3. \A i \in 8 .. 29 : \/ i = 8 \/ i = 9 \/ i = 10 \/ i = 11 \/ i = 12 \/ i = 13
                         \/ i = 14 \/ i = 15 \/ i = 16 \/ i = 17 \/ i = 18 \/ i = 19
                         \/ i = 20 \/ i = 21 \/ i = 22 \/ i = 23 \/ i = 24 \/ i = 25
                         \/ i = 26 \/ i = 27 \/ i = 28 \/ i = 29
  OBVIOUS
<1>4. /\ x \div 2^8 = 0 /\ x \div 2^9 = 0 /\ x \div 2^10 = 0 /\ x \div 2^11 = 0
      /\ x \div 2^12 = 0 /\ x \div 2^13 = 0 /\ x \div 2^14 = 0 /\ x \div 2^15 = 0
      /\ x \div 2^16 = 0 /\ x \div 2^17 = 0 /\ x \div 2^18 = 0 /\ x \div 2^19 = 0
      /\ x \div 2^20 = 0 /\ x \div 2^21 = 0 /\ x \div 2^22 = 0 /\ x \div 2^23 = 0
      /\ x \div 2^24 = 0 /\ x \div 2^25 = 0 /\ x \div 2^26 = 0 /\ x \div 2^27 = 0
      /\ x \div 2^28 = 0 /\ x \div 2^29 = 0
  BY <1>1, <1>2, PowersOfTwo
<1>5. \A i \in 8 .. 29 : x \div 2^i = 0
  BY <1>3, <1>4, Zenon
<1> SUFFICES ASSUME NEW i \in 8 .. 29 PROVE (x \div 2^i) % 2 = 0
  OBVIOUS
<1>6. x \div 2^i = 0
  BY <1>5, Zenon
<1>7. 0 % 2 = 0
  OBVIOUS
<1> QED  BY <1>6, <1>7, Zenon

LEMMA NumIsNum ==
  ASSUME NEW x \in 0 .. 255
  PROVE  IsNum(Num(x), x)
<1>1. \A i \in 0 .. 7 : Num(x)[i] = Bit(x, i)
  BY DEF Num, ToBits, Bit
<1>2. \A i \in 8 .. 31 : Num(x)[i] = 0
  <2> SUFFICES ASSUME NEW i \in 8 .. 31 PROVE Num(x)[i] = 0
    OBVIOUS
  <2>1. Num(x)[i] = IF i < 30 THEN (x \div 2^i) % 2 ELSE 0
    BY DEF Num, ToBits
  <2>2. i < 30 => i \in 8 .. 29
    OBVIOUS
  <2> QED  BY <2>1, <2>2, HighBitsZero
<1>3. Num(x) = [i \in 0 .. 31 |-> Num(x)[i]]
  BY DEF Num, ToBits
<1> QED  BY <1>1, <1>2, <1>3 DEF IsNum

LEMMA IsNumIsNum ==
  ASSUME NEW x \in 0 .. 255, NEW v, IsNum(v, x)
  PROVE  v = Num(x)
<1>1. IsNum(Num(x), x)
  BY NumIsNum
<1>2. \A i \in 0 .. 31 : v[i] = Num(x)[i]
  <2>1. \A i \in 0 .. 31 : i \in 0 .. 7 \/ i \in 8 .. 31
    OBVIOUS
  <2> QED  BY <1>1, <2>1 DEF IsNum
<1>3. v = [i \in 0 .. 31 |-> v[i]] /\ Num(x) = [i \in 0 .. 31 |-> Num(x)[i]]
  BY <1>1 DEF IsNum
<1> HIDE DEF Num
<1>4. [i \in 0 .. 31 |-> v[i]] = [i \in 0 .. 31 |-> Num(x)[i]]
  BY <1>2
<1> QED  BY <1>3, <1>4

\* What a word made of a byte is, and a byte made of a word.
LEMMA NumFacts ==
  ASSUME NEW x \in 0 .. 255
  PROVE  /\ Val(Num(x), 8) = x
         /\ Lane(Num(x), 0) = ToBits(x, 8)
         /\ Wide(ToBits(x, 8)) = Num(x)
         /\ Val(ToBits(x, 8), 8) = x
<1>0. IsNum(Num(x), x)
  BY NumIsNum, ZenonT(30)
<1>1. Val(Num(x), 8) = x
  BY <1>0, Field8 DEF IsNum
<1>2. Lane(Num(x), 0) = ToBits(x, 8)
  BY DEF Lane, Num, ToBits
<1>3. Wide(ToBits(x, 8)) = Num(x)
  <2> DEFINE v == Wide(ToBits(x, 8))
  <2>1. IsNum(v, x)
    BY DEF IsNum, Wide, ToBits, Bit
  <2> QED  BY <2>1, IsNumIsNum
<1>4. Val(ToBits(x, 8), 8) = x
  <2>1. \A i \in 0 .. 7 : ToBits(x, 8)[i] = Bit(x, i)
    BY DEF ToBits, Bit
  <2> QED  BY <2>1, Field8
<1> QED  BY <1>1, <1>2, <1>3, <1>4

Binary(v) == \A k \in 0 .. 31 : v[k] \in {0, 1}

\* The adder: a carry is what the bit below leaves.
LEMMA CarryStep ==
  ASSUME NEW a, NEW b, Binary(a), Binary(b),
         NEW i \in 0 .. 31
  PROVE  /\ Carry(a, b, 0, 0) = 0
         /\ Carry(a, b, 0, i) \in {0, 1}
         /\ Carry(a, b, 0, i + 1) = (a[i] + b[i] + Carry(a, b, 0, i)) \div 2
<1> DEFINE passed(lo, n) == \A k \in lo .. n - 1 : a[k] + b[k] > 0
           made(n) == \E j \in 0 .. n - 1 : a[j] + b[j] = 2 /\ passed(j + 1, n)
<1>1. \A n : Carry(a, b, 0, n) = IF made(n) THEN 1 ELSE 0
  BY DEF Carry
<1>2. ~made(0)
  OBVIOUS
<1>3. made(i + 1) <=> a[i] + b[i] = 2 \/ (made(i) /\ a[i] + b[i] > 0)
  <2>1. \A j \in 0 .. i - 1 : passed(j + 1, i + 1) <=> passed(j + 1, i) /\ a[i] + b[i] > 0
    BY DEF Binary
  <2>2. passed(i + 1, i + 1)
    OBVIOUS
  <2>3. \A j : j \in 0 .. (i + 1) - 1 <=> j \in 0 .. i - 1 \/ j = i
    OBVIOUS
  <2> HIDE DEF passed
  <2> QED  BY <2>1, <2>2, <2>3
<1> HIDE DEF made
<1>4. a[i] \in {0, 1} /\ b[i] \in {0, 1}
  BY DEF Binary
<1> QED  BY <1>1, <1>2, <1>3, <1>4

LowByteIs(v, x) == x \in 0 .. 255 /\ \A i \in 0 .. 7 : v[i] = Bit(x, i)

\* Eight places of a sum, with a carry from each to the next.
LEMMA EightPlaces ==
  ASSUME NEW a0 \in Int, NEW a1 \in Int, NEW a2 \in Int, NEW a3 \in Int,
         NEW a4 \in Int, NEW a5 \in Int, NEW a6 \in Int, NEW a7 \in Int,
         NEW r0 \in Int, NEW r1 \in Int, NEW r2 \in Int, NEW r3 \in Int,
         NEW r4 \in Int, NEW r5 \in Int, NEW r6 \in Int, NEW r7 \in Int,
         NEW c1 \in Int, NEW c2 \in Int, NEW c3 \in Int, NEW c4 \in Int,
         NEW c5 \in Int, NEW c6 \in Int, NEW c7 \in Int, NEW c8 \in Int,
         a0 = r0 + 2 * c1, a1 + c1 = r1 + 2 * c2, a2 + c2 = r2 + 2 * c3,
         a3 + c3 = r3 + 2 * c4, a4 + c4 = r4 + 2 * c5, a5 + c5 = r5 + 2 * c6,
         a6 + c6 = r6 + 2 * c7, a7 + c7 = r7 + 2 * c8
  PROVE  a0 + 2 * a1 + 4 * a2 + 8 * a3 + 16 * a4 + 32 * a5 + 64 * a6 + 128 * a7
           = r0 + 2 * r1 + 4 * r2 + 8 * r3 + 16 * r4 + 32 * r5 + 64 * r6 + 128 * r7
               + 256 * c8
OBVIOUS

\* The sum of the low bytes of two words, and the carry out of them.
LEMMA ByteSum ==
  ASSUME NEW a, NEW b, Binary(a), Binary(b),
         NEW x, NEW y, LowByteIs(a, x), LowByteIs(b, y)
  PROVE  LowByteIs(Add(a, b), x + y - 256 * Carry(a, b, 0, 8))
<1> DEFINE c(i) == Carry(a, b, 0, i)
           r == Add(a, b)
           s == x + y - 256 * c(8)
<1>1. Digits(a, x) /\ Digits(b, y) /\ x \in 0 .. 255 /\ y \in 0 .. 255
  BY BitsAreDigits DEF LowByteIs
<1>2. c(0) = 0 /\ \A i \in 0 .. 31 : c(i) \in {0, 1} /\ c(i + 1) = (a[i] + b[i] + c(i)) \div 2
  BY CarryStep
<1>3. \A i \in 0 .. 31 : r[i] = (a[i] + b[i] + c(i)) % 2
  BY DEF Add, AddC
<1> HIDE DEF c, r
<1>4. \A i \in 0 .. 31 : r[i] \in {0, 1} /\ a[i] + b[i] + c(i) = r[i] + 2 * c(i + 1)
  BY <1>2, <1>3 DEF Binary
<1>5. /\ a[0] + b[0] + c(0) = r[0] + 2 * c(1) /\ a[1] + b[1] + c(1) = r[1] + 2 * c(2)
      /\ a[2] + b[2] + c(2) = r[2] + 2 * c(3) /\ a[3] + b[3] + c(3) = r[3] + 2 * c(4)
      /\ a[4] + b[4] + c(4) = r[4] + 2 * c(5) /\ a[5] + b[5] + c(5) = r[5] + 2 * c(6)
      /\ a[6] + b[6] + c(6) = r[6] + 2 * c(7) /\ a[7] + b[7] + c(7) = r[7] + 2 * c(8)
  <2>1. /\ 0 + 1 = 1 /\ 1 + 1 = 2 /\ 2 + 1 = 3 /\ 3 + 1 = 4 /\ 4 + 1 = 5 /\ 5 + 1 = 6
        /\ 6 + 1 = 7 /\ 7 + 1 = 8
    OBVIOUS
  <2>2. \A i \in 0 .. 7 : i \in 0 .. 31
    OBVIOUS
  <2>3. /\ 0 \in 0 .. 7 /\ 1 \in 0 .. 7 /\ 2 \in 0 .. 7 /\ 3 \in 0 .. 7 /\ 4 \in 0 .. 7
        /\ 5 \in 0 .. 7 /\ 6 \in 0 .. 7 /\ 7 \in 0 .. 7
    OBVIOUS
  <2> QED  BY <1>4, <2>1, <2>2, <2>3, Zenon
<1>6. /\ c(1) \in {0, 1} /\ c(2) \in {0, 1} /\ c(3) \in {0, 1} /\ c(4) \in {0, 1}
      /\ c(5) \in {0, 1} /\ c(6) \in {0, 1} /\ c(7) \in {0, 1} /\ c(8) \in {0, 1}
  BY <1>2
<1>7. \A i \in 0 .. 7 : r[i] \in {0, 1}
  BY <1>4
<1>8. /\ r[0] \in {0, 1} /\ r[1] \in {0, 1} /\ r[2] \in {0, 1} /\ r[3] \in {0, 1}
      /\ r[4] \in {0, 1} /\ r[5] \in {0, 1} /\ r[6] \in {0, 1} /\ r[7] \in {0, 1}
  BY <1>7
<1>9. s = r[0] + 2 * r[1] + 4 * r[2] + 8 * r[3] + 16 * r[4] + 32 * r[5]
            + 64 * r[6] + 128 * r[7]
  <2>1. /\ a[0] \in {0, 1} /\ a[1] \in {0, 1} /\ a[2] \in {0, 1} /\ a[3] \in {0, 1}
        /\ a[4] \in {0, 1} /\ a[5] \in {0, 1} /\ a[6] \in {0, 1} /\ a[7] \in {0, 1}
        /\ b[0] \in {0, 1} /\ b[1] \in {0, 1} /\ b[2] \in {0, 1} /\ b[3] \in {0, 1}
        /\ b[4] \in {0, 1} /\ b[5] \in {0, 1} /\ b[6] \in {0, 1} /\ b[7] \in {0, 1}
    BY DEF Binary
  <2>2. /\ x = a[0] + 2 * a[1] + 4 * a[2] + 8 * a[3] + 16 * a[4] + 32 * a[5]
                 + 64 * a[6] + 128 * a[7]
        /\ y = b[0] + 2 * b[1] + 4 * b[2] + 8 * b[3] + 16 * b[4] + 32 * b[5]
                 + 64 * b[6] + 128 * b[7]
    BY <1>1 DEF Digits
  <2> DEFINE a0 == a[0] + b[0]
             a1 == a[1] + b[1]
             a2 == a[2] + b[2]
             a3 == a[3] + b[3]
             a4 == a[4] + b[4]
             a5 == a[5] + b[5]
             a6 == a[6] + b[6]
             a7 == a[7] + b[7]
             r0 == r[0]
             r1 == r[1]
             r2 == r[2]
             r3 == r[3]
             r4 == r[4]
             r5 == r[5]
             r6 == r[6]
             r7 == r[7]
             c1 == c(1)
             c2 == c(2)
             c3 == c(3)
             c4 == c(4)
             c5 == c(5)
             c6 == c(6)
             c7 == c(7)
             c8 == c(8)
  <2>3. /\ a0 \in Int /\ a1 \in Int /\ a2 \in Int /\ a3 \in Int
        /\ a4 \in Int /\ a5 \in Int /\ a6 \in Int /\ a7 \in Int
    BY <2>1
  <2>4. /\ r0 \in Int /\ r1 \in Int /\ r2 \in Int /\ r3 \in Int
        /\ r4 \in Int /\ r5 \in Int /\ r6 \in Int /\ r7 \in Int
    BY <1>8
  <2>5. /\ c1 \in Int /\ c2 \in Int /\ c3 \in Int /\ c4 \in Int
        /\ c5 \in Int /\ c6 \in Int /\ c7 \in Int /\ c8 \in Int
    BY <1>6
  <2>6. /\ a0 = r0 + 2 * c1 /\ a1 + c1 = r1 + 2 * c2 /\ a2 + c2 = r2 + 2 * c3
        /\ a3 + c3 = r3 + 2 * c4 /\ a4 + c4 = r4 + 2 * c5 /\ a5 + c5 = r5 + 2 * c6
        /\ a6 + c6 = r6 + 2 * c7 /\ a7 + c7 = r7 + 2 * c8
    BY <1>2, <1>5, <2>3
  <2>7. x + y = a0 + 2 * a1 + 4 * a2 + 8 * a3 + 16 * a4 + 32 * a5 + 64 * a6 + 128 * a7
    <3> DEFINE p0 == a[0]
               p1 == a[1]
               p2 == a[2]
               p3 == a[3]
               p4 == a[4]
               p5 == a[5]
               p6 == a[6]
               p7 == a[7]
               q0 == b[0]
               q1 == b[1]
               q2 == b[2]
               q3 == b[3]
               q4 == b[4]
               q5 == b[5]
               q6 == b[6]
               q7 == b[7]
    <3>1. /\ p0 \in Int /\ p1 \in Int /\ p2 \in Int /\ p3 \in Int
          /\ p4 \in Int /\ p5 \in Int /\ p6 \in Int /\ p7 \in Int
          /\ q0 \in Int /\ q1 \in Int /\ q2 \in Int /\ q3 \in Int
          /\ q4 \in Int /\ q5 \in Int /\ q6 \in Int /\ q7 \in Int
      BY <2>1
    <3>2. /\ x = p0 + 2 * p1 + 4 * p2 + 8 * p3 + 16 * p4 + 32 * p5 + 64 * p6 + 128 * p7
          /\ y = q0 + 2 * q1 + 4 * q2 + 8 * q3 + 16 * q4 + 32 * q5 + 64 * q6 + 128 * q7
      BY <2>2
    <3>3. /\ a0 = p0 + q0 /\ a1 = p1 + q1 /\ a2 = p2 + q2 /\ a3 = p3 + q3
          /\ a4 = p4 + q4 /\ a5 = p5 + q5 /\ a6 = p6 + q6 /\ a7 = p7 + q7
      OBVIOUS
    <3> HIDE DEF p0, p1, p2, p3, p4, p5, p6, p7, q0, q1, q2, q3, q4, q5, q6, q7,
                 a0, a1, a2, a3, a4, a5, a6, a7
    <3> QED  BY <3>1, <3>2, <3>3
  <2> HIDE DEF a0, a1, a2, a3, a4, a5, a6, a7, r0, r1, r2, r3, r4, r5, r6, r7,
               c1, c2, c3, c4, c5, c6, c7, c8
  <2>8. a0 + 2 * a1 + 4 * a2 + 8 * a3 + 16 * a4 + 32 * a5 + 64 * a6 + 128 * a7
           = r0 + 2 * r1 + 4 * r2 + 8 * r3 + 16 * r4 + 32 * r5 + 64 * r6 + 128 * r7
               + 256 * c8
    BY <2>3, <2>4, <2>5, <2>6, EightPlaces
  <2>9. s = r0 + 2 * r1 + 4 * r2 + 8 * r3 + 16 * r4 + 32 * r5 + 64 * r6 + 128 * r7
    <3>1. s = x + y - 256 * c8
      BY DEF c8
    <3> HIDE DEF s
    <3> QED  BY <1>1, <2>3, <2>4, <2>5, <2>7, <2>8, <3>1
  <2> QED  BY <2>9 DEF r0, r1, r2, r3, r4, r5, r6, r7
<1> HIDE DEF s
<1>10. Digits(r, s)
  BY <1>7, <1>9 DEF Digits
<1>11. s \in 0 .. 255 /\ \A i \in 0 .. 7 : r[i] = Bit(s, i)
  BY <1>10, DigitsAreBits
<1> QED  BY <1>11 DEF r, s, c, LowByteIs

\* A carry that stays as it is, bit by bit.
LEMMA CarryKept ==
  ASSUME NEW a, NEW b, NEW c \in {0, 1},
         Binary(a), Binary(b),
         Carry(a, b, 0, 8) = c, \A k \in 8 .. 31 : a[k] = 0 /\ b[k] = c
  PROVE  \A i \in 8 .. 31 : Carry(a, b, 0, i) = c /\ Add(a, b)[i] = 0
<1> DEFINE K(i) == Carry(a, b, 0, i) = c
<1>1. \A i \in 8 .. 31 : K(i) => K(i + 1)
  <2> SUFFICES ASSUME NEW i \in 8 .. 31, K(i) PROVE K(i + 1)
    OBVIOUS
  <2>1. Carry(a, b, 0, i + 1) = (a[i] + b[i] + Carry(a, b, 0, i)) \div 2
    <3>1. i \in 0 .. 31
      OBVIOUS
    <3> QED  BY <3>1, CarryStep
  <2>2. a[i] + b[i] + Carry(a, b, 0, i) = 2 * c
    OBVIOUS
  <2> QED  BY <2>1, <2>2
<1>2. K(8)
  OBVIOUS
<1>3. \A i \in 8 .. 31 : K(i) => Add(a, b)[i] = 0
  <2> SUFFICES ASSUME NEW i \in 8 .. 31, K(i) PROVE Add(a, b)[i] = 0
    OBVIOUS
  <2>1. Add(a, b)[i] = (a[i] + b[i] + Carry(a, b, 0, i)) % 2
    BY DEF Add, AddC
  <2>2. a[i] + b[i] + Carry(a, b, 0, i) = 2 * c
    OBVIOUS
  <2> QED  BY <2>1, <2>2
<1> HIDE DEF K
<1>4. /\ K(8) /\ K(9) /\ K(10) /\ K(11) /\ K(12) /\ K(13) /\ K(14) /\ K(15) /\ K(16)
      /\ K(17) /\ K(18) /\ K(19) /\ K(20) /\ K(21) /\ K(22) /\ K(23) /\ K(24) /\ K(25)
      /\ K(26) /\ K(27) /\ K(28) /\ K(29) /\ K(30) /\ K(31)
  <2>1. K(8) /\ K(9) /\ K(10) /\ K(11) /\ K(12) /\ K(13) /\ K(14) /\ K(15)
    BY <1>1, <1>2
  <2>2. K(16) /\ K(17) /\ K(18) /\ K(19) /\ K(20) /\ K(21) /\ K(22) /\ K(23)
    BY <1>1, <2>1
  <2>3. K(24) /\ K(25) /\ K(26) /\ K(27) /\ K(28) /\ K(29) /\ K(30) /\ K(31)
    BY <1>1, <2>2
  <2> QED  BY <2>1, <2>2, <2>3
<1>5. \A i \in 8 .. 31 : K(i)
  <2>1. \A i \in 8 .. 15 : \/ i = 8 \/ i = 9 \/ i = 10 \/ i = 11
                          \/ i = 12 \/ i = 13 \/ i = 14 \/ i = 15
    OBVIOUS
  <2>2. \A i \in 16 .. 23 : \/ i = 16 \/ i = 17 \/ i = 18 \/ i = 19
                           \/ i = 20 \/ i = 21 \/ i = 22 \/ i = 23
    OBVIOUS
  <2>3. \A i \in 24 .. 31 : \/ i = 24 \/ i = 25 \/ i = 26 \/ i = 27
                           \/ i = 28 \/ i = 29 \/ i = 30 \/ i = 31
    OBVIOUS
  <2>4. \A i \in 8 .. 31 : i \in 8 .. 15 \/ i \in 16 .. 23 \/ i \in 24 .. 31
    OBVIOUS
  <2>5. \A i \in 8 .. 15 : K(i)
    BY <1>4, <2>1, Zenon
  <2>6. \A i \in 16 .. 23 : K(i)
    BY <1>4, <2>2, Zenon
  <2>7. \A i \in 24 .. 31 : K(i)
    BY <1>4, <2>3, Zenon
  <2> QED  BY <2>4, <2>5, <2>6, <2>7, Zenon
<1> QED  BY <1>3, <1>5 DEF K

LEMMA SignedFacts ==
  /\ \A x \in 0 .. 255 : Signed12(x) = Num(x)
  /\ \A i \in 0 .. 31 : Signed12(-1)[i] = 1
<1>1. ASSUME NEW x \in 0 .. 255 PROVE Signed12(x) = Num(x)
  <2>1. Bit(x, 8) = 0 /\ Bit(x, 9) = 0 /\ Bit(x, 10) = 0 /\ Bit(x, 11) = 0
    BY PowersOfTwo DEF Bit
  <2>2. \A i \in 0 .. 7 : Signed12(x)[i] = Bit(x, i)
    BY DEF Signed12
  <2>3. \A i \in 8 .. 31 : Signed12(x)[i] = 0
    BY <2>1 DEF Signed12
  <2>4. Signed12(x) = [i \in 0 .. 31 |-> Signed12(x)[i]]
    BY DEF Signed12
  <2>5. IsNum(Signed12(x), x)
    BY <2>2, <2>3, <2>4, Zenon DEF IsNum
  <2> QED  BY <2>5, IsNumIsNum
<1>2. \A i \in 0 .. 31 : Signed12(-1)[i] = 1
  <2>1. /\ Bit(-1, 0) = 1 /\ Bit(-1, 1) = 1 /\ Bit(-1, 2) = 1 /\ Bit(-1, 3) = 1
        /\ Bit(-1, 4) = 1 /\ Bit(-1, 5) = 1 /\ Bit(-1, 6) = 1 /\ Bit(-1, 7) = 1
        /\ Bit(-1, 8) = 1 /\ Bit(-1, 9) = 1 /\ Bit(-1, 10) = 1 /\ Bit(-1, 11) = 1
    BY BitPlaces
  <2>2. \A i \in 0 .. 11 : Bit(-1, i) = 1
    <3>1. \A i \in 0 .. 11 : i \in 0 .. 7 \/ i = 8 \/ i = 9 \/ i = 10 \/ i = 11
      OBVIOUS
    <3> QED  BY <2>1, <3>1, OneOfEight, Zenon
  <2> QED  BY <2>2 DEF Signed12
<1> QED  BY <1>1, <1>2

\* What the adder computes.
LEMMA AddNums ==
  /\ \A x, y \in 0 .. 255 : x + y <= 255 => Add(Num(x), Num(y)) = Num(x + y)
  /\ \A x \in 1 .. 255 : Add(Num(x), Signed12(-1)) = Num(x - 1)
<1>0. \A u, v : Add(u, v) = [i \in 0 .. 31 |-> Add(u, v)[i]]
  BY DEF Add, AddC
<1>1. ASSUME NEW x \in 0 .. 255, NEW y \in 0 .. 255, x + y <= 255
      PROVE  Add(Num(x), Num(y)) = Num(x + y)
  <2> DEFINE a == Num(x)
             b == Num(y)
             c == Carry(a, b, 0, 8)
             s == x + y - 256 * c
  <2>1. IsNum(a, x) /\ IsNum(b, y)
    BY NumIsNum
  <2>2. Binary(a) /\ Binary(b)
    BY DEF Binary, Num, ToBits
  <2>3. c \in {0, 1}
    <3>1. 8 \in 0 .. 31
      OBVIOUS
    <3> HIDE DEF a, b
    <3> QED  BY <2>2, <3>1, CarryStep
  <2> HIDE DEF a, b
  <2>4. s \in 0 .. 255 /\ \A i \in 0 .. 7 : Add(a, b)[i] = Bit(s, i)
    <3>1. LowByteIs(a, x) /\ LowByteIs(b, y)
      BY <2>1 DEF IsNum, LowByteIs
    <3>2. LowByteIs(Add(a, b), x + y - 256 * Carry(a, b, 0, 8))
      BY <2>2, <3>1, ByteSum, ZenonT(30)
    <3> QED  BY <3>2 DEF LowByteIs, c
  <2> HIDE DEF c
  <2>5. c = 0 /\ s = x + y
    BY <1>1, <2>3, <2>4
  <2>6. \A k \in 8 .. 31 : a[k] = 0 /\ b[k] = 0
    BY <2>1 DEF IsNum
  <2>7. \A i \in 8 .. 31 : Add(a, b)[i] = 0
    BY <2>2, <2>5, <2>6, CarryKept DEF c
  <2>8. IsNum(Add(a, b), x + y)
    BY <1>0, <2>4, <2>5, <2>7 DEF IsNum
  <2>9. x + y \in 0 .. 255
    BY <1>1
  <2> QED  BY <2>8, <2>9, IsNumIsNum DEF a, b
<1>2. ASSUME NEW x \in 1 .. 255
      PROVE  Add(Num(x), Signed12(-1)) = Num(x - 1)
  <2> DEFINE a == Num(x)
             b == Signed12(-1)
             c == Carry(a, b, 0, 8)
             s == x + 255 - 256 * c
  <2>0. x \in 0 .. 255 /\ 255 \in 0 .. 255
    OBVIOUS
  <2>1. IsNum(a, x)
    BY <2>0, NumIsNum
  <2>2. Binary(a) /\ Binary(b) /\ \A k \in 0 .. 31 : b[k] = 1
    <3>1. Binary(a)
      BY DEF Binary, Num, ToBits
    <3>2. \A k \in 0 .. 31 : b[k] = 1
      BY SignedFacts
    <3> HIDE DEF b
    <3> QED  BY <3>1, <3>2 DEF Binary
  <2>3. c \in {0, 1}
    <3>1. 8 \in 0 .. 31
      OBVIOUS
    <3> HIDE DEF a, b
    <3> QED  BY <2>2, <3>1, CarryStep
  <2> HIDE DEF a, b
  <2>4. \A i \in 0 .. 7 : b[i] = Bit(255, i)
    <3>1. /\ Bit(255, 0) = 1 /\ Bit(255, 1) = 1 /\ Bit(255, 2) = 1 /\ Bit(255, 3) = 1
          /\ Bit(255, 4) = 1 /\ Bit(255, 5) = 1 /\ Bit(255, 6) = 1 /\ Bit(255, 7) = 1
      BY BitPlaces
    <3>2. \A i \in 0 .. 7 : Bit(255, i) = 1
      BY <3>1, OneOfEight, Zenon
    <3> QED  BY <2>2, <3>2
  <2>5. s \in 0 .. 255 /\ \A i \in 0 .. 7 : Add(a, b)[i] = Bit(s, i)
    <3>1. LowByteIs(a, x) /\ LowByteIs(b, 255)
      BY <2>0, <2>1, <2>4 DEF IsNum, LowByteIs
    <3>3. LowByteIs(Add(a, b), x + 255 - 256 * Carry(a, b, 0, 8))
      <4> DEFINE y == 255
      <4>1. Binary(a) /\ Binary(b) /\ LowByteIs(a, x) /\ LowByteIs(b, y)
        BY <2>2, <3>1
      <4> HIDE DEF y
      <4>2. LowByteIs(Add(a, b), x + y - 256 * Carry(a, b, 0, 8))
        BY <4>1, ByteSum, ZenonT(30)
      <4> QED  BY <4>2 DEF y
    <3> QED  BY <3>3 DEF LowByteIs, c
  <2> HIDE DEF c
  <2>6. c = 1 /\ s = x - 1
    BY <2>3, <2>5
  <2>7. \A k \in 8 .. 31 : a[k] = 0 /\ b[k] = 1
    BY <2>1, <2>2 DEF IsNum
  <2>8. \A i \in 8 .. 31 : Add(a, b)[i] = 0
    BY <2>2, <2>6, <2>7, CarryKept DEF c
  <2>9. IsNum(Add(a, b), x - 1)
    BY <1>0, <2>5, <2>6, <2>8 DEF IsNum
  <2>10. x - 1 \in 0 .. 255
    OBVIOUS
  <2> QED  BY <2>9, <2>10, IsNumIsNum DEF a, b
<1> QED  BY <1>1, <1>2, Zenon

-----------------------------------------------------------------------------
\* What the other operations of the boot ROM compute.

LEMMA DigitsToNum ==
  ASSUME NEW x, NEW v, v = [i \in 0 .. 31 |-> v[i]], Digits(v, x), \A i \in 8 .. 31 : v[i] = 0
  PROVE  x \in 0 .. 255 /\ v = Num(x)
<1>1. x \in 0 .. 255 /\ \A i \in 0 .. 7 : v[i] = Bit(x, i)
  BY DigitsAreBits
<1>2. IsNum(v, x)
  BY <1>1 DEF IsNum
<1> QED  BY <1>1, <1>2, IsNumIsNum

Byteful(v, x) ==
  /\ Digits(v, x)
  /\ \A i \in 8 .. 31 : v[i] = 0
  /\ v[0] = x % 2 /\ v[1] = (x \div 2) % 2 /\ v[2] = (x \div 4) % 2

LEMMA NumDigits == \A x \in 0 .. 255 : Byteful(Num(x), x)
<1> SUFFICES ASSUME NEW x \in 0 .. 255 PROVE Byteful(Num(x), x)
  OBVIOUS
<1>1. IsNum(Num(x), x)
  BY NumIsNum
<1>2. /\ \A i \in 0 .. 7 : Num(x)[i] = Bit(x, i)
      /\ \A i \in 8 .. 31 : Num(x)[i] = 0
  BY <1>1 DEF IsNum
<1>3. Digits(Num(x), x)
  BY <1>2, BitsAreDigits
<1>4. Bit(x, 0) = x % 2 /\ Bit(x, 1) = (x \div 2) % 2 /\ Bit(x, 2) = (x \div 4) % 2
  BY PowersOfTwo DEF Bit
<1> HIDE DEF Num
<1> QED  BY <1>2, <1>3, <1>4 DEF Byteful

LEMMA Masks ==
  /\ Digits(Num(1), 1) /\ Digits(Num(2), 2) /\ Digits(Num(4), 4) /\ Digits(Num(15), 15)
  /\ \A m \in {1, 2, 4, 15} : \A i \in 8 .. 31 : Num(m)[i] = 0
  /\ Num(1)[0] = 1 /\ \A i \in 1 .. 7 : Num(1)[i] = 0
  /\ Num(2)[1] = 1 /\ \A i \in {0} \cup 2 .. 7 : Num(2)[i] = 0
  /\ Num(4)[2] = 1 /\ \A i \in {0, 1} \cup 3 .. 7 : Num(4)[i] = 0
  /\ (\A i \in 0 .. 3 : Num(15)[i] = 1) /\ (\A i \in 4 .. 7 : Num(15)[i] = 0)
<1>1. /\ Digits(Num(1), 1) /\ Digits(Num(2), 2) /\ Digits(Num(4), 4) /\ Digits(Num(15), 15)
      /\ \A m \in {1, 2, 4, 15} : \A i \in 8 .. 31 : Num(m)[i] = 0
  <2>1. \A m \in {1, 2, 4, 15} : m \in 0 .. 255
    OBVIOUS
  <2>2. \A m \in {1, 2, 4, 15} : Byteful(Num(m), m)
    BY <2>1, NumDigits, Zenon
  <2> QED  BY <2>2 DEF Byteful
<1>2. \A m : /\ Num(m)[0] = (m \div 2^0) % 2 /\ Num(m)[1] = (m \div 2^1) % 2
             /\ Num(m)[2] = (m \div 2^2) % 2 /\ Num(m)[3] = (m \div 2^3) % 2
             /\ Num(m)[4] = (m \div 2^4) % 2 /\ Num(m)[5] = (m \div 2^5) % 2
             /\ Num(m)[6] = (m \div 2^6) % 2 /\ Num(m)[7] = (m \div 2^7) % 2
  BY DEF Num, ToBits
<1> HIDE DEF Num
<1>3. /\ Num(1)[0] = 1 /\ Num(1)[1] = 0 /\ Num(1)[2] = 0 /\ Num(1)[3] = 0
      /\ Num(1)[4] = 0 /\ Num(1)[5] = 0 /\ Num(1)[6] = 0 /\ Num(1)[7] = 0
  BY <1>2, PowersOfTwo
<1>4. /\ Num(2)[0] = 0 /\ Num(2)[1] = 1 /\ Num(2)[2] = 0 /\ Num(2)[3] = 0
      /\ Num(2)[4] = 0 /\ Num(2)[5] = 0 /\ Num(2)[6] = 0 /\ Num(2)[7] = 0
  BY <1>2, PowersOfTwo
<1>5. /\ Num(4)[0] = 0 /\ Num(4)[1] = 0 /\ Num(4)[2] = 1 /\ Num(4)[3] = 0
      /\ Num(4)[4] = 0 /\ Num(4)[5] = 0 /\ Num(4)[6] = 0 /\ Num(4)[7] = 0
  BY <1>2, PowersOfTwo
<1>6. /\ Num(15)[0] = 1 /\ Num(15)[1] = 1 /\ Num(15)[2] = 1 /\ Num(15)[3] = 1
      /\ Num(15)[4] = 0 /\ Num(15)[5] = 0 /\ Num(15)[6] = 0 /\ Num(15)[7] = 0
  BY <1>2, PowersOfTwo
<1>7. \A i \in 1 .. 7 : \/ i = 1 \/ i = 2 \/ i = 3 \/ i = 4 \/ i = 5 \/ i = 6 \/ i = 7
  OBVIOUS
<1>8. /\ \A i \in 1 .. 7 : Num(1)[i] = 0
      /\ \A i \in {0} \cup 2 .. 7 : Num(2)[i] = 0
      /\ \A i \in {0, 1} \cup 3 .. 7 : Num(4)[i] = 0
      /\ \A i \in 0 .. 3 : Num(15)[i] = 1
      /\ \A i \in 4 .. 7 : Num(15)[i] = 0
  BY <1>3, <1>4, <1>5, <1>6, <1>7
<1> QED  BY <1>1, <1>3, <1>4, <1>5, <1>8

\* The arithmetic of digits.
Weighs(v, d0, d1, d2, d3, d4, d5, d6, d7) ==
  /\ v[0] = d0 /\ v[1] = d1 /\ v[2] = d2 /\ v[3] = d3
  /\ v[4] = d4 /\ v[5] = d5 /\ v[6] = d6 /\ v[7] = d7

LEMMA DigitSums ==
  ASSUME NEW x \in 0 .. 255, NEW a, Digits(a, x), NEW v
  PROVE  /\ Weighs(v, a[0], a[1], a[2], a[3], 0, 0, 0, 0) => Digits(v, x % 16)
         /\ x <= 127 => a[7] = 0
         /\ x <= 127 /\ Weighs(v, 0, a[0], a[1], a[2], a[3], a[4], a[5], a[6])
              => Digits(v, 2 * x)
         /\ a[0] = 0 /\ Weighs(v, 1, a[1], a[2], a[3], a[4], a[5], a[6], a[7])
              => Digits(v, x + 1)
         /\ x < 8 => a[3] = 0 /\ a[4] = 0 /\ a[5] = 0 /\ a[6] = 0 /\ a[7] = 0
<1> DEFINE p0 == a[0]
           p1 == a[1]
           p2 == a[2]
           p3 == a[3]
           p4 == a[4]
           p5 == a[5]
           p6 == a[6]
           p7 == a[7]
           t == p4 + 2 * p5 + 4 * p6 + 8 * p7
           l == p0 + 2 * p1 + 4 * p2 + 8 * p3
<1>1. /\ p0 \in {0, 1} /\ p1 \in {0, 1} /\ p2 \in {0, 1} /\ p3 \in {0, 1}
      /\ p4 \in {0, 1} /\ p5 \in {0, 1} /\ p6 \in {0, 1} /\ p7 \in {0, 1}
      /\ x = p0 + 2 * p1 + 4 * p2 + 8 * p3 + 16 * p4 + 32 * p5 + 64 * p6 + 128 * p7
  BY DEF Digits
<1>2. ASSUME NEW u, NEW d0 \in {0, 1}, NEW d1 \in {0, 1}, NEW d2 \in {0, 1},
             NEW d3 \in {0, 1}, NEW d4 \in {0, 1}, NEW d5 \in {0, 1}, NEW d6 \in {0, 1},
             NEW d7 \in {0, 1}, Weighs(u, d0, d1, d2, d3, d4, d5, d6, d7)
      PROVE  Digits(u, d0 + 2 * d1 + 4 * d2 + 8 * d3 + 16 * d4 + 32 * d5 + 64 * d6 + 128 * d7)
  BY <1>2, OneOfEight DEF Weighs, Digits
<1> HIDE DEF p0, p1, p2, p3, p4, p5, p6, p7
<1>3. ASSUME Weighs(v, p0, p1, p2, p3, 0, 0, 0, 0)
      PROVE  Digits(v, x % 16)
  <2>1. t \in Nat /\ l \in 0 .. 15 /\ x = 16 * t + l
    BY <1>1
  <2>2. l = p0 + 2 * p1 + 4 * p2 + 8 * p3 + 16 * 0 + 32 * 0 + 64 * 0 + 128 * 0
    BY <1>1
  <2>3. Digits(v, p0 + 2 * p1 + 4 * p2 + 8 * p3 + 16 * 0 + 32 * 0 + 64 * 0 + 128 * 0)
    BY <1>1, <1>2, <1>3
  <2> HIDE DEF t, l
  <2>4. x % 16 = l
    BY <2>1
  <2> QED  BY <2>2, <2>3, <2>4, Zenon
<1>4. x <= 127 => p7 = 0
  BY <1>1
<1>5. ASSUME x <= 127, Weighs(v, 0, p0, p1, p2, p3, p4, p5, p6)
      PROVE  Digits(v, 2 * x)
  <2>1. 2 * x = 0 + 2 * p0 + 4 * p1 + 8 * p2 + 16 * p3 + 32 * p4 + 64 * p5 + 128 * p6
    BY <1>1, <1>4, <1>5
  <2>2. Digits(v, 0 + 2 * p0 + 4 * p1 + 8 * p2 + 16 * p3 + 32 * p4 + 64 * p5 + 128 * p6)
    BY <1>1, <1>2, <1>5
  <2> QED  BY <2>1, <2>2, Zenon
<1>6. ASSUME p0 = 0, Weighs(v, 1, p1, p2, p3, p4, p5, p6, p7)
      PROVE  Digits(v, x + 1)
  <2>1. x + 1 = 1 + 2 * p1 + 4 * p2 + 8 * p3 + 16 * p4 + 32 * p5 + 64 * p6 + 128 * p7
    BY <1>1, <1>6
  <2>2. Digits(v, 1 + 2 * p1 + 4 * p2 + 8 * p3 + 16 * p4 + 32 * p5 + 64 * p6 + 128 * p7)
    BY <1>1, <1>2, <1>6
  <2> QED  BY <2>1, <2>2, Zenon
<1>7. x < 8 => p3 = 0 /\ p4 = 0 /\ p5 = 0 /\ p6 = 0 /\ p7 = 0
  BY <1>1
<1> QED  BY <1>3, <1>4, <1>5, <1>6, <1>7 DEF p0, p1, p2, p3, p4, p5, p6, p7

LEMMA AndNums ==
  ASSUME NEW x \in 0 .. 255
  PROVE  /\ Alu("and", Num(x), Num(1)) = Num(x % 2)
         /\ Alu("and", Num(x), Num(2)) = Num(2 * ((x \div 2) % 2))
         /\ Alu("and", Num(x), Num(4)) = Num(4 * ((x \div 4) % 2))
         /\ Alu("and", Num(x), Num(15)) = Num(x % 16)
<1> DEFINE v(m) == Alu("and", Num(x), Num(m))
           a == Num(x)
<1>1. \A m : v(m) = [i \in 0 .. 31 |-> a[i] * Num(m)[i]]
  BY DEF Alu
<1> HIDE DEF v
<1>2. Byteful(a, x)
  BY NumDigits
<1> HIDE DEF a
<1>2a. /\ Digits(a, x) /\ \A i \in 8 .. 31 : a[i] = 0
       /\ a[0] = x % 2 /\ a[1] = (x \div 2) % 2 /\ a[2] = (x \div 4) % 2
  BY <1>2 DEF Byteful
<1>3. ASSUME NEW m
      PROVE  v(m) = [i \in 0 .. 31 |-> v(m)[i]] /\ \A i \in 0 .. 31 : v(m)[i] = a[i] * Num(m)[i]
  <2> DEFINE u == v(m)
             product(i) == a[i] * Num(m)[i]
  <2>1. u = [i \in 0 .. 31 |-> product(i)]
    BY <1>1, Zenon
  <2> HIDE DEF u, product
  <2>2. u = [i \in 0 .. 31 |-> u[i]] /\ \A i \in 0 .. 31 : u[i] = product(i)
    BY <2>1
  <2> QED  BY <2>2, Zenon DEF u, product
<1>4. \A i \in 0 .. 7 : a[i] \in {0, 1}
  BY <1>2a, Zenon DEF Digits
<1>5. ASSUME NEW m \in {1, 2, 4, 15}, NEW i \in 8 .. 31 PROVE v(m)[i] = 0
  <2>1. a[i] = 0 /\ Num(m)[i] = 0
    BY <1>2a, Masks, Zenon
  <2>2. i \in 0 .. 31
    OBVIOUS
  <2>3. v(m)[i] = a[i] * Num(m)[i]
    BY <1>3, <2>2, Zenon
  <2>4. v(m)[i] = 0 * 0
    BY <2>1, <2>3, Zenon
  <2> HIDE DEF Num
  <2> QED  BY <2>4
<1>6. Digits(v(1), a[0])
  <2>1. v(1)[0] = a[0] /\ \A i \in 1 .. 7 : v(1)[i] = 0
    BY <1>3, <1>4, Masks
  <2> QED  BY <1>4, <2>1 DEF Digits
<1>7. Digits(v(2), 2 * a[1])
  <2>1. v(2)[1] = a[1] /\ \A i \in {0} \cup 2 .. 7 : v(2)[i] = 0
    BY <1>3, <1>4, Masks
  <2> QED  BY <1>4, <2>1 DEF Digits
<1>8. Digits(v(4), 4 * a[2])
  <2>1. v(4)[2] = a[2] /\ \A i \in {0, 1} \cup 3 .. 7 : v(4)[i] = 0
    BY <1>3, <1>4, Masks
  <2> QED  BY <1>4, <2>1 DEF Digits
<1>9. Digits(v(15), x % 16)
  <2>1. (\A i \in 0 .. 3 : v(15)[i] = a[i]) /\ (\A i \in 4 .. 7 : v(15)[i] = 0)
    BY <1>3, <1>4, Masks
  <2>2. Weighs(v(15), a[0], a[1], a[2], a[3], 0, 0, 0, 0)
    BY <2>1 DEF Weighs
  <2> QED  BY <1>2a, <2>2, DigitSums
<1>10. v(1) = Num(a[0]) /\ v(2) = Num(2 * a[1]) /\ v(4) = Num(4 * a[2]) /\ v(15) = Num(x % 16)
  BY <1>3, <1>5, <1>6, <1>7, <1>8, <1>9, DigitsToNum
<1> QED  BY <1>2a, <1>10 DEF v

LEMMA OtherNums ==
  ASSUME NEW x \in 0 .. 255
  PROVE  /\ x <= 127 => Alu("sll", Num(x), Num(1)) = Num(2 * x)
         /\ x % 2 = 0 => Alu("or", Num(x), Num(1)) = Num(x + 1)
         /\ Alu("or", Num(0), Num(x)) = Num(x)
         /\ x \in 1 .. 8 => (LessS(Num(x), Num(8)) <=> x < 8)
         /\ \A y \in 0 .. 255 : Num(x) = Num(y) <=> x = y
         /\ Zeros(32) = Num(0)
<1> DEFINE a == Num(x)
<1>0. Byteful(a, x)
  BY NumDigits
<1>1. /\ Digits(a, x) /\ \A i \in 8 .. 31 : a[i] = 0
      /\ a[0] = x % 2
  <2> HIDE DEF a
  <2> QED  BY <1>0 DEF Byteful
<1>2. \A i \in 0 .. 7 : a[i] \in {0, 1}
  BY <1>1 DEF Digits
<1>3. ASSUME x <= 127 PROVE Alu("sll", Num(x), Num(1)) = Num(2 * x)
  <2> DEFINE v == Alu("sll", a, Num(1))
  <2>1. Val(Num(1), 5) = 1
    <3>1. 1 \in 0 .. 31
      OBVIOUS
    <3> QED  BY <3>1, ShiftAmount DEF Num
  <2>2. v = [i \in 0 .. 31 |-> IF i >= 1 THEN a[i - 1] ELSE 0]
    BY <2>1 DEF Alu
  <2> HIDE DEF v, a
  <2>3. /\ v[0] = 0 /\ v[1] = a[0] /\ v[2] = a[1] /\ v[3] = a[2] /\ v[4] = a[3]
        /\ v[5] = a[4] /\ v[6] = a[5] /\ v[7] = a[6] /\ v[8] = a[7]
        /\ \A i \in 9 .. 31 : v[i] = a[i - 1]
    BY <2>2
  <2>4. a[7] = 0
    BY <1>1, <1>3, DigitSums
  <2>5. Digits(v, 2 * x)
    <3>1. Weighs(v, 0, a[0], a[1], a[2], a[3], a[4], a[5], a[6])
      BY <2>3 DEF Weighs
    <3> QED  BY <1>1, <1>3, <3>1, DigitSums
  <2>6. \A i \in 8 .. 31 : v[i] = 0
    BY <1>1, <2>3, <2>4
  <2>7. v = [i \in 0 .. 31 |-> v[i]]
    BY <2>2
  <2> QED  BY <2>5, <2>6, <2>7, DigitsToNum DEF v, a
<1>4. ASSUME x % 2 = 0 PROVE Alu("or", Num(x), Num(1)) = Num(x + 1)
  <2> DEFINE v == Alu("or", a, Num(1))
  <2>1. v = [i \in 0 .. 31 |-> IF a[i] + Num(1)[i] = 0 THEN 0 ELSE 1]
    BY DEF Alu
  <2> HIDE DEF v, a, Num
  <2>2. v[0] = 1 /\ \A i \in 1 .. 7 : v[i] = a[i]
    BY <1>1, <1>2, <1>4, <2>1, Masks
  <2>3. \A i \in 8 .. 31 : v[i] = 0
    BY <1>1, <2>1, Masks
  <2>4. Digits(v, x + 1)
    <3>1. Weighs(v, 1, a[1], a[2], a[3], a[4], a[5], a[6], a[7])
      BY <2>2 DEF Weighs
    <3> QED  BY <1>1, <1>4, <3>1, DigitSums
  <2>5. v = [i \in 0 .. 31 |-> v[i]]
    BY <2>1
  <2>6. v = Num(x + 1)
    BY <2>3, <2>4, <2>5, DigitsToNum
  <2> QED  BY <2>6 DEF v, a
<1>5. Zeros(32) = Num(0)
  BY DEF Zeros, Num, ToBits
<1>6. Alu("or", Num(0), Num(x)) = Num(x)
  <2> DEFINE v == Alu("or", Num(0), a)
  <2>1. v = [i \in 0 .. 31 |-> IF Num(0)[i] + a[i] = 0 THEN 0 ELSE 1]
    BY DEF Alu
  <2>2. \A i \in 0 .. 31 : Num(0)[i] = 0
    BY <1>5 DEF Zeros
  <2>3. \A i \in 0 .. 31 : a[i] \in {0, 1}
    BY DEF Num, ToBits
  <2>4. a = [i \in 0 .. 31 |-> a[i]]
    BY DEF Num, ToBits
  <2> HIDE DEF v, a, Num
  <2>5. v = [i \in 0 .. 31 |-> a[i]]
    BY <2>1, <2>2, <2>3
  <2> QED  BY <2>4, <2>5 DEF v, a
<1>7. ASSUME x \in 1 .. 8 PROVE LessS(Num(x), Num(8)) <=> x < 8
  <2> DEFINE b == Num(8)
  <2>0. 8 \in 0 .. 255
    OBVIOUS
  <2>0a. Byteful(b, 8)
    BY <2>0, NumDigits, Zenon
  <2> HIDE DEF a, b
  <2>1. /\ Digits(b, 8) /\ \A i \in 8 .. 31 : b[i] = 0
    BY <2>0a DEF Byteful
  <2>2. b[3] = 1 /\ \A i \in {0, 1, 2} \cup 4 .. 7 : b[i] = 0
    BY <2>1 DEF Digits
  <2>3. a[31] = 0 /\ b[31] = 0
    BY <1>1, <2>1
  <2>4. CASE x = 8
    <3>1. a = b
      BY <2>4 DEF a, b
    <3>2. ~LessU(a, b)
      <4>1. \A i \in 0 .. 31 : b[i] \in Int
        BY DEF b, Num, ToBits
      <4> QED  BY <3>1, <4>1 DEF LessU
    <3> QED  BY <2>3, <2>4, <3>2 DEF LessS, a, b
  <2>5. CASE x < 8
    <3>1. /\ a[3] = 0 /\ a[4] = 0 /\ a[5] = 0 /\ a[6] = 0 /\ a[7] = 0
      BY <1>1, <2>5, DigitSums
    <3>2. \A i \in 4 .. 31 : a[i] = b[i]
      <4>1. \A i \in 4 .. 31 : i = 4 \/ i = 5 \/ i = 6 \/ i = 7 \/ i \in 8 .. 31
        OBVIOUS
      <4> QED  BY <1>1, <2>1, <2>2, <3>1, <4>1
    <3>3. LessU(a, b)
      <4>1. 3 \in 0 .. 31 /\ 3 + 1 = 4 /\ a[3] < b[3]
        BY <2>2, <3>1
      <4> QED  BY <3>2, <4>1, Zenon DEF LessU
    <3> QED  BY <2>3, <2>5, <3>3 DEF LessS, a, b
  <2> QED  BY <1>7, <2>4, <2>5
<1>8. \A y \in 0 .. 255 : Num(x) = Num(y) <=> x = y
  <2>1. \A y \in 0 .. 255 : Val(Num(y), 8) = y
    BY NumFacts
  <2> HIDE DEF Num
  <2> QED  BY <2>1
<1> QED  BY <1>3, <1>4, <1>5, <1>6, <1>7, <1>8

=============================================================================
