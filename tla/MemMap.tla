------------------------------- MODULE MemMap -------------------------------
(***************************************************************************)
(* src/src/mem.v, its combinational half: the address decode, the boot ROM *)
(* and the on-chip RAM read through a pair of words, the writes to the RAM *)
(* and the address of an external access.  Bus addresses are numbers below *)
(* 256, as wide as `addr`; data are bit vectors.                           *)
(***************************************************************************)
EXTENDS Serial

CONSTANTS ROM_BYTES, RAM_BASE, RAM_BYTES, LOAD_BASE, EXT_PSRAM_BASE, EXT_PSRAM_BYTES

\* The parameters of the module, as far as its address arithmetic needs them:
\* whole words, regions in order, the RAM within six address bits.
ASSUME MapAssumption ==
  /\ {ROM_BYTES, RAM_BASE, RAM_BYTES, LOAD_BASE, EXT_PSRAM_BASE, EXT_PSRAM_BYTES}
       \subseteq {4 * k : k \in 0 .. 63}
  /\ ROM_BYTES <= RAM_BASE /\ RAM_BASE <= LOAD_BASE
  /\ LOAD_BASE < RAM_BASE + RAM_BYTES
  /\ RAM_BYTES <= 64
  /\ RAM_BASE + RAM_BYTES <= EXT_PSRAM_BASE
  /\ EXT_PSRAM_BASE + EXT_PSRAM_BYTES <= 240

LED_OUT    == 240
SW_IN      == 244
FLASH_MODE == 248
FLASH_PAGE == 252

BusAddr == 0 .. 255
NWORDS  == RAM_BYTES \div 4
WINDOW_BYTES == (RAM_BASE + RAM_BYTES) - LOAD_BASE

RamWords == [0 .. NWORDS - 1 -> Word]
RomWords == [0 .. 63 -> Word]

in_rom(a)           == a < ROM_BYTES
in_ram_range(a)     == a >= RAM_BASE /\ a < RAM_BASE + RAM_BYTES
in_load_range(a)    == a >= LOAD_BASE /\ a < RAM_BASE + RAM_BYTES
in_ext_flash(a, fm) == fm /\ in_load_range(a)
in_ram(a, fm)       == in_ram_range(a) /\ ~in_ext_flash(a, fm)
in_ext_psram(a)     == a >= EXT_PSRAM_BASE /\ a < EXT_PSRAM_BASE + EXT_PSRAM_BYTES
in_ext(a, fm)       == in_ext_flash(a, fm) \/ in_ext_psram(a)

\* Bits [8*off +: 32] of the pair {w1, w0}.
PairSelect(w0, w1, off) ==
  [i \in 0 .. 31 |-> IF 8 * off + i < 32 THEN w0[8 * off + i]
                     ELSE w1[8 * off + i - 32]]

rom_word(rom, a) ==
  PairSelect(rom[a \div 4], rom[((a \div 4) + 1) % 64], a % 4)

ram_addr(a)  == ((a - RAM_BASE) % 256) % 64
ram_widx0(a) == ram_addr(a) \div 4
ram_widx1(a) == ((ram_addr(a) \div 4) + 1) % 16

\* ram_words[w]; there is no such word for w >= NWORDS, and then u is read.
ReadWordAt(ram_words, w, u) == IF w < NWORDS THEN ram_words[w] ELSE u

\* Mutant: the second word of the pair is the first one again.
ram_word_unpaired(ram_words, a, u) ==
  PairSelect(ReadWordAt(ram_words, ram_widx0(a), u),
             ReadWordAt(ram_words, ram_widx0(a), u), ram_addr(a) % 4)

ram_word(ram_words, a, u) ==
  PairSelect(ReadWordAt(ram_words, ram_widx0(a), u),
             ReadWordAt(ram_words, ram_widx1(a), u), ram_addr(a) % 4)

\* Byte lane k of word w replaced by b.
PutLane(w, k, b) ==
  [i \in 0 .. 31 |-> IF i \div 8 = k THEN b[i % 8] ELSE w[i]]

\* Mutant: both bytes of a straddling half go to the first word.
WriteRamNoStraddle(ram_words, a, size, wd) ==
  LET w0  == ram_widx0(a)
      off == ram_addr(a) % 4
  IN  IF size = 0 THEN [ram_words EXCEPT ![w0] = PutLane(@, off, Lane(wd, 0))]
      ELSE IF size = 1
        THEN [ram_words EXCEPT
                ![w0] = PutLane(PutLane(@, off, Lane(wd, 0)), (off + 1) % 4, Lane(wd, 1))]
      ELSE [ram_words EXCEPT ![w0] = wd]

\* The RAM after a store to address a inside it.  A half at the last byte of a
\* word goes to two words; the second does not exist past the end of the RAM
\* and EXCEPT then changes nothing, as the simulator and the netlist do.
WriteRam(ram_words, a, size, wd) ==
  LET w0  == ram_widx0(a)
      w1  == ram_widx1(a)
      off == ram_addr(a) % 4
  IN  IF size = 0 THEN [ram_words EXCEPT ![w0] = PutLane(@, off, Lane(wd, 0))]
      ELSE IF size = 1 /\ off = 3
        THEN [ram_words EXCEPT ![w0] = PutLane(@, 3, Lane(wd, 0)),
                               ![w1] = PutLane(@, 0, Lane(wd, 1))]
      ELSE IF size = 1
        THEN [ram_words EXCEPT
                ![w0] = PutLane(PutLane(@, off, Lane(wd, 0)), off + 1, Lane(wd, 1))]
      ELSE [ram_words EXCEPT ![w0] = wd]

\* flash_page_base is a constant multiply at 24 bits.
ext_addr(a, fm, page) ==
  ToBits(IF in_ext_flash(a, fm) THEN page * WINDOW_BYTES + (a - LOAD_BASE)
         ELSE (a - EXT_PSRAM_BASE) % 256, 24)

req_dev(a, fm) == IF in_ext_flash(a, fm) THEN "flash" ELSE "psram"

\* A byte read as a word.
Wide(b) == [i \in 0 .. 31 |-> IF i < 8 THEN b[i] ELSE 0]

=============================================================================
