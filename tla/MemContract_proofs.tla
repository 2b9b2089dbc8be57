------------------------- MODULE MemContract_proofs -------------------------
(***************************************************************************)
(* For every content of the ROM and of the RAM and every word stored, the  *)
(* word pairs and part-selects of mem.v amount to byte accesses.           *)
(***************************************************************************)
EXTENDS MemContract, Words_proofs

-----------------------------------------------------------------------------
\* A load of one state, byte by byte.
LEMMA LoadFacts ==
  ASSUME TypeOK
  PROVE  LoadsAreBytes
<1> SUFFICES ASSUME NEW a \in BusAddr, NEW size \in Size, NEW u \in Garbage,
                    InContract(a, Bytes(size), flash_mode),
                    NEW k \in 0 .. Bytes(size) - 1
             PROVE  /\ in_rom(a) =>
                         Lane(rom_word(rom, a), k) = Lane(rom[(a + k) \div 4], (a + k) % 4)
                    /\ in_ram(a, flash_mode) =>
                         Lane(ram_word(ram_words, a, u), k) = RamAsBytes(ram_words)[a + k]
  BY DEF LoadsAreBytes
<1>1. Bytes(size) \in {1, 2, 4} /\ k \in 0 .. 3
  BY DEF Size, Bytes
<1>2. flash_mode \in BOOLEAN
  BY DEF TypeOK
<1>3. CASE in_rom(a)
  <2>1. in_rom(a + k)
    BY <1>1, <1>2, <1>3, SameRegion
  <2>2. Lane(rom_word(rom, a), k) = Lane(rom[(a + k) \div 4], (a + k) % 4)
    BY <1>1, <2>1, RomBytes
  <2>3. ~in_ram(a, flash_mode)
    BY <1>3, MapFacts DEF in_rom, in_ram, in_ram_range, BusAddr
  <2>. QED  BY <2>2, <2>3
<1>4. CASE ~in_rom(a) /\ in_ram(a, flash_mode)
  <2>1. in_ram(a + k, flash_mode) /\ a + k \in BusAddr
    BY <1>1, <1>2, <1>4, SameRegion
  <2>2. in_ram_range(a) /\ in_ram_range(a + k)
    BY <1>4, <2>1 DEF in_ram
  <2>3. Lane(ram_word(ram_words, a, u), k) = RamAsBytes(ram_words)[a + k]
    BY <1>1, <2>1, <2>2, RamLoadBytes
  <2>. QED  BY <1>4, <2>3
<1>5. CASE ~in_rom(a) /\ ~in_ram(a, flash_mode)
  BY <1>5
<1>. QED  BY <1>3, <1>4, <1>5

\* A store in one state, byte by byte.
LEMMA StoreFacts ==
  ASSUME TypeOK
  PROVE  StoresAreBytes
<1> SUFFICES ASSUME NEW a \in BusAddr, NEW size \in Size, NEW wd \in StoreData,
                    in_ram(a, flash_mode), InContract(a, Bytes(size), flash_mode)
             PROVE  RamAsBytes(WriteRam(ram_words, a, size, wd))
                      = StoreRam(RamAsBytes(ram_words), flash_mode, a, Bytes(size), wd)
  BY DEF StoresAreBytes
<1>1. ram_words \in RamWords /\ wd \in Word /\ flash_mode \in BOOLEAN
  BY MemAssumption DEF TypeOK
<1>. QED  BY <1>1, RamStore

-----------------------------------------------------------------------------
\* The words of the ROM and of the RAM stay words of 32 bits, and stores stay
\* within the bound, whatever is stored where.
THEOREM MemTypeOK == Spec => []TypeOK
<1>1. Init => TypeOK
  <2> SUFFICES ASSUME Init
               PROVE  TypeOK
    OBVIOUS
  <2>1. rom \in RomWords /\ ram_words \in RamWords
    BY MemAssumption DEF Init
  <2>2. flash_mode \in BOOLEAN
    BY DEF Init
  <2>3. stores \in 0 .. MaxStores
    BY MemAssumption DEF Init
  <2>. QED  BY <2>1, <2>2, <2>3 DEF TypeOK
<1>2. TypeOK /\ [Next]_vars => TypeOK'
  <2> SUFFICES ASSUME TypeOK, [Next]_vars
               PROVE  TypeOK'
    OBVIOUS
  <2> USE DEF TypeOK
  <2>1. ASSUME NEW a \in BusAddr, NEW size \in Size, NEW wd \in StoreData,
               ClockStore(a, size, wd)
        PROVE  TypeOK'
    <3>1. ram_words' \in RamWords
      <4>1. wd \in Word
        BY MemAssumption
      <4>2. in_ram(a, flash_mode) => WriteRam(ram_words, a, size, wd) \in RamWords
        BY <4>1, WriteRamType DEF in_ram
      <4>. QED  BY <2>1, <4>2 DEF ClockStore
    <3>2. stores' \in 0 .. MaxStores
      BY <2>1, MemAssumption DEF ClockStore
    <3>3. flash_mode' \in BOOLEAN /\ rom' \in RomWords
      BY <2>1 DEF ClockStore
    <3>. QED  BY <3>1, <3>2, <3>3
  <2>2. CASE Reset
    BY <2>2 DEF Reset
  <2>3. CASE UNCHANGED vars
    BY <2>3 DEF vars
  <2>. QED  BY <2>1, <2>2, <2>3 DEF Next
<1>. QED  BY <1>1, <1>2, PTL DEF Spec

\* In every reachable state a load inside one region reads the bytes of that
\* region, whatever the word past its end holds.
THEOREM LoadsSafe == Spec => []LoadsAreBytes
  BY MemTypeOK, LoadFacts, PTL

\* In every reachable state a store inside the RAM changes the bytes it names
\* and no other.
THEOREM StoresSafe == Spec => []StoresAreBytes
  BY MemTypeOK, StoreFacts, PTL

=============================================================================
