---------------------------- MODULE MemContract -----------------------------
(***************************************************************************)
(* The on-chip half of mem.v under every access: stores of every size at   *)
(* every address, inside the contract of ByteMem or not, and FLASH_MODE    *)
(* set at any point.  In every state it leads to, the word pairs and part- *)
(* selects of the code answer each access inside the contract as the bytes *)
(* of ByteMem do.                                                          *)
(***************************************************************************)
EXTENDS ByteMem

CONSTANTS
  Roms,         \* boot ROM images
  InitWords,    \* contents of ram_words at power-on
  StoreData,    \* words stored
  Garbage,      \* what a read of a word that is not there may return
  MaxStores     \* bound: stores to the RAM in a behaviour

VARIABLES rom, ram_words, flash_mode, stores

vars == <<rom, ram_words, flash_mode, stores>>

Init ==
  /\ rom \in Roms
  /\ ram_words \in InitWords
  /\ flash_mode = FALSE
  /\ stores = 0

ASSUME MemAssumption ==
  /\ Roms \subseteq RomWords
  /\ InitWords \subseteq RamWords
  /\ StoreData \subseteq Word
  /\ Garbage \subseteq Word
  /\ MaxStores \in Nat

\* One clock edge with `we` up.
ClockStore(a, size, wd) ==
  /\ in_ram(a, flash_mode) => stores < MaxStores
  /\ stores' = IF in_ram(a, flash_mode) THEN stores + 1 ELSE stores
  /\ ram_words' = IF in_ram(a, flash_mode) THEN WriteRam(ram_words, a, size, wd)
                  ELSE ram_words
  /\ flash_mode' = (flash_mode \/ a = FLASH_MODE)
  /\ UNCHANGED rom

\* Registers and RAM keep their contents, the mode does not.
Reset ==
  /\ flash_mode' = FALSE
  /\ UNCHANGED <<rom, ram_words, stores>>

Next == \/ \E a \in BusAddr, size \in Size, wd \in StoreData : ClockStore(a, size, wd)
        \/ Reset

Spec == Init /\ [][Next]_vars

-----------------------------------------------------------------------------
TypeOK ==
  /\ rom \in RomWords
  /\ ram_words \in RamWords
  /\ flash_mode \in BOOLEAN
  /\ stores \in 0 .. MaxStores

\* A load inside the contract sees, in its low bytes, the bytes at its address,
\* whatever a word that is not there reads as.
LoadsAreBytes ==
  \A a \in BusAddr, size \in Size, u \in Garbage :
    InContract(a, Bytes(size), flash_mode) =>
      \A k \in 0 .. Bytes(size) - 1 :
        /\ in_rom(a) =>
             Lane(rom_word(rom, a), k) = Lane(rom[(a + k) \div 4], (a + k) % 4)
        /\ in_ram(a, flash_mode) =>
             Lane(ram_word(ram_words, a, u), k) = RamAsBytes(ram_words)[a + k]

\* A store inside the contract changes the bytes it names and no other.
StoresAreBytes ==
  \A a \in BusAddr, size \in Size, wd \in StoreData :
    in_ram(a, flash_mode) /\ InContract(a, Bytes(size), flash_mode) =>
      RamAsBytes(WriteRam(ram_words, a, size, wd))
        = StoreRam(RamAsBytes(ram_words), flash_mode, a, Bytes(size), wd)

=============================================================================
