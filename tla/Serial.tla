------------------------------- MODULE Serial -------------------------------
(***************************************************************************)
(* What mem.v, the serial engine and the serial memories agree on: the two *)
(* devices, the access sizes, and the record of one access as mem.v        *)
(* presents it to the engine.                                              *)
(***************************************************************************)
EXTENDS BitVec

CONSTANTS
  IdxBits,      \* address bits a device decodes (14 in spi_ram_model.v)
  InitStore,    \* the contents the devices may start with
  Access        \* the accesses mem.v may present

Dev    == {"flash", "psram"}     \* req_dev 1 (CS0) and 2 (CS1)
Size   == {0, 1, 2}              \* byte, half, word
Byte   == Bits(8)
Word   == Bits(32)
Addr24 == Bits(24)
Index  == Bits(IdxBits)
Store  == [Dev -> [Index -> Byte]]

AccessType == [we : BOOLEAN, dev : Dev, addr : Addr24, wdata : Word, size : Size]

\* mem.v never writes the flash: ext_req_we is `we && !in_ext_flash`.
ASSUME IdxBitsAssumption == IdxBits \in 1 .. 24
ASSUME StoreAssumption == \A s \in InitStore : s \in Store
ASSUME AccessAssumption ==
  \A a \in Access : a \in AccessType /\ (a.dev = "flash" => ~a.we)

DataBits(size) == IF size = 0 THEN 8 ELSE IF size = 1 THEN 16 ELSE 32
Bytes(size)    == IF size = 0 THEN 1 ELSE IF size = 1 THEN 2 ELSE 4

Idx(a) == Low(a, IdxBits)

=============================================================================
