----------------------------- MODULE Soc_proofs -----------------------------
(***************************************************************************)
(* For every program, register file, RAM and content of the devices: the   *)
(* registers of core and memory keep their widths, nothing is written that *)
(* no store instruction asked for, the external port is driven as ExtPort  *)
(* allows, and the clocks of the computer amount to the steps of Isa.  The *)
(* last section is about Chip, which has the serial bus for that port: it  *)
(* implements Soc, and with it Isa.                                        *)
(***************************************************************************)
EXTENDS Chip, Words_proofs

-----------------------------------------------------------------------------
\* Widths of what the combinational half of the core computes.

LEMMA FieldTypes ==
  ASSUME NEW inst \in Word
  PROVE  /\ Opcode(inst) \in 0 .. 127
         /\ Rd(inst) \in 0 .. 31 /\ Rs1(inst) \in 0 .. 31 /\ Rs2(inst) \in 0 .. 31
         /\ Funct3(inst) \in 0 .. 7
         /\ Addr8(inst) \in 0 .. 255
<1>2. \A i \in 0 .. 31 : inst[i] \in 0 .. 1
  BY BitsOfWord
<1>3. Opcode(inst) \in 0 .. 127
  <2>1. \A i \in 0 .. 6 : Slice(inst, 6, 0)[i] \in 0 .. 1
    BY <1>2 DEF Slice
  <2>. QED  BY <2>1, ValType DEF Opcode
<1>4. Rd(inst) \in 0 .. 31
  <2>1. \A i \in 0 .. 4 : Slice(inst, 11, 7)[i] \in 0 .. 1
    BY <1>2 DEF Slice
  <2>. QED  BY <2>1, ValType DEF Rd
<1>5. Rs1(inst) \in 0 .. 31
  <2>1. \A i \in 0 .. 4 : Slice(inst, 19, 15)[i] \in 0 .. 1
    BY <1>2 DEF Slice
  <2>. QED  BY <2>1, ValType DEF Rs1
<1>6. Rs2(inst) \in 0 .. 31
  <2>1. \A i \in 0 .. 4 : Slice(inst, 24, 20)[i] \in 0 .. 1
    BY <1>2 DEF Slice
  <2>. QED  BY <2>1, ValType DEF Rs2
<1>7. Funct3(inst) \in 0 .. 7
  <2>1. \A i \in 0 .. 2 : Slice(inst, 14, 12)[i] \in 0 .. 1
    BY <1>2 DEF Slice
  <2>. QED  BY <2>1, ValType DEF Funct3
<1>8. Addr8(inst) \in 0 .. 255
  <2>1. \A i \in 0 .. 7 : inst[i] \in 0 .. 1
    BY <1>2
  <2>. QED  BY <2>1, ValType DEF Addr8
<1>. QED  BY <1>3, <1>4, <1>5, <1>6, <1>7, <1>8

LEMMA ImmTypes ==
  ASSUME NEW inst \in Word
  PROVE  /\ ImmI(inst) \in Word /\ ImmS(inst) \in Word /\ ImmU(inst) \in Word
         /\ ImmB(inst) \in 0 .. 255 /\ ImmJ(inst) \in 0 .. 255
<1>1. \A i \in 0 .. 31 : inst[i] \in 0 .. 1
  BY BitsOfWord
<1>2. ImmI(inst) \in Word
  BY <1>1 DEF ImmI, Word, Bits, BIT
<1>3. ImmS(inst) \in Word
  BY <1>1 DEF ImmS, Word, Bits, BIT
<1>4. ImmU(inst) \in Word
  BY <1>1 DEF ImmU, Word, Bits, BIT
<1>5. ImmB(inst) \in 0 .. 255
  <2> DEFINE b == [i \in 0 .. 7 |-> IF i = 0 THEN 0
                                    ELSE IF i < 5 THEN inst[7 + i] ELSE inst[20 + i]]
  <2>1. \A i \in 0 .. 7 : b[i] \in 0 .. 1
    BY <1>1
  <2> HIDE DEF b
  <2>2. Val(b, 8) \in 0 .. 255
    BY <2>1, ValType
  <2>. QED  BY <2>2 DEF ImmB, b
<1>6. ImmJ(inst) \in 0 .. 255
  <2> DEFINE b == [i \in 0 .. 7 |-> IF i = 0 THEN 0 ELSE inst[20 + i]]
  <2>1. \A i \in 0 .. 7 : b[i] \in 0 .. 1
    BY <1>1
  <2> HIDE DEF b
  <2>2. Val(b, 8) \in 0 .. 255
    BY <2>1, ValType
  <2>. QED  BY <2>2 DEF ImmJ, b
<1>. QED  BY <1>2, <1>3, <1>4, <1>5, <1>6

LEMMA RegType ==
  ASSUME NEW f \in [1 .. 31 -> Word], NEW n \in 0 .. 31
  PROVE  Reg(f, n) \in Word
  BY DEF Reg, Zeros, Word, Bits, BIT

LEMMA AddCType ==
  ASSUME NEW x \in Word, NEW y \in Word, NEW c \in 0 .. 1
  PROVE  AddC(x, y, c) \in Word
<1>1. \A i \in 0 .. 31 : x[i] \in 0 .. 1 /\ y[i] \in 0 .. 1
  BY BitsOfWord
<1>2. \A i \in 0 .. 31 : Carry(x, y, c, i) \in 0 .. 1
  BY DEF Carry
<1>3. \A i \in 0 .. 31 : (x[i] + y[i] + Carry(x, y, c, i)) % 2 \in 0 .. 1
  BY <1>1, <1>2
<1>. QED  BY <1>3 DEF AddC, Word, Bits, BIT

LEMMA FlagType ==
  ASSUME NEW p \in BOOLEAN
  PROVE  Flag(p) \in Word
  BY ToBitsType DEF Flag, Word

AluOps == {"add", "sub", "sll", "slt", "sltu", "xor", "srl", "sra", "or", "and"}

LEMMA AluType ==
  ASSUME NEW op \in AluOps, NEW x \in Word, NEW y \in Word
  PROVE  Alu(op, x, y) \in Word
<1>1. \A i \in 0 .. 31 : x[i] \in 0 .. 1 /\ y[i] \in 0 .. 1
  BY BitsOfWord
<1>2. Val(y, 5) \in 0 .. 31
  BY <1>1, ValType
<1> DEFINE s == Val(y, 5)
<1> HIDE DEF s
<1>3. CASE op = "add"
  BY <1>3, AddCType DEF Alu, Add
<1>4. CASE op = "sub"
  <2>1. [i \in 0 .. 31 |-> 1 - y[i]] \in Word
    BY <1>1 DEF Word, Bits, BIT
  <2>2. Sub(x, y) \in Word
    BY <2>1, AddCType DEF Sub
  <2>. QED  BY <1>4, <2>2 DEF Alu
<1>5. CASE op = "sll"
  <2>1. [i \in 0 .. 31 |-> IF i >= s THEN x[i - s] ELSE 0] \in Word
    BY <1>1, <1>2 DEF Word, Bits, BIT, s
  <2>. QED  BY <1>5, <2>1 DEF Alu, s
<1>6. CASE op = "slt"
  BY <1>6, FlagType DEF Alu, LessS, LessU
<1>7. CASE op = "sltu"
  BY <1>7, FlagType DEF Alu, LessU
<1>8. CASE op = "xor"
  <2>1. [i \in 0 .. 31 |-> (x[i] + y[i]) % 2] \in Word
    BY <1>1 DEF Word, Bits, BIT
  <2>. QED  BY <1>8, <2>1 DEF Alu
<1>9. CASE op = "srl"
  <2>1. [i \in 0 .. 31 |-> IF i + s < 32 THEN x[i + s] ELSE 0] \in Word
    BY <1>1, <1>2 DEF Word, Bits, BIT, s
  <2>. QED  BY <1>9, <2>1 DEF Alu, s
<1>10. CASE op = "sra"
  <2>1. [i \in 0 .. 31 |-> IF i + s < 32 THEN x[i + s] ELSE x[31]] \in Word
    BY <1>1, <1>2 DEF Word, Bits, BIT, s
  <2>. QED  BY <1>10, <2>1 DEF Alu, s
<1>11. CASE op = "or"
  <2>1. [i \in 0 .. 31 |-> IF x[i] + y[i] = 0 THEN 0 ELSE 1] \in Word
    BY DEF Word, Bits, BIT
  <2>. QED  BY <1>11, <2>1 DEF Alu
<1>12. CASE op = "and"
  <2>1. \A i \in 0 .. 31 : x[i] * y[i] \in BIT
    <3> SUFFICES ASSUME NEW i \in 0 .. 31
                 PROVE  x[i] * y[i] \in BIT
      OBVIOUS
    <3>1. x[i] = 0 \/ x[i] = 1
      BY <1>1
    <3>. QED  BY <3>1, <1>1 DEF BIT
  <2>2. [i \in 0 .. 31 |-> x[i] * y[i]] \in Word
    BY <2>1 DEF Word, Bits
  <2>. QED  BY <1>12, <2>2 DEF Alu
<1>. QED  BY <1>3, <1>4, <1>5, <1>6, <1>7, <1>8, <1>9, <1>10, <1>11, <1>12 DEF AluOps

LEMMA AluYType ==
  ASSUME NEW w \in Word, NEW f \in [1 .. 31 -> Word]
  PROVE  AluY(w, f) \in Word
<1>1. AluOp(w) \in AluOps
  BY FieldTypes DEF AluOp, AluOps
<1>2. Reg(f, Rs1(w)) \in Word /\ Reg(f, Rs2(w)) \in Word
  BY FieldTypes, RegType
<1>. QED  BY <1>1, <1>2, ImmTypes, AluType DEF AluY

LEMMA Wraps ==
  ASSUME NEW x \in 0 .. 255, NEW y \in 0 .. 255
  PROVE  (x + y) % 256 \in 0 .. 255
  OBVIOUS

LEMMA NextPcType ==
  ASSUME NEW w \in Word, NEW f \in [1 .. 31 -> Word], NEW at \in 0 .. 255
  PROVE  NextPc(w, f, at) \in 0 .. 255
<1> DEFINE t == (Addr8(Reg(f, Rs1(w))) + Addr8(ImmI(w))) % 256
<1>1. t \in 0 .. 255
  <2>1. Reg(f, Rs1(w)) \in Word /\ ImmI(w) \in Word
    BY FieldTypes, RegType, ImmTypes
  <2>2. Addr8(Reg(f, Rs1(w))) \in 0 .. 255 /\ Addr8(ImmI(w)) \in 0 .. 255
    BY <2>1, FieldTypes
  <2>. QED  BY <2>2, Wraps
<1>2. /\ (at + ImmJ(w)) % 256 \in 0 .. 255 /\ (at + ImmB(w)) % 256 \in 0 .. 255
      /\ (at + 4) % 256 \in 0 .. 255
  <2>1. ImmJ(w) \in 0 .. 255 /\ ImmB(w) \in 0 .. 255 /\ 4 \in 0 .. 255
    BY ImmTypes
  <2>. QED  BY <2>1, Wraps
<1> HIDE DEF t
<1>3. t - (t % 2) \in 0 .. 255
  BY <1>1
<1>. QED  BY <1>2, <1>3 DEF NextPc, t

LEMMA WriteBackType ==
  ASSUME NEW w \in Word, NEW f \in [1 .. 31 -> Word], NEW at \in 0 .. 255,
         NEW y \in Word, NEW d \in Word
  PROVE  WriteBack(w, f, at, y, d) \in [1 .. 31 -> Word]
<1>1. ToBits(at, 32) \in Word /\ ToBits(4, 32) \in Word /\ ImmU(w) \in Word
  BY ToBitsType, ImmTypes DEF Word
<1>2. /\ Add(ToBits(at, 32), ImmU(w)) \in Word
      /\ Add(ToBits(at, 32), ToBits(4, 32)) \in Word
  BY <1>1, AddCType DEF Add
<1>3. \A i \in 0 .. 31 : d[i] \in BIT
  BY DEF Word, Bits
<1>4. \A n \in 0 .. 31, b \in BIT : Extend(d, n, b) \in Word
  BY <1>3 DEF Extend, Word, Bits
<1>5. LoadValue(w, d) \in Word
  <2>1. d[7] \in BIT /\ d[15] \in BIT /\ 0 \in BIT
    BY <1>3 DEF BIT
  <2>2. /\ Extend(d, 8, d[7]) \in Word /\ Extend(d, 16, d[15]) \in Word
        /\ Extend(d, 8, 0) \in Word /\ Extend(d, 16, 0) \in Word
    BY <2>1, <1>4
  <2>. QED  BY <2>2 DEF LoadValue
<1>6. ASSUME NEW v \in Word
      PROVE  [f EXCEPT ![Rd(w)] = v] \in [1 .. 31 -> Word]
  OBVIOUS
<1> DEFINE op == Opcode(w)
<1>7. CASE Rd(w) = 0 \/ op \notin {OP_LUI, OP_AUIPC, OP_JAL, OP_JALR, OP_LOAD, OP_IMM, OP_REG}
  BY <1>7 DEF WriteBack
<1>8. CASE ~(Rd(w) = 0 \/ op \notin {OP_LUI, OP_AUIPC, OP_JAL, OP_JALR, OP_LOAD, OP_IMM, OP_REG})
  <2> DEFINE v == CASE op = OP_LUI   -> ImmU(w)
                    [] op = OP_AUIPC -> Add(ToBits(at, 32), ImmU(w))
                    [] op \in {OP_JAL, OP_JALR} -> Add(ToBits(at, 32), ToBits(4, 32))
                    [] op = OP_LOAD  -> LoadValue(w, d)
                    [] op \in {OP_IMM, OP_REG} -> y
  <2>1. v \in Word
    BY <1>1, <1>2, <1>5, <1>8
       DEF OP_LUI, OP_AUIPC, OP_JAL, OP_JALR, OP_LOAD, OP_IMM, OP_REG
  <2>2. WriteBack(w, f, at, y, d) = [f EXCEPT ![Rd(w)] = v]
    BY <1>8 DEF WriteBack
  <2> HIDE DEF v
  <2>. QED  BY <1>6, <2>1, <2>2
<1>. QED  BY <1>7, <1>8

-----------------------------------------------------------------------------
LEMMA WritesStep == WritesAreStores /\ [Next]_vars => WritesAreStores'
<1> SUFFICES ASSUME WritesAreStores, [Next]_vars
             PROVE  WritesAreStores'
  OBVIOUS
<1>1. CASE TickFetch
  BY <1>1 DEF TickFetch, Clocked, Fetch, WritesAreStores
<1>2. CASE TickFetchWait
  BY <1>2 DEF TickFetchWait, Clocked, FetchWait, WritesAreStores
<1>3. CASE TickDecode
  BY <1>3 DEF TickDecode, Clocked, Decode, WritesAreStores, reqVars
<1>4. CASE TickExec
  BY <1>4 DEF TickExec, Clocked, Exec, WritesAreStores, reqVars
<1>5. CASE TickMem
  BY <1>5 DEF TickMem, Clocked, Mem, WritesAreStores
<1>6. CASE TickMemWait
  BY <1>6 DEF TickMemWait, Clocked, MemWait, WritesAreStores
<1>7. CASE TickWb
  BY <1>7 DEF TickWb, Clocked, Wb, WritesAreStores
<1>8. CASE Pins
  BY <1>8 DEF Pins, ctrlVars, reqVars, WritesAreStores
<1>9. CASE Reset
  BY <1>9 DEF Reset, WritesAreStores
<1>10. CASE UNCHANGED vars
  BY <1>10 DEF vars, ctrlVars, reqVars, WritesAreStores
<1>. QED
  BY <1>1, <1>2, <1>3, <1>4, <1>5, <1>6, <1>7, <1>8, <1>9, <1>10 DEF Next, Tick

\* Nothing is written that no store instruction asked for: the write strobe is
\* up only while a store waits, at its own address and with its own data.
THEOREM WritesSafety == Spec => []WritesAreStores
<1>1. Init => WritesAreStores
  BY DEF Init, WritesAreStores
<1>. QED  BY <1>1, WritesStep, PTL DEF Spec

-----------------------------------------------------------------------------
\* Type correctness.

\* A word read from a pair of words.
LEMMA PairType ==
  ASSUME NEW w0 \in Word, NEW w1 \in Word, NEW off \in 0 .. 3
  PROVE  PairSelect(w0, w1, off) \in Word
<1> SUFFICES ASSUME NEW i \in 0 .. 31
             PROVE  (IF 8 * off + i < 32 THEN w0[8 * off + i]
                     ELSE w1[8 * off + i - 32]) \in BIT
  BY DEF PairSelect, Word, Bits
<1>1. 8 * off + i < 32 => 8 * off + i \in 0 .. 31
  OBVIOUS
<1>2. ~(8 * off + i < 32) => 8 * off + i - 32 \in 0 .. 31
  OBVIOUS
<1>. QED  BY <1>1, <1>2 DEF Word, Bits

\* What mem.v shows the core is a word, at every address.
LEMMA ReadType ==
  ASSUME TypeOK, NEW u \in Garbage
  PROVE  mem_rdata(u) \in Word
<1>1. u \in Word /\ rom \in RomWords
  BY SocAssumption DEF TypeOK
<1>2. mem_addr \in 0 .. 255
  BY DEF TypeOK, BusAddr
<1>3. rom_word(rom, mem_addr) \in Word
  <2>1. /\ mem_addr \div 4 \in 0 .. 63
        /\ ((mem_addr \div 4) + 1) % 64 \in 0 .. 63
        /\ mem_addr % 4 \in 0 .. 3
    BY <1>2
  <2>2. rom[mem_addr \div 4] \in Word /\ rom[((mem_addr \div 4) + 1) % 64] \in Word
    BY <1>1, <2>1 DEF RomWords
  <2>. QED  BY <2>1, <2>2, PairType DEF rom_word
<1>4. in_ram(mem_addr, flash_mode) => ram_word(ram_words, mem_addr, u) \in Word
  <2> SUFFICES ASSUME in_ram_range(mem_addr)
               PROVE  ram_word(ram_words, mem_addr, u) \in Word
    BY DEF in_ram
  <2>1. /\ ram_addr(mem_addr) = mem_addr - RAM_BASE
        /\ mem_addr - RAM_BASE \in 0 .. RAM_BYTES - 1
        /\ ram_widx0(mem_addr) \in 0 .. NWORDS - 1
    BY RamIndex DEF TypeOK
  <2>2. ram_addr(mem_addr) \in 0 .. 63
    BY <2>1, MapFacts
  <2>3. ram_widx1(mem_addr) \in Nat /\ ram_addr(mem_addr) % 4 \in 0 .. 3
    BY <2>2 DEF ram_widx1
  <2>4. \A w \in Nat : ReadWordAt(ram_words, w, u) \in Word
    <3>1. ram_words \in [0 .. NWORDS - 1 -> Word]
      BY DEF TypeOK, RamWords
    <3>. QED  BY <1>1, <3>1, MapFacts DEF ReadWordAt
  <2>5. ram_widx0(mem_addr) \in Nat
    BY <2>1, MapFacts
  <2>. QED  BY <2>3, <2>4, <2>5, PairType DEF ram_word
<1>5. Wide(gpio_out) \in Word /\ Wide(gpio_in) \in Word
  <2>1. gpio_out \in Byte /\ gpio_in \in Byte
    BY SocAssumption DEF TypeOK
  <2>. QED  BY <2>1 DEF Wide, Byte, Word, Bits, BIT
<1>6. ToBits(flash_page, 32) \in Word /\ Zeros(32) \in Word
  BY ToBitsType, ZerosType DEF TypeOK, BusAddr, Word
<1>7. rdata \in Word
  BY DEF TypeOK
<1>. QED  BY <1>3, <1>4, <1>5, <1>6, <1>7 DEF mem_rdata

\* An external access is one of the record type of Serial, and writes only to
\* the PSRAM.
WireRegs ==
  /\ mem_addr \in BusAddr /\ mem_wdata \in Word /\ mem_size \in Size
  /\ mem_we \in BOOLEAN /\ flash_mode \in BOOLEAN /\ flash_page \in BusAddr

LEMMA WireType ==
  ASSUME WireRegs
  PROVE  ext_acc \in AccessType /\ (ext_acc.dev = "flash" => ~ext_acc.we)
<1>1. ext_addr(mem_addr, flash_mode, flash_page) \in Addr24
  <2> DEFINE x == IF in_ext_flash(mem_addr, flash_mode)
                    THEN flash_page * WINDOW_BYTES + (mem_addr - LOAD_BASE)
                    ELSE (mem_addr - EXT_PSRAM_BASE) % 256
  <2>1. x \in Nat
    <3>1. flash_page * WINDOW_BYTES \in Nat
      BY MapFacts, MapAssumption DEF WireRegs, BusAddr, WINDOW_BYTES
    <3>2. in_ext_flash(mem_addr, flash_mode) => mem_addr - LOAD_BASE \in Nat
      BY MapFacts DEF WireRegs, BusAddr, in_ext_flash, in_load_range
    <3>3. (mem_addr - EXT_PSRAM_BASE) % 256 \in Nat
      <4>1. mem_addr - EXT_PSRAM_BASE \in Int
        BY MapAssumption DEF WireRegs, BusAddr
      <4>. QED  BY <4>1
    <3>. QED  BY <3>1, <3>2, <3>3
  <2> HIDE DEF x
  <2>2. ToBits(x, 24) \in Addr24
    BY <2>1, ToBitsType DEF Addr24
  <2>. QED  BY <2>2 DEF ext_addr, x
<1>2. (mem_we /\ ~in_ext_flash(mem_addr, flash_mode)) \in BOOLEAN
  OBVIOUS
<1>3. req_dev(mem_addr, flash_mode) \in Dev
  BY DEF req_dev, Dev
<1>. QED  BY <1>1, <1>2, <1>3 DEF ext_acc, AccessType, WireRegs, req_dev

LEMMA ExtAccType ==
  ASSUME TypeOK
  PROVE  ext_acc \in AccessType
BY WireType DEF TypeOK, WireRegs

\* The memory keeps its types at a clock edge.
LEMMA MemClockType ==
  ASSUME TypeOK, MemClock
  PROVE  /\ ram_words' \in RamWords
         /\ flash_mode' \in BOOLEAN /\ flash_page' \in BusAddr
         /\ gpio_out' \in Byte
<1>1. mem_wdata \in Word /\ mem_addr \in BusAddr /\ mem_size \in Size
  BY DEF TypeOK
<1>2. in_ram(mem_addr, flash_mode) =>
        WriteRam(ram_words, mem_addr, mem_size, mem_wdata) \in RamWords
  BY <1>1, WriteRamType DEF TypeOK, in_ram
<1>3. Lane(mem_wdata, 0) \in Byte /\ Addr8(mem_wdata) \in BusAddr
  BY <1>1, LaneType, FieldTypes DEF BusAddr
<1>. QED  BY <1>2, <1>3 DEF MemClock, TypeOK

\* The port keeps its types at a clock edge.
LEMMA PortClockType ==
  ASSUME TypeOK, PortClock
  PROVE  /\ ready' \in BOOLEAN /\ rdata' \in Word /\ moved' \in 0 .. 4
         /\ store' \in Store
<1> DEFINE a == ext_acc
           n == Bytes(mem_size)
<1>1. /\ a \in AccessType /\ n \in {1, 2, 4}
      /\ store \in Store /\ moved \in 0 .. 4 /\ ready \in BOOLEAN /\ rdata \in Word
  BY ExtAccType DEF TypeOK, Size, Bytes
<1>2. \A k : Idx(Plus(a.addr, 24, k)) \in Index
  <2>1. a.addr \in Addr24
    BY <1>1 DEF AccessType
  <2>2. \A k : Plus(a.addr, 24, k) \in Addr24
    BY <2>1, PlusType DEF Addr24
  <2>. QED  BY <2>2, IdxType
<1> HIDE DEF a, n
<1>3. CASE ~ext_req_valid /\ UNCHANGED portVars
  BY <1>1, <1>3 DEF portVars
<1>4. CASE /\ ext_req_valid /\ ~ready /\ moved < n
           /\ moved' = moved + 1
           /\ store' = IF a.we
                         THEN [store EXCEPT ![a.dev][Idx(Plus(a.addr, 24, moved))] =
                                 Lane(a.wdata, moved)]
                         ELSE store
           /\ UNCHANGED <<ready, rdata>>
  <2>1. moved \in 0 .. 3
    BY <1>1, <1>4
  <2>2. Lane(a.wdata, moved) \in Byte
    <3>1. a.wdata \in Word
      BY <1>1 DEF AccessType
    <3>. QED  BY <2>1, <3>1, LaneType
  <2>3. ASSUME NEW x, NEW b \in Byte
        PROVE  [store EXCEPT ![a.dev][x] = b] \in Store
    BY <1>1 DEF Store
  <2>4. store' \in Store
    <3>1. CASE a.we
      <4>1. store' = [store EXCEPT ![a.dev][Idx(Plus(a.addr, 24, moved))] =
                        Lane(a.wdata, moved)]
        BY <1>4, <3>1
      <4>. QED  BY <2>2, <2>3, <4>1
    <3>2. CASE ~a.we
      BY <1>1, <1>4, <3>2
    <3>. QED  BY <3>1, <3>2
  <2>. QED  BY <1>1, <1>4, <2>1, <2>4
<1>5. CASE /\ ext_req_valid /\ ~ready /\ moved = n
           /\ moved' = 0
           /\ ready' = TRUE
           /\ rdata' = IF a.we THEN Zeros(32)
                       ELSE [i \in 0 .. 31 |->
                               IF i < 8 * n
                                 THEN store[a.dev][Idx(Plus(a.addr, 24, i \div 8))][i % 8]
                                 ELSE 0]
           /\ UNCHANGED store
  <2>1. \A i \in 0 .. 31 :
          store[a.dev][Idx(Plus(a.addr, 24, i \div 8))][i % 8] \in BIT
    <3> SUFFICES ASSUME NEW i \in 0 .. 31
                 PROVE  store[a.dev][Idx(Plus(a.addr, 24, i \div 8))][i % 8] \in BIT
      OBVIOUS
    <3>1. i % 8 \in 0 .. 7
      OBVIOUS
    <3>2. a.dev \in Dev
      BY <1>1 DEF AccessType
    <3>3. store[a.dev][Idx(Plus(a.addr, 24, i \div 8))] \in Byte
      BY <1>1, <1>2, <3>2 DEF Store
    <3>. QED  BY <3>1, <3>3 DEF Byte, Bits
  <2>2. rdata' \in Word
    <3>1. CASE a.we
      BY <1>5, <3>1, ZerosType DEF Word
    <3>2. CASE ~a.we
      <4>1. rdata' = [i \in 0 .. 31 |->
                        IF i < 8 * n
                          THEN store[a.dev][Idx(Plus(a.addr, 24, i \div 8))][i % 8]
                          ELSE 0]
        BY <1>5, <3>2
      <4>. QED  BY <2>1, <4>1 DEF Word, Bits, BIT
    <3>. QED  BY <3>1, <3>2
  <2>. QED  BY <1>1, <1>5, <2>2
<1>6. CASE /\ ext_req_valid /\ ready
           /\ ready' = FALSE
           /\ UNCHANGED <<rdata, moved, store>>
  BY <1>1, <1>6
<1>. QED  BY <1>3, <1>4, <1>5, <1>6 DEF PortClock, a, n

LEMMA InitTypes ==
  ASSUME Init
  PROVE  TypeOK
<1>1. Zeros(32) \in Word /\ Zeros(8) \in Byte
  BY ZerosType DEF Word, Byte
<1>2. regs \in [1 .. 31 -> Word] /\ ram_words \in RamWords /\ store \in Store
  BY SocAssumption, StoreAssumption DEF Init
<1>3. /\ pc \in BusAddr /\ next_pc \in BusAddr /\ mem_addr \in BusAddr
      /\ flash_page \in BusAddr
  BY DEF Init, BusAddr
<1>4. resets \in 0 .. MaxResets
  BY SocAssumption DEF Init
<1>5. /\ mem_we \in BOOLEAN /\ mem_valid \in BOOLEAN
      /\ flash_mode \in BOOLEAN /\ ready \in BOOLEAN
  BY DEF Init
<1>6. /\ ir \in Word /\ alu_result \in Word /\ mem_wdata \in Word
      /\ rdata \in Word /\ gpio_out \in Byte
  BY <1>1 DEF Init
<1>7. /\ state \in CoreState /\ mem_size \in Size /\ moved \in 0 .. 4
      /\ rom \in Roms /\ gpio_in \in GpioIn /\ settled \in Store
  BY <1>2 DEF Init, CoreState, Size
<1>. QED  BY <1>2, <1>3, <1>4, <1>5, <1>6, <1>7 DEF TypeOK

\* The core on a clock edge, in whichever state it is.
CoreClock == Fetch \/ FetchWait \/ Decode \/ Exec \/ Mem \/ MemWait \/ Wb

LEMMA TickClocks == Tick <=> Clocked(CoreClock)
BY DEF Tick, Clocked, CoreClock, TickFetch, TickFetchWait, TickDecode, TickExec,
       TickMem, TickMemWait, TickWb

\* The core keeps its types at a clock edge, whatever the port does.
CoreTyped ==
  /\ state \in CoreState
  /\ pc \in BusAddr /\ next_pc \in BusAddr
  /\ ir \in Word /\ alu_result \in Word
  /\ regs \in [1 .. 31 -> Word]
  /\ mem_addr \in BusAddr /\ mem_wdata \in Word
  /\ mem_size \in Size
  /\ mem_we \in BOOLEAN /\ mem_valid \in BOOLEAN
  /\ settled \in Store

LEMMA CoreClockType ==
  ASSUME TypeOK, CoreClock
  PROVE  CoreTyped'
<1>1. AluY(ir, regs) \in Word /\ NextPc(ir, regs, pc) \in BusAddr
  BY AluYType, NextPcType DEF TypeOK, BusAddr
<1>2. CASE Fetch
  BY <1>2 DEF Fetch, TypeOK, CoreTyped, CoreState, Size
<1>3. CASE FetchWait
  BY <1>3 DEF FetchWait, TypeOK, CoreTyped, CoreState
<1>4. CASE Decode
  BY <1>4, ReadType DEF Decode, TypeOK, CoreTyped, CoreState, reqVars
<1>5. CASE Exec
  BY <1>1, <1>5 DEF Exec, TypeOK, CoreTyped, CoreState, reqVars
<1>6. CASE Mem
  <2>1. /\ Addr8(AluY(ir, regs)) \in BusAddr
        /\ AccessSize(ir) \in Size
        /\ Reg(regs, Rs2(ir)) \in Word
    BY <1>1, FieldTypes, RegType DEF BusAddr, AccessSize, Size, TypeOK
  <2>. QED  BY <1>6, <2>1 DEF Mem, TypeOK, CoreTyped, CoreState
<1>7. CASE MemWait
  BY <1>7 DEF MemWait, TypeOK, CoreTyped, CoreState
<1>8. CASE Wb
  <2>1. regs' \in [1 .. 31 -> Word]
    <3>1. PICK u \in Garbage :
            regs' = WriteBack(ir, regs, pc, alu_result, mem_rdata(u))
      BY <1>8 DEF Wb
    <3>2. /\ mem_rdata(u) \in Word /\ alu_result \in Word /\ ir \in Word
          /\ regs \in [1 .. 31 -> Word] /\ pc \in 0 .. 255
      BY ReadType DEF TypeOK, BusAddr
    <3>. QED  BY <3>1, <3>2, WriteBackType
  <2>. QED  BY <1>8, <2>1 DEF Wb, TypeOK, CoreTyped, CoreState
<1>. QED  BY <1>2, <1>3, <1>4, <1>5, <1>6, <1>7, <1>8 DEF CoreClock

LEMMA TypesStep == TypeOK /\ [Next]_vars => TypeOK'
<1> SUFFICES ASSUME TypeOK, [Next]_vars
             PROVE  TypeOK'
  OBVIOUS
<1>1. CASE Tick
  <2>1. CoreClock /\ MemClock /\ PortClock /\ UNCHANGED <<rom, gpio_in, resets>>
    BY <1>1, TickClocks DEF Clocked
  <2>2. CoreTyped'
    BY <2>1, CoreClockType
  <2>3. /\ ram_words' \in RamWords
        /\ flash_mode' \in BOOLEAN /\ flash_page' \in BusAddr
        /\ gpio_out' \in Byte
    BY <2>1, MemClockType
  <2>4. /\ ready' \in BOOLEAN /\ rdata' \in Word /\ moved' \in 0 .. 4
        /\ store' \in Store
    BY <2>1, PortClockType
  <2>5. rom' \in Roms /\ gpio_in' \in GpioIn /\ resets' \in 0 .. MaxResets
    BY <2>1 DEF TypeOK
  <2>. QED  BY <2>2, <2>3, <2>4, <2>5 DEF TypeOK, CoreTyped
<1>2. CASE Pins
  BY <1>2 DEF Pins, TypeOK, ctrlVars, reqVars, memVars, portVars
<1>3. CASE Reset
  <2>1. Zeros(32) \in Word /\ Zeros(8) \in Byte
    BY ZerosType DEF Word, Byte
  <2>2. /\ mem_we' \in BOOLEAN /\ mem_valid' \in BOOLEAN
        /\ flash_mode' \in BOOLEAN /\ ready' \in BOOLEAN
    BY <1>3 DEF Reset
  <2>3. /\ pc' \in BusAddr /\ next_pc' \in BusAddr /\ mem_addr' \in BusAddr
        /\ flash_page' \in BusAddr /\ moved' \in 0 .. 4
        /\ state' \in CoreState /\ mem_size' \in Size
    BY <1>3 DEF Reset, TypeOK, BusAddr, CoreState, Size
  <2>4. /\ ir' \in Word /\ mem_wdata' \in Word /\ rdata' \in Word /\ gpio_out' \in Byte
    BY <1>3, <2>1 DEF Reset
  <2>5. resets' \in 0 .. MaxResets
    BY <1>3, SocAssumption DEF Reset, TypeOK
  <2>6. /\ alu_result' \in Word /\ regs' \in [1 .. 31 -> Word]
        /\ ram_words' \in RamWords /\ store' \in Store /\ settled' \in Store
        /\ rom' \in Roms /\ gpio_in' \in GpioIn
    BY <1>3 DEF Reset, TypeOK
  <2>. QED  BY <2>2, <2>3, <2>4, <2>5, <2>6 DEF TypeOK
<1>4. CASE UNCHANGED vars
  BY <1>4 DEF vars, TypeOK, ctrlVars, reqVars, memVars, portVars
<1>. QED  BY <1>1, <1>2, <1>3, <1>4 DEF Next

\* Every register of core and memory keeps its width, whatever the program.
THEOREM SocTypes == Spec => []TypeOK
BY InitTypes, TypesStep, PTL DEF Spec

-----------------------------------------------------------------------------
\* Core and memory keep their side of the external port.  The abstract port is
\* stated over a set of accesses; here that set has every access that reads,
\* and every one that writes to the PSRAM.

EveryAccess == \A a \in AccessType : (a.dev = "flash" => ~a.we) => a \in Access

\* An access is asked for only while the core waits.
Waiting == mem_valid => state \in {"FETCH_WAIT", "MEM_WAIT"}

PortIInv == TypeOK /\ WritesAreStores /\ Waiting /\ AskedAcc \in Access

\* The operators on bit vectors are the same inside the instance.
LEMMA PortOperators ==
  /\ Port!Zeros(32) = Zeros(32)
  /\ Port!Word = Word
  /\ \A n : Port!Bytes(n) = Bytes(n)
  /\ \A w, k : Port!Lane(w, k) = Lane(w, k)
  /\ \A v, n, k : Port!Idx(Port!Plus(v, n, k)) = Idx(Plus(v, n, k))
<1>1. Port!Zeros(32) = Zeros(32)
  BY DEF Port!Zeros, Zeros
<1>2. Port!Word = Word
  BY DEF Port!Word, Word, Port!Bits, Bits, Port!BIT, BIT
<1>3. \A n : Port!Bytes(n) = Bytes(n)
  BY DEF Port!Bytes, Bytes
<1>4. \A w, k : Port!Lane(w, k) = Lane(w, k)
  BY DEF Port!Lane, Lane
<1>5. \A v, n : Port!Increment(v, n) = Increment(v, n)
  BY DEF Port!Increment, Increment
<1>6. \A v, n, k : Port!Plus(v, n, k) = Plus(v, n, k)
  BY <1>5 DEF Port!Plus, Plus
<1>7. \A v : Port!Idx(v) = Idx(v)
  BY DEF Port!Idx, Idx, Port!Low, Low
<1>. QED  BY <1>1, <1>2, <1>3, <1>4, <1>6, <1>7

LEMMA WaitingStep ==
  ASSUME Waiting, [Next]_vars
  PROVE  Waiting'
<1>1. CASE TickFetch
  BY <1>1 DEF TickFetch, Clocked, Fetch, Waiting
<1>2. CASE TickFetchWait
  BY <1>2 DEF TickFetchWait, Clocked, FetchWait, Waiting
<1>3. CASE TickDecode
  BY <1>3 DEF TickDecode, Clocked, Decode, Waiting, reqVars
<1>4. CASE TickExec
  BY <1>4 DEF TickExec, Clocked, Exec, Waiting, reqVars
<1>5. CASE TickMem
  BY <1>5 DEF TickMem, Clocked, Mem, Waiting
<1>6. CASE TickMemWait
  BY <1>6 DEF TickMemWait, Clocked, MemWait, Waiting
<1>7. CASE TickWb
  BY <1>7 DEF TickWb, Clocked, Wb, Waiting
<1>8. CASE Pins
  BY <1>8 DEF Pins, ctrlVars, reqVars, Waiting
<1>9. CASE Reset
  BY <1>9 DEF Reset, Waiting
<1>10. CASE UNCHANGED vars
  BY <1>10 DEF vars, ctrlVars, reqVars, Waiting
<1>. QED
  BY <1>1, <1>2, <1>3, <1>4, <1>5, <1>6, <1>7, <1>8, <1>9, <1>10 DEF Next, Tick

\* What is asked for is an access of the set, whether or not one is.
LEMMA AskedType ==
  ASSUME EveryAccess, TypeOK
  PROVE  AskedAcc \in Access
<1>1. CASE ext_req_valid
  <2>1. /\ ext_acc \in AccessType
        /\ ext_acc.dev = "flash" => ~ext_acc.we
    BY ExtAccType DEF ext_acc, req_dev
  <2>2. Zeros(32) \in Word
    BY ZerosType DEF Word
  <2> DEFINE asked == [ext_acc EXCEPT !.wdata = IF ext_acc.we THEN @ ELSE Zeros(32)]
  <2>3. asked \in AccessType /\ asked.dev = ext_acc.dev /\ asked.we = ext_acc.we
    BY <2>1, <2>2 DEF AccessType
  <2>4. asked \in Access
    BY <2>1, <2>3 DEF EveryAccess
  <2>. QED  BY <1>1, <2>4 DEF AskedAcc
<1>2. CASE ~ext_req_valid
  <2> DEFINE any == [we |-> FALSE, dev |-> "psram", addr |-> Zeros(24),
                     wdata |-> Zeros(32), size |-> 0]
  <2>1. any \in AccessType
    BY ZerosType DEF AccessType, Dev, Size, Word, Addr24
  <2>2. any \in Access
    BY <2>1 DEF EveryAccess
  <2>3. AskedAcc = CHOOSE a \in Access : TRUE
    BY <1>2 DEF AskedAcc
  <2> HIDE DEF any
  <2>. QED  BY <2>2, <2>3
<1>. QED  BY <1>1, <1>2

\* At an edge that finds the core waiting for the devices, nothing in mem.v
\* changes; at one that finds it not waiting, nothing is written.
LEMMA MemQuiet ==
  ASSUME TypeOK, WritesAreStores, MemClock,
         ext_req_valid \/ state \notin {"FETCH_WAIT", "MEM_WAIT"}
  PROVE  flash_mode' = flash_mode /\ flash_page' = flash_page
<1>1. mem_addr \in 0 .. 255 /\ flash_mode \in BOOLEAN
  BY DEF TypeOK, BusAddr
<1>2. CASE ext_req_valid
  <2>1. mem_addr < 240
    BY <1>1, <1>2, MapFacts, MapAssumption
       DEF ext_req_valid, in_ext, in_ext_flash, in_load_range, in_ext_psram
  <2>. QED  BY <1>1, <2>1 DEF MemClock, FLASH_MODE, FLASH_PAGE
<1>3. CASE state \notin {"FETCH_WAIT", "MEM_WAIT"}
  <2>1. ~mem_we
    BY <1>3 DEF WritesAreStores
  <2>. QED  BY <1>1, <2>1 DEF MemClock
<1>. QED  BY <1>2, <1>3

\* The wires of the port while the registers behind them keep still.
LEMMA WiresHeld ==
  ASSUME UNCHANGED <<mem_addr, mem_wdata, mem_size, mem_we, mem_valid,
                     flash_mode, flash_page>>
  PROVE  ext_req_valid' = ext_req_valid /\ AskedAcc' = AskedAcc
<1>1. ext_req_valid' = ext_req_valid /\ ext_acc' = ext_acc
  BY DEF ext_req_valid, ext_acc
<1>. QED  BY <1>1 DEF AskedAcc

\* The edge that carries one byte, or answers, of an access still asked for.
LEMMA BusyStep ==
  ASSUME PortIInv, PortClock, ext_req_valid, ~ready,
         ext_req_valid' = ext_req_valid, AskedAcc' = AskedAcc,
         rdata' \in Word
  PROVE  Port!Next
<1> DEFINE a == ext_acc
           n == Bytes(mem_size)
           c == AskedAcc
<1>1. /\ a \in AccessType /\ a.size = mem_size /\ store \in Store
      /\ moved \in 0 .. 4
  BY ExtAccType DEF PortIInv, TypeOK, ext_acc
<1>2. /\ c.we = a.we /\ c.dev = a.dev /\ c.addr = a.addr /\ c.size = a.size
      /\ a.we => c.wdata = a.wdata
  BY <1>1 DEF AskedAcc, AccessType
<1>3. Bytes(c.size) = n
  BY <1>1, <1>2
<1> HIDE DEF a, c, n
<1>4. CASE /\ moved < n
           /\ moved' = moved + 1
           /\ store' = IF a.we
                         THEN [store EXCEPT ![a.dev][Idx(Plus(a.addr, 24, moved))] =
                                 Lane(a.wdata, moved)]
                         ELSE store
           /\ UNCHANGED <<ready, rdata>>
  <2>1. store' = IF c.we
                   THEN [store EXCEPT ![c.dev] =
                           Port!WriteByte(@, c.addr, moved, c.wdata)]
                   ELSE store
    <3>1. CASE ~a.we
      BY <1>2, <1>4, <3>1
    <3>2. CASE a.we
      <4>1. store' = [store EXCEPT ![a.dev][Idx(Plus(a.addr, 24, moved))] =
                        Lane(a.wdata, moved)]
        BY <1>4, <3>2
      <4>2. c.we /\ c.dev = a.dev /\ c.addr = a.addr /\ c.wdata = a.wdata
        BY <1>2, <3>2
      <4>3. Port!WriteByte(store[c.dev], c.addr, moved, c.wdata)
              = [store[c.dev] EXCEPT ![Idx(Plus(c.addr, 24, moved))] =
                   Lane(c.wdata, moved)]
        BY PortOperators DEF Port!WriteByte
      <4>. QED  BY <4>1, <4>2, <4>3
    <3>. QED  BY <3>1, <3>2
  <2>2. Port!MoveByte
    <3>1. Port!Bytes(c.size) = n
      BY <1>3, PortOperators
    <3>. QED  BY <1>4, <2>1, <3>1 DEF Port!MoveByte, c
  <2>. QED  BY <2>2 DEF Port!Next
<1>5. CASE /\ moved = n
           /\ moved' = 0
           /\ ready' = TRUE
           /\ rdata' = IF a.we THEN Zeros(32)
                       ELSE [i \in 0 .. 31 |->
                               IF i < 8 * n
                                 THEN store[a.dev][Idx(Plus(a.addr, 24, i \div 8))][i % 8]
                                 ELSE 0]
           /\ UNCHANGED store
  <2>1. ~c.we => rdata' = Port!ReadWord(store[c.dev], c.addr, Bytes(c.size))
    <3> SUFFICES ASSUME ~c.we
                 PROVE  rdata' = Port!ReadWord(store[c.dev], c.addr, Bytes(c.size))
      OBVIOUS
    <3>1. ~a.we /\ c.dev = a.dev /\ c.addr = a.addr
      BY <1>2
    <3>2. rdata' = [i \in 0 .. 31 |->
                      IF i < 8 * n
                        THEN store[a.dev][Idx(Plus(a.addr, 24, i \div 8))][i % 8]
                        ELSE 0]
      BY <1>5, <3>1
    <3>. QED  BY <1>3, <3>1, <3>2, PortOperators DEF Port!ReadWord
  <2>2. Port!Answer
    <3>1. Port!Bytes(c.size) = n /\ Port!Word = Word
      BY <1>3, PortOperators
    <3>. QED  BY <1>3, <1>5, <2>1, <3>1 DEF Port!Answer, c
  <2>. QED  BY <2>2 DEF Port!Next
<1>. QED  BY <1>4, <1>5 DEF PortClock, a, n

\* Every step of the computer is a step of the port, or none of its business.
LEMMA PortStep ==
  ASSUME PortIInv, PortIInv', [Next]_vars
  PROVE  [Port!Next]_(Port!portVars)
<1>0. AskedAcc \in Access /\ AskedAcc' \in Access
  BY DEF PortIInv
<1>1. ASSUME UNCHANGED portVars, ~ext_req_valid
      PROVE  [Port!Next]_(Port!portVars)
  <2>1. CASE ext_req_valid'
    BY <1>0, <1>1, <2>1 DEF Port!Next, Port!Ask, portVars
  <2>2. CASE ~ext_req_valid'
    <3>1. AskedAcc' = AskedAcc
      BY <1>1, <2>2 DEF AskedAcc
    <3>2. ext_req_valid' = ext_req_valid
      BY <1>1, <2>2 DEF ext_req_valid
    <3>. QED  BY <1>1, <3>1, <3>2 DEF Port!portVars, portVars
  <2>. QED  BY <2>1, <2>2
<1>2. ASSUME ext_req_valid, ready, PortClock, mem_valid' = FALSE
      PROVE  [Port!Next]_(Port!portVars)
  <2>1. ~ext_req_valid'
    BY <1>2 DEF ext_req_valid
  <2>2. ready' = FALSE /\ UNCHANGED <<rdata, moved, store>>
    BY <1>2 DEF PortClock
  <2>. QED  BY <1>0, <1>2, <2>1, <2>2 DEF Port!Next, Port!Acknowledge
<1>3. ASSUME PortClock, MemClock, state \notin {"FETCH_WAIT", "MEM_WAIT"}
      PROVE  [Port!Next]_(Port!portVars)
  <2>1. ~ext_req_valid
    BY <1>3 DEF PortIInv, Waiting, ext_req_valid
  <2>. QED  BY <1>1, <1>3, <2>1 DEF PortClock
<1>4. ASSUME PortClock, MemClock,
             mem_ready => mem_valid' = FALSE,
             ~mem_ready => UNCHANGED <<mem_valid, mem_we>>,
             UNCHANGED <<mem_addr, mem_wdata, mem_size>>
      PROVE  [Port!Next]_(Port!portVars)
  <2>1. CASE ~ext_req_valid
    BY <1>1, <1>4, <2>1 DEF PortClock
  <2>2. CASE ext_req_valid /\ ready
    BY <1>2, <1>4, <2>2 DEF mem_ready
  <2>3. CASE ext_req_valid /\ ~ready
    <3>1. ~mem_ready
      BY <2>3 DEF mem_ready
    <3>2. flash_mode' = flash_mode /\ flash_page' = flash_page
      BY <1>4, <2>3, MemQuiet DEF PortIInv
    <3>3. ext_req_valid' = ext_req_valid /\ AskedAcc' = AskedAcc
      BY <1>4, <3>1, <3>2, WiresHeld
    <3>4. rdata' \in Word
      BY DEF PortIInv, TypeOK
    <3>. QED  BY <1>4, <2>3, <3>3, <3>4, BusyStep
  <2>. QED  BY <2>1, <2>2, <2>3
<1>5. CASE TickFetch
  BY <1>3, <1>5 DEF TickFetch, Clocked, Fetch
<1>6. CASE TickFetchWait
  BY <1>4, <1>6 DEF TickFetchWait, Clocked, FetchWait
<1>7. CASE TickDecode
  BY <1>3, <1>7 DEF TickDecode, Clocked, Decode
<1>8. CASE TickExec
  BY <1>3, <1>8 DEF TickExec, Clocked, Exec
<1>9. CASE TickMem
  BY <1>3, <1>9 DEF TickMem, Clocked, Mem
<1>10. CASE TickMemWait
  BY <1>4, <1>10 DEF TickMemWait, Clocked, MemWait
<1>11. CASE TickWb
  BY <1>3, <1>11 DEF TickWb, Clocked, Wb
<1>12. CASE Pins \/ UNCHANGED vars
  <2>1. UNCHANGED <<portVars, reqVars, flash_mode, flash_page>>
    BY <1>12 DEF Pins, vars, memVars
  <2>2. ext_req_valid' = ext_req_valid /\ AskedAcc' = AskedAcc
    BY <2>1, WiresHeld DEF reqVars
  <2>. QED  BY <2>1, <2>2 DEF portVars, Port!portVars
<1>13. CASE Reset
  <2>1. ~ext_req_valid'
    BY <1>13 DEF Reset, ext_req_valid
  <2>2. Port!Abandon
    BY <1>0, <1>13, <2>1, PortOperators DEF Reset, Port!Abandon
  <2>. QED  BY <2>2 DEF Port!Next
<1>. QED
  BY <1>5, <1>6, <1>7, <1>8, <1>9, <1>10, <1>11, <1>12, <1>13 DEF Next, Tick

\* The computer drives the external port as ExtPort allows: an access is never
\* changed while it is asked for, never withdrawn before its answer (a reset
\* apart), and always withdrawn then.
THEOREM PortContract ==
  ASSUME EveryAccess
  PROVE  Spec => KeepsPortContract
<1>1. Init => Port!Init
  <2> SUFFICES ASSUME Init
               PROVE  Port!Init
    OBVIOUS
  <2>1. ~ext_req_valid
    BY DEF Init, ext_req_valid
  <2>2. ready = FALSE /\ rdata = Zeros(32) /\ moved = 0 /\ store \in InitStore
    BY DEF Init
  <2>3. AskedAcc \in Access
    BY AskedType, InitTypes
  <2>. QED  BY <2>1, <2>2, <2>3, PortOperators DEF Port!Init
<1>2. Init => Waiting
  BY DEF Init, Waiting
<1>3. Waiting /\ [Next]_vars => Waiting'
  BY WaitingStep
<1>4. PortIInv /\ PortIInv' /\ [Next]_vars => [Port!Next]_(Port!portVars)
  BY PortStep
<1>5. Spec => []TypeOK /\ []WritesAreStores
  BY SocTypes, WritesSafety
<1>6. TypeOK => AskedAcc \in Access
  BY AskedType
<1>. QED  BY <1>1, <1>2, <1>3, <1>4, <1>5, <1>6, PTL DEF Spec, PortIInv, KeepsPortContract, Port!Spec

-----------------------------------------------------------------------------
\* The computer implements its instruction set.

\* First: the operators inside the instance of Isa are those of the computer.

LEMMA ProgramOperators ==
  /\ \A w : Program!Opcode(w) = Opcode(w)
  /\ \A w : Program!Addr8(w) = Addr8(w)
  /\ \A w : Program!AccessSize(w) = AccessSize(w)
  /\ \A w, f : Program!Reg(f, Program!Rs2(w)) = Reg(f, Rs2(w))
  /\ \A n : Program!Bytes(n) = Bytes(n)
  /\ \A w, k : Program!Lane(w, k) = Lane(w, k)
  /\ Program!Zeros(32) = Zeros(32) /\ Program!Zeros(8) = Zeros(8)
<1>1. \A w : Program!Opcode(w) = Opcode(w)
  BY DEF Program!Opcode, Opcode, Program!Val, Val, Program!Slice, Slice
<1>2. \A w : Program!Addr8(w) = Addr8(w)
  BY DEF Program!Addr8, Addr8, Program!Val, Val
<1>3. \A w : Program!AccessSize(w) = AccessSize(w)
  BY DEF Program!AccessSize, AccessSize, Program!Funct3, Funct3,
         Program!Val, Val, Program!Slice, Slice
<1>4. \A w, f : Program!Reg(f, Program!Rs2(w)) = Reg(f, Rs2(w))
  BY DEF Program!Reg, Reg, Program!Rs2, Rs2, Program!Val, Val, Program!Slice, Slice,
         Program!Zeros, Zeros
<1>5. \A n : Program!Bytes(n) = Bytes(n)
  BY DEF Program!Bytes, Bytes
<1>6. \A w, k : Program!Lane(w, k) = Lane(w, k)
  BY DEF Program!Lane, Lane
<1>7. Program!Zeros(32) = Zeros(32) /\ Program!Zeros(8) = Zeros(8)
  BY DEF Program!Zeros, Zeros
<1> QED
  BY <1>1, <1>2, <1>3, <1>4, <1>5, <1>6, <1>7

LEMMA ProgramAlu ==
  \A w, f : Program!AluY(w, f) = AluY(w, f)
<1>1. \A w : /\ Program!Opcode(w) = Opcode(w) /\ Program!Funct3(w) = Funct3(w)
             /\ Program!Rs1(w) = Rs1(w) /\ Program!Rs2(w) = Rs2(w)
             /\ Program!ImmI(w) = ImmI(w) /\ Program!ImmS(w) = ImmS(w)
  BY DEF Program!Opcode, Opcode, Program!Funct3, Funct3, Program!Rs1, Rs1, Program!Rs2, Rs2,
         Program!ImmI, ImmI, Program!ImmS, ImmS, Program!Val, Val, Program!Slice, Slice
<1>2. \A f, n : Program!Reg(f, n) = Reg(f, n)
  BY DEF Program!Reg, Reg, Program!Zeros, Zeros
<1>3. \A w : Program!AluOp(w) = AluOp(w)
  BY DEF Program!AluOp, AluOp, Program!OP_IMM, OP_IMM, Program!OP_REG, OP_REG,
         Program!OP_BRANCH, OP_BRANCH, Program!Opcode, Opcode, Program!Funct3, Funct3,
         Program!Val, Val, Program!Slice, Slice
<1>4. \A x, y, c : Program!AddC(x, y, c) = AddC(x, y, c)
  BY DEF Program!AddC, AddC, Program!Carry, Carry
<1>5. \A x, y : Program!Add(x, y) = Add(x, y) /\ Program!Sub(x, y) = Sub(x, y)
  BY <1>4 DEF Program!Add, Add, Program!Sub, Sub
<1>6. \A x, y : /\ Program!Flag(Program!LessS(x, y)) = Flag(LessS(x, y))
                /\ Program!Flag(Program!LessU(x, y)) = Flag(LessU(x, y))
                /\ Program!Val(y, 5) = Val(y, 5)
  BY DEF Program!LessS, LessS, Program!LessU, LessU, Program!Flag, Flag,
         Program!ToBits, ToBits, Program!Val, Val
<1>7. \A op, x, y : Program!Alu(op, x, y) = Alu(op, x, y)
  BY DEF Program!Alu, Alu, Program!Add, Add, Program!Sub, Sub, Program!AddC, AddC,
         Program!Carry, Carry, Program!LessS, LessS, Program!LessU, LessU,
         Program!Flag, Flag, Program!ToBits, ToBits, Program!Val, Val
<1> QED
  BY <1>1, <1>2, <1>3, <1>7
     DEF Program!AluY, AluY, Program!OP_IMM, OP_IMM, Program!OP_LOAD, OP_LOAD,
         Program!OP_STORE, OP_STORE

LEMMA ProgramNext ==
  /\ \A w, f, at : Program!NextPc(w, f, at) = NextPc(w, f, at)
  /\ \A w, f, at, y, d : Program!WriteBack(w, f, at, y, d) = WriteBack(w, f, at, y, d)
<1>1. \A w : /\ Program!Opcode(w) = Opcode(w) /\ Program!Funct3(w) = Funct3(w)
             /\ Program!Rs1(w) = Rs1(w) /\ Program!Rs2(w) = Rs2(w) /\ Program!Rd(w) = Rd(w)
             /\ Program!ImmI(w) = ImmI(w) /\ Program!ImmU(w) = ImmU(w)
             /\ Program!ImmB(w) = ImmB(w) /\ Program!ImmJ(w) = ImmJ(w)
             /\ Program!Addr8(w) = Addr8(w)
  BY DEF Program!Opcode, Opcode, Program!Funct3, Funct3, Program!Rs1, Rs1, Program!Rs2, Rs2,
         Program!Rd, Rd, Program!ImmI, ImmI, Program!ImmU, ImmU, Program!ImmB, ImmB,
         Program!ImmJ, ImmJ, Program!Addr8, Addr8, Program!Val, Val, Program!Slice, Slice
<1>2. \A f, n : Program!Reg(f, n) = Reg(f, n)
  BY DEF Program!Reg, Reg, Program!Zeros, Zeros
<1>3. \A x, y : Program!Add(x, y) = Add(x, y)
  BY DEF Program!Add, Add, Program!AddC, AddC, Program!Carry, Carry
<1>4. \A x, y : /\ Program!LessS(x, y) = LessS(x, y) /\ Program!LessU(x, y) = LessU(x, y)
  BY DEF Program!LessS, LessS, Program!LessU, LessU
<1>5. \A w, f : Program!BranchCond(w, f) = BranchCond(w, f)
  BY <1>1, <1>2, <1>4 DEF Program!BranchCond, BranchCond
<1>6. \A w, d : Program!LoadValue(w, d) = LoadValue(w, d)
  BY <1>1 DEF Program!LoadValue, LoadValue, Program!Extend, Extend
<1>7. \A x : Program!ToBits(x, 32) = ToBits(x, 32)
  BY DEF Program!ToBits, ToBits
<1> USE DEF Program!OP_LUI, OP_LUI, Program!OP_AUIPC, OP_AUIPC, Program!OP_JAL, OP_JAL,
            Program!OP_JALR, OP_JALR, Program!OP_BRANCH, OP_BRANCH, Program!OP_LOAD, OP_LOAD,
            Program!OP_IMM, OP_IMM, Program!OP_REG, OP_REG
<1>8. \A w, f, at : Program!NextPc(w, f, at) = NextPc(w, f, at)
  BY <1>1, <1>2, <1>5 DEF Program!NextPc, NextPc
<1>9. \A w, f, at, y, d : Program!WriteBack(w, f, at, y, d) = WriteBack(w, f, at, y, d)
  BY DEF Program!WriteBack, WriteBack, Program!Opcode, Opcode, Program!Rd, Rd,
         Program!ImmU, ImmU, Program!Add, Add, Program!AddC, AddC, Program!Carry, Carry,
         Program!LoadValue, LoadValue, Program!Extend, Extend, Program!Funct3, Funct3,
         Program!ToBits, ToBits, Program!Val, Val, Program!Slice, Slice
<1> QED
  BY <1>8, <1>9

LEMMA ProgramStores ==
  /\ \A r, fm, a, n, wd : Program!StoreRam(r, fm, a, n, wd) = StoreRam(r, fm, a, n, wd)
  /\ \A s, fm, a, n, wd : Program!StorePsram(s, fm, a, n, wd) = StorePsram(s, fm, a, n, wd)
  /\ \A a, n, fm : Program!InContract(a, n, fm) <=> InContract(a, n, fm)
BY DEF Program!StoreRam, StoreRam, Program!StorePsram, StorePsram, Program!InContract, InContract,
       Program!Region, Region, Program!in_rom, in_rom, Program!in_ram, in_ram,
       Program!in_ram_range, in_ram_range, Program!in_ext_flash, in_ext_flash,
       Program!in_load_range, in_load_range, Program!in_ext_psram, in_ext_psram,
       Program!Lane, Lane, Program!Idx, Idx, Program!Low, Low, Program!ToBits, ToBits,
       Program!BusAddr, BusAddr

LEMMA ProgramLoad ==
  \A m, r, s, fm, pg, out, pins, a, n :
    Program!LoadAt(m, r, s, fm, pg, out, pins, a, n) = LoadAt(m, r, s, fm, pg, out, pins, a, n)
BY DEF Program!LoadAt, LoadAt, Program!RegisterAt, RegisterAt, Program!ByteAt, ByteAt,
       Program!Region, Region, Program!in_rom, in_rom, Program!in_ram, in_ram,
       Program!in_ram_range, in_ram_range, Program!in_ext_flash, in_ext_flash,
       Program!in_load_range, in_load_range, Program!in_ext_psram, in_ext_psram,
       Program!Lane, Lane, Program!Idx, Idx, Program!Low, Low, Program!ToBits, ToBits,
       Program!Wide, Wide, Program!Zeros, Zeros, Program!WINDOW_BYTES, WINDOW_BYTES,
       Program!LED_OUT, LED_OUT, Program!SW_IN, SW_IN, Program!FLASH_PAGE, FLASH_PAGE

-----------------------------------------------------------------------------
\* What a read shows the core, against what a load returns to a program.

\* The word a read of the devices answers, for the request on the wires.
ExtWord ==
  [i \in 0 .. 31 |->
     IF i < 8 * Bytes(mem_size)
       THEN store[req_dev(mem_addr, flash_mode)]
              [Idx(Plus(ext_addr(mem_addr, flash_mode, flash_page), 24, i \div 8))][i % 8]
       ELSE 0]

\* What a load of the request on the wires returns to the programmer.
Loaded ==
  LoadAt(rom, Ram, store, flash_mode, flash_page, gpio_out, gpio_in,
         mem_addr, Bytes(mem_size))

LEMMA BytesOfSize == \A s \in Size : Bytes(s) \in {1, 2, 4}
BY DEF Size, Bytes

LEMMA LaneBit ==
  ASSUME NEW w, NEW i \in 0 .. 31
  PROVE  /\ i \div 8 \in 0 .. 3 /\ i % 8 \in 0 .. 7
         /\ Lane(w, i \div 8)[i % 8] = w[i]
<1>1. i \div 8 \in 0 .. 3 /\ i % 8 \in 0 .. 7 /\ 8 * (i \div 8) + (i % 8) = i
  OBVIOUS
<1> QED  BY <1>1 DEF Lane

\* What a read of each kind of address is.
LEMMA ReadArms ==
  ASSUME NEW u, mem_addr \in BusAddr, flash_mode \in BOOLEAN
  PROVE  /\ in_rom(mem_addr) => mem_rdata(u) = rom_word(rom, mem_addr)
         /\ in_ram(mem_addr, flash_mode) =>
              mem_rdata(u) = ram_word(ram_words, mem_addr, u)
         /\ in_ext(mem_addr, flash_mode) => mem_rdata(u) = rdata
<1>1. Region(mem_addr, flash_mode) = "register"
        <=> /\ ~in_rom(mem_addr) /\ ~in_ram(mem_addr, flash_mode)
            /\ ~in_ext(mem_addr, flash_mode)
  BY RegionFacts
<1>2. /\ mem_addr >= 240 => Region(mem_addr, flash_mode) = "register"
      /\ in_rom(mem_addr) => ~in_ram(mem_addr, flash_mode) /\ ~in_ext(mem_addr, flash_mode)
      /\ in_ram(mem_addr, flash_mode) => ~in_ext(mem_addr, flash_mode)
  BY RegionFacts
<1>3. mem_addr \in Int
  BY DEF BusAddr
<1>4. ASSUME in_rom(mem_addr)
      PROVE  mem_rdata(u) = rom_word(rom, mem_addr)
  <2>1. mem_addr < 240
    BY <1>1, <1>2, <1>3, <1>4
  <2> QED  BY <1>2, <1>3, <1>4, <2>1 DEF mem_rdata, LED_OUT, SW_IN, FLASH_PAGE
<1>5. ASSUME in_ram(mem_addr, flash_mode)
      PROVE  mem_rdata(u) = ram_word(ram_words, mem_addr, u)
  <2>1. mem_addr < 240 /\ ~in_rom(mem_addr)
    BY <1>1, <1>2, <1>3, <1>5
  <2> QED  BY <1>2, <1>3, <1>5, <2>1 DEF mem_rdata, LED_OUT, SW_IN, FLASH_PAGE
<1>6. ASSUME in_ext(mem_addr, flash_mode)
      PROVE  mem_rdata(u) = rdata
  <2>1. mem_addr < 240 /\ ~in_rom(mem_addr) /\ ~in_ram(mem_addr, flash_mode)
    BY <1>1, <1>2, <1>3, <1>6
  <2> QED  BY <1>3, <1>6, <2>1 DEF mem_rdata, LED_OUT, SW_IN, FLASH_PAGE
<1> QED  BY <1>4, <1>5, <1>6

\* Inside the contract, the bits the core takes of what mem.v shows are those of
\* the bytes at the address.
LEMMA ReadBits ==
  ASSUME TypeOK, InContract(mem_addr, Bytes(mem_size), flash_mode),
         in_ext(mem_addr, flash_mode) => rdata = ExtWord,
         NEW u \in Garbage, NEW i \in 0 .. 31, i < 8 * Bytes(mem_size)
  PROVE  mem_rdata(u)[i] = Loaded[i]
<1> DEFINE a == mem_addr
           n == Bytes(mem_size)
           k == i \div 8
           b == i % 8
<1>1. /\ a \in BusAddr /\ flash_mode \in BOOLEAN /\ flash_page \in BusAddr
      /\ mem_size \in Size
  BY DEF TypeOK
<1>2. n \in {1, 2, 4}
  BY <1>1, BytesOfSize
<1>3. k \in 0 .. 3 /\ k \in 0 .. n - 1 /\ b \in 0 .. 7
  BY <1>2
<1>4. a + k \in BusAddr /\ Region(a + k, flash_mode) = Region(a, flash_mode)
  BY <1>3 DEF InContract
<1>5. CASE Region(a, flash_mode) = "register"
  <2>1. Loaded = RegisterAt(gpio_out, flash_page, gpio_in, a)
    BY <1>5 DEF Loaded, LoadAt
  <2>2. ~in_rom(a) /\ ~in_ram(a, flash_mode) /\ ~in_ext(a, flash_mode)
    BY <1>1, <1>5, RegionFacts
  <2>3. mem_rdata(u) = RegisterAt(gpio_out, flash_page, gpio_in, a)
    BY <2>2 DEF mem_rdata, RegisterAt, LED_OUT, SW_IN, FLASH_PAGE
  <2> QED  BY <2>1, <2>3
<1>6. CASE Region(a, flash_mode) # "register"
  <2> DEFINE at == ByteAt(rom, Ram, store, flash_mode, flash_page, a + k)
  <2>1. Loaded[i] = at[b]
    BY <1>6 DEF Loaded, LoadAt
  <2> HIDE DEF k, b
  <2>2. CASE in_rom(a)
    <3>1. in_rom(a + k) /\ Region(a + k, flash_mode) = "rom"
      BY <1>1, <1>4, <2>2, RegionFacts
    <3>2. at = Lane(rom[(a + k) \div 4], (a + k) % 4)
      BY <3>1 DEF ByteAt
    <3>3. Lane(rom_word(rom, a), k) = Lane(rom[(a + k) \div 4], (a + k) % 4)
      BY <1>1, <1>3, <3>1, RomBytes
    <3>4. mem_rdata(u) = rom_word(rom, a)
      BY <1>1, <2>2, ReadArms
    <3>5. Lane(rom_word(rom, a), k)[b] = rom_word(rom, a)[i]
      BY LaneBit DEF k, b
    <3> QED  BY <2>1, <3>2, <3>3, <3>4, <3>5
  <2>3. CASE in_ram(a, flash_mode)
    <3>1. in_ram(a + k, flash_mode) /\ Region(a + k, flash_mode) = "ram" /\ ~in_rom(a)
      BY <1>1, <1>4, <2>3, RegionFacts
    <3>2. at = Ram[a + k]
      BY <3>1 DEF ByteAt
    <3>3. in_ram_range(a) /\ in_ram_range(a + k)
      BY <2>3, <3>1 DEF in_ram
    <3>4. Lane(ram_word(ram_words, a, u), k) = Ram[a + k]
      BY <1>1, <1>3, <1>4, <3>3, RamLoadBytes DEF Ram
    <3>5. mem_rdata(u) = ram_word(ram_words, a, u)
      BY <1>1, <2>3, ReadArms
    <3>6. Lane(ram_word(ram_words, a, u), k)[b] = ram_word(ram_words, a, u)[i]
      BY LaneBit DEF k, b
    <3> QED  BY <2>1, <3>2, <3>4, <3>5, <3>6
  <2>4. CASE in_ext(a, flash_mode)
    <3> DEFINE x == Idx(Plus(ext_addr(a, flash_mode, flash_page), 24, k))
    <3>1. ~in_rom(a) /\ ~in_ram(a, flash_mode)
      BY <1>1, <2>4, RegionFacts
    <3>2. mem_rdata(u) = rdata
      BY <1>1, <2>4, ReadArms
    <3>3. rdata[i] = store[req_dev(a, flash_mode)][x][b]
      BY <2>4 DEF ExtWord, k, b
    <3>4. store[req_dev(a, flash_mode)][x] = at
      <4>1. CASE in_ext_flash(a, flash_mode)
        <5>1. Region(a + k, flash_mode) = "flash"
          BY <1>1, <1>4, <4>1, RegionFacts
        <5>2. at = store["flash"][Idx(ToBits(flash_page * WINDOW_BYTES
                                               + ((a + k) - LOAD_BASE), 24))]
          BY <5>1, Zenon DEF ByteAt
        <5>3. Plus(ext_addr(a, flash_mode, flash_page), 24, k)
                = ToBits(flash_page * WINDOW_BYTES + ((a + k) - LOAD_BASE), 24)
          BY <1>1, <1>3, <4>1, DeviceAddress
        <5>4. req_dev(a, flash_mode) = "flash"
          BY <4>1 DEF req_dev
        <5> QED  BY <5>2, <5>3, <5>4, Zenon
      <4>2. CASE in_ext_psram(a) /\ ~in_ext_flash(a, flash_mode)
        <5>1. Region(a + k, flash_mode) = "psram"
          BY <1>1, <1>4, <4>2, RegionFacts
        <5>2. at = store["psram"][Idx(ToBits((a + k) - EXT_PSRAM_BASE, 24))]
          <6>1. /\ Region(a + k, flash_mode) # "rom" /\ Region(a + k, flash_mode) # "ram"
                /\ Region(a + k, flash_mode) # "flash"
            BY <5>1
          <6> QED  BY <5>1, <6>1, Zenon DEF ByteAt
        <5>3. Plus(ext_addr(a, flash_mode, flash_page), 24, k)
                = ToBits(a - EXT_PSRAM_BASE + k, 24)
          BY <1>1, <1>3, <4>2, DeviceAddress
        <5>4. req_dev(a, flash_mode) = "psram"
          BY <4>2 DEF req_dev
        <5>5. (a + k) - EXT_PSRAM_BASE = a - EXT_PSRAM_BASE + k
          BY <1>1, <1>3, MapAssumption DEF BusAddr
        <5> QED  BY <5>2, <5>3, <5>4, <5>5, Zenon
      <4> QED  BY <2>4, <4>1, <4>2 DEF in_ext
    <3> QED  BY <2>1, <3>2, <3>3, <3>4, Zenon
  <2> QED
    BY <1>1, <1>6, <2>2, <2>3, <2>4, RegionFacts
<1> QED
  BY <1>5, <1>6

LEMMA LoadedIsWord == Loaded = [i \in 0 .. 31 |-> Loaded[i]]
<1>1. CASE Region(mem_addr, flash_mode) = "register"
  <2>1. Loaded = RegisterAt(gpio_out, flash_page, gpio_in, mem_addr)
    BY <1>1 DEF Loaded, LoadAt
  <2> QED  BY <2>1 DEF RegisterAt, Wide, ToBits, Zeros
<1>2. CASE Region(mem_addr, flash_mode) # "register"
  BY <1>2 DEF Loaded, LoadAt
<1> QED  BY <1>1, <1>2

\* A fetched word is the word at its address.
LEMMA ReadWhole ==
  ASSUME TypeOK, InContract(mem_addr, 4, flash_mode), mem_size = 2,
         in_ext(mem_addr, flash_mode) => rdata = ExtWord, NEW u \in Garbage
  PROVE  mem_rdata(u) = Loaded
<1>1. Bytes(mem_size) = 4
  BY DEF Bytes
<1>2. \A i \in 0 .. 31 : mem_rdata(u)[i] = Loaded[i]
  BY <1>1, ReadBits
<1>3. mem_rdata(u) = [i \in 0 .. 31 |-> mem_rdata(u)[i]]
  BY ReadType DEF Word, Bits
<1>4. Loaded = [i \in 0 .. 31 |-> Loaded[i]]
  BY LoadedIsWord
<1> QED
  BY <1>2, <1>3, <1>4

\* A load takes only the bits of its size.
LEMMA LoadValueBits ==
  ASSUME NEW w \in Word, NEW c, NEW d,
         \A i \in 0 .. 31 : i < 8 * Bytes(AccessSize(w)) => c[i] = d[i],
         c = [i \in 0 .. 31 |-> c[i]], d = [i \in 0 .. 31 |-> d[i]]
  PROVE  LoadValue(w, c) = LoadValue(w, d)
<1> DEFINE f == Funct3(w)
<1>1. f \in 0 .. 7
  BY FieldTypes
<1>2. LoadValue(w, c) = CASE f = 0 -> Extend(c, 8, c[7]) [] f = 1 -> Extend(c, 16, c[15])
          [] f = 4 -> Extend(c, 8, 0) [] f = 5 -> Extend(c, 16, 0) [] OTHER -> c
  BY DEF LoadValue
<1>3. LoadValue(w, d) = CASE f = 0 -> Extend(d, 8, d[7]) [] f = 1 -> Extend(d, 16, d[15])
          [] f = 4 -> Extend(d, 8, 0) [] f = 5 -> Extend(d, 16, 0) [] OTHER -> d
  BY DEF LoadValue
<1>4. AccessSize(w) = IF f % 4 = 0 THEN 0 ELSE IF f % 4 = 1 THEN 1 ELSE 2
  BY DEF AccessSize
<1> HIDE DEF f
<1>5. CASE f \in {0, 4}
  <2>1. Bytes(AccessSize(w)) = 1
    BY <1>4, <1>5 DEF Bytes
  <2>2. \A i \in 0 .. 7 : c[i] = d[i]
    BY <2>1
  <2>3. \A z : Extend(c, 8, z) = Extend(d, 8, z)
    BY <2>2 DEF Extend
  <2> QED  BY <1>2, <1>3, <1>5, <2>2, <2>3
<1>6. CASE f \in {1, 5}
  <2>1. Bytes(AccessSize(w)) = 2
    BY <1>4, <1>6 DEF Bytes
  <2>2. \A i \in 0 .. 15 : c[i] = d[i]
    BY <2>1
  <2>3. \A z : Extend(c, 16, z) = Extend(d, 16, z)
    BY <2>2 DEF Extend
  <2> QED  BY <1>2, <1>3, <1>6, <2>2, <2>3
<1>7. CASE f \in {2, 3, 6, 7}
  <2>1. Bytes(AccessSize(w)) = 4
    BY <1>4, <1>7 DEF Bytes
  <2>2. \A i \in 0 .. 31 : c[i] = d[i]
    BY <2>1
  <2>3. c = d
    BY <2>2
  <2> QED  BY <1>2, <1>3, <2>3, Zenon
<1> QED
  BY <1>1, <1>5, <1>6, <1>7

-----------------------------------------------------------------------------
\* The invariant behind the step map: what is on the wires, in the port and in
\* the registers of the core is still true of the memory when it is used.

\* The word at pc, as the instruction set sees it.
FetchedWord(pins) ==
  LoadAt(rom, Ram, settled, flash_mode, flash_page, gpio_out, pins, pc, 4)

\* The state holds a word that was fetched and has not been executed.
Holding == state \in {"EXEC", "MEM", "MEM_WAIT"} \/ (state = "WB" /\ Opcode(ir) # OP_STORE)

\* The request on the wires is that of the fetch, or that of the instruction.
FetchAsked ==
  state \in {"FETCH_WAIT", "DECODE"} =>
    mem_addr = pc /\ mem_size = 2 /\ ~mem_we /\ (state = "FETCH_WAIT" => mem_valid)

AccessAsked ==
  /\ state = "MEM_WAIT" => /\ mem_valid <=> Opcode(ir) \in {OP_LOAD, OP_STORE}
                           /\ mem_we <=> Opcode(ir) = OP_STORE
  /\ \/ state = "MEM_WAIT" /\ Opcode(ir) \in {OP_LOAD, OP_STORE}
     \/ state = "WB" /\ Opcode(ir) = OP_LOAD
     => mem_addr = Addr8(AluY(ir, regs)) /\ mem_size = AccessSize(ir)

\* The port counts the bytes of the access it is asked for, and no others.
PortCounts ==
  /\ ~ext_req_valid => ~ready /\ moved = 0
  /\ ready => moved = 0
  /\ moved <= Bytes(mem_size)

\* The devices differ from what the last instruction left by the bytes moved of
\* the store that waits.
StoreMoved ==
  store = IF mem_we
            THEN StorePsram(settled, flash_mode, mem_addr,
                            IF ready THEN Bytes(mem_size) ELSE moved, mem_wdata)
            ELSE settled

\* The answer of the port stays the word at the address until it is used.
AnswerHeld ==
  /\ ready \/ state = "DECODE" \/ (state = "WB" /\ Opcode(ir) = OP_LOAD)
  /\ in_ext(mem_addr, flash_mode) /\ ~mem_we
  => rdata = ExtWord

\* The word held is the one at pc: nothing changed it since it was fetched.
IrIsFetched ==
  Holding /\ InContract(pc, 4, flash_mode) => \E now \in GpioIn : ir = FetchedWord(now)

ResultsHeld ==
  state \in {"MEM", "MEM_WAIT", "WB"} =>
    alu_result = AluY(ir, regs) /\ next_pc = NextPc(ir, regs, pc)

IsaIInv ==
  /\ TypeOK /\ WritesAreStores /\ Waiting
  /\ FetchAsked /\ AccessAsked /\ PortCounts /\ StoreMoved /\ AnswerHeld
  /\ IrIsFetched /\ ResultsHeld

-----------------------------------------------------------------------------
\* The steps, sorted by what they leave alone.

\* A step of the core between two accesses: memory and port keep still.
Between(coreStep) ==
  /\ coreStep
  /\ ~mem_valid /\ ~mem_we /\ ~ready /\ moved = 0
  /\ UNCHANGED <<memVars, portVars, rom, gpio_in>>

\* The core waits for the port.
Busy ==
  /\ state \in {"FETCH_WAIT", "MEM_WAIT"}
  /\ ext_req_valid /\ ~ready
  /\ PortClock
  /\ UNCHANGED <<ctrlVars, reqVars, memVars, rom, gpio_in, settled>>

\* The port is let go, or was not asked.
PortRests ==
  /\ ext_req_valid => ready
  /\ ready' = FALSE /\ moved = 0
  /\ UNCHANGED <<rdata, moved, store>>

FetchEnds ==
  /\ FetchWait /\ mem_ready /\ PortRests
  /\ UNCHANGED <<memVars, rom, gpio_in>>

AccessEnds ==
  /\ MemWait /\ mem_ready /\ PortRests /\ MemClock
  /\ UNCHANGED <<rom, gpio_in>>

Still == UNCHANGED <<ctrlVars, reqVars, memVars, portVars, rom, settled>>

\* Nothing is written to the memory but by a store that meets no device.
LEMMA MemHeld ==
  ASSUME TypeOK, MemClock, ~mem_we \/ in_ext(mem_addr, flash_mode)
  PROVE  UNCHANGED memVars
<1>1. mem_addr \in BusAddr /\ flash_mode \in BOOLEAN
  BY DEF TypeOK
<1>2. CASE ~mem_we
  BY <1>1, <1>2 DEF MemClock, memVars
<1>3. CASE in_ext(mem_addr, flash_mode)
  <2>1. ~in_ram(mem_addr, flash_mode) /\ ~(mem_addr >= 240)
    BY <1>1, <1>3, RegionFacts
  <2>2. mem_addr < 240
    BY <1>1, <2>1 DEF BusAddr
  <2> QED  BY <1>1, <2>1, <2>2 DEF MemClock, memVars, LED_OUT, FLASH_MODE, FLASH_PAGE
<1> QED  BY <1>2, <1>3

LEMMA Steps ==
  ASSUME IsaIInv, [Next]_vars
  PROVE  \/ Between(Fetch) \/ Between(Decode) \/ Between(Exec)
         \/ Between(Mem) \/ Between(Wb)
         \/ Busy \/ FetchEnds \/ AccessEnds \/ Reset \/ Still
<1>1. TypeOK /\ Waiting /\ WritesAreStores /\ PortCounts /\ AccessAsked /\ FetchAsked
  BY DEF IsaIInv
<1>2. ASSUME NEW ACTION step, Clocked(step), state \notin {"FETCH_WAIT", "MEM_WAIT"}
      PROVE  Between(step)
  <2>1. ~mem_valid /\ ~mem_we
    BY <1>1, <1>2 DEF Waiting, WritesAreStores
  <2>2. ~ext_req_valid
    BY <2>1 DEF ext_req_valid
  <2>3. UNCHANGED portVars /\ ~ready /\ moved = 0
    BY <1>1, <1>2, <2>2 DEF Clocked, PortClock, PortCounts
  <2>4. UNCHANGED memVars
    BY <1>1, <1>2, <2>1, MemHeld DEF Clocked
  <2> QED  BY <1>2, <2>1, <2>3, <2>4 DEF Clocked, Between
<1>3. ASSUME PortClock, mem_ready
      PROVE  PortRests
  <2>1. CASE ext_req_valid
    BY <1>1, <1>3, <2>1 DEF mem_ready, PortClock, PortRests, PortCounts
  <2>2. CASE ~ext_req_valid
    BY <1>1, <1>3, <2>2 DEF PortClock, PortRests, PortCounts, portVars
  <2> QED  BY <2>1, <2>2
<1>4. ASSUME MemClock, ext_req_valid
      PROVE  UNCHANGED memVars
  BY <1>1, <1>4, MemHeld DEF ext_req_valid
<1>5. CASE TickFetch
  <2>1. state \notin {"FETCH_WAIT", "MEM_WAIT"}
    BY <1>5 DEF TickFetch, Clocked, Fetch
  <2> QED  BY <1>2, <1>5, <2>1 DEF TickFetch
<1>6. CASE TickFetchWait
  <2>1. CASE mem_ready
    <3>1. ~mem_we
      BY <1>1, <1>6 DEF TickFetchWait, Clocked, FetchWait, FetchAsked
    <3>2. UNCHANGED memVars
      BY <1>1, <1>6, <3>1, MemHeld DEF TickFetchWait, Clocked
    <3> QED  BY <1>3, <1>6, <2>1, <3>2 DEF TickFetchWait, Clocked, FetchEnds
  <2>2. CASE ~mem_ready
    <3>1. ext_req_valid /\ ~ready
      BY <2>2 DEF mem_ready
    <3>2. UNCHANGED memVars
      BY <1>4, <1>6, <3>1 DEF TickFetchWait, Clocked
    <3> QED
      BY <1>6, <2>2, <3>1, <3>2
         DEF TickFetchWait, Clocked, FetchWait, Busy, ctrlVars, reqVars
  <2> QED  BY <2>1, <2>2
<1>7. CASE TickDecode
  <2>1. state \notin {"FETCH_WAIT", "MEM_WAIT"}
    BY <1>7 DEF TickDecode, Clocked, Decode
  <2> QED  BY <1>2, <1>7, <2>1 DEF TickDecode
<1>8. CASE TickExec
  <2>1. state \notin {"FETCH_WAIT", "MEM_WAIT"}
    BY <1>8 DEF TickExec, Clocked, Exec
  <2> QED  BY <1>2, <1>8, <2>1 DEF TickExec
<1>9. CASE TickMem
  <2>1. state \notin {"FETCH_WAIT", "MEM_WAIT"}
    BY <1>9 DEF TickMem, Clocked, Mem
  <2> QED  BY <1>2, <1>9, <2>1 DEF TickMem
<1>10. CASE TickMemWait
  <2>1. CASE mem_ready
    BY <1>3, <1>10, <2>1 DEF TickMemWait, Clocked, AccessEnds
  <2>2. CASE ~mem_ready
    <3>1. ext_req_valid /\ ~ready
      BY <2>2 DEF mem_ready
    <3>2. UNCHANGED memVars
      BY <1>4, <1>10, <3>1 DEF TickMemWait, Clocked
    <3> QED
      BY <1>10, <2>2, <3>1, <3>2
         DEF TickMemWait, Clocked, MemWait, Busy, ctrlVars, reqVars
  <2> QED  BY <2>1, <2>2
<1>11. CASE TickWb
  <2>1. state \notin {"FETCH_WAIT", "MEM_WAIT"}
    BY <1>11 DEF TickWb, Clocked, Wb
  <2> QED  BY <1>2, <1>11, <2>1 DEF TickWb
<1>12. CASE Pins
  BY <1>12 DEF Pins, Still
<1>13. CASE UNCHANGED vars
  BY <1>13 DEF vars, Still
<1> QED
  BY <1>5, <1>6, <1>7, <1>8, <1>9, <1>10, <1>11, <1>12, <1>13 DEF Next, Tick

-----------------------------------------------------------------------------
\* The parts of the invariant, one at a time.

LEMMA FetchAskedStep ==
  ASSUME IsaIInv, [Next]_vars
  PROVE  FetchAsked'
<1>1. FetchAsked
  BY DEF IsaIInv
<1>2. CASE Between(Fetch)
  BY <1>2 DEF Between, Fetch, FetchAsked
<1>3. CASE Between(Decode) \/ Between(Exec) \/ Between(Mem) \/ Between(Wb)
  BY <1>3 DEF Between, Decode, Exec, Mem, Wb, FetchAsked
<1>4. CASE Busy
  BY <1>1, <1>4 DEF Busy, FetchAsked, ctrlVars, reqVars
<1>5. CASE FetchEnds
  BY <1>1, <1>5 DEF FetchEnds, FetchWait, FetchAsked
<1>6. CASE AccessEnds
  BY <1>6 DEF AccessEnds, MemWait, FetchAsked
<1>7. CASE Reset
  BY <1>7 DEF Reset, FetchAsked
<1>8. CASE Still
  BY <1>1, <1>8 DEF Still, FetchAsked, ctrlVars, reqVars
<1> QED
  BY <1>2, <1>3, <1>4, <1>5, <1>6, <1>7, <1>8, Steps

LEMMA AccessAskedStep ==
  ASSUME IsaIInv, [Next]_vars
  PROVE  AccessAsked'
<1>1. AccessAsked
  BY DEF IsaIInv
<1>2. CASE Between(Fetch) \/ Between(Decode) \/ Between(Exec) \/ Between(Wb)
  BY <1>2 DEF Between, Fetch, Decode, Exec, Wb, AccessAsked
<1>3. CASE Between(Mem)
  BY <1>3 DEF Between, Mem, AccessAsked, OP_LOAD, OP_STORE
<1>4. CASE Busy
  BY <1>1, <1>4 DEF Busy, AccessAsked, ctrlVars, reqVars
<1>5. CASE FetchEnds
  BY <1>1, <1>5 DEF FetchEnds, FetchWait, AccessAsked
<1>6. CASE AccessEnds
  BY <1>1, <1>6 DEF AccessEnds, MemWait, AccessAsked
<1>7. CASE Reset
  BY <1>7 DEF Reset, AccessAsked
<1>8. CASE Still
  BY <1>1, <1>8 DEF Still, AccessAsked, ctrlVars, reqVars
<1> QED
  BY <1>2, <1>3, <1>4, <1>5, <1>6, <1>7, <1>8, Steps

LEMMA ResultsHeldStep ==
  ASSUME IsaIInv, [Next]_vars
  PROVE  ResultsHeld'
<1>1. ResultsHeld
  BY DEF IsaIInv
<1>2. CASE Between(Fetch) \/ Between(Decode) \/ Between(Wb)
  BY <1>2 DEF Between, Fetch, Decode, Wb, ResultsHeld
<1>3. CASE Between(Exec)
  BY <1>3 DEF Between, Exec, ResultsHeld
<1>4. CASE Between(Mem)
  BY <1>1, <1>4 DEF Between, Mem, ResultsHeld
<1>5. CASE Busy
  BY <1>1, <1>5 DEF Busy, ResultsHeld, ctrlVars
<1>6. CASE FetchEnds
  BY <1>6 DEF FetchEnds, FetchWait, ResultsHeld
<1>7. CASE AccessEnds
  BY <1>1, <1>7 DEF AccessEnds, MemWait, ResultsHeld
<1>8. CASE Reset
  BY <1>8 DEF Reset, ResultsHeld
<1>9. CASE Still
  BY <1>1, <1>9 DEF Still, ResultsHeld, ctrlVars
<1> QED
  BY <1>2, <1>3, <1>4, <1>5, <1>6, <1>7, <1>8, <1>9, Steps

LEMMA PortCountsStep ==
  ASSUME IsaIInv, [Next]_vars
  PROVE  PortCounts'
<1>1. PortCounts /\ FetchAsked /\ AccessAsked /\ moved \in 0 .. 4 /\ ready \in BOOLEAN
  BY DEF IsaIInv, TypeOK
<1>2. Bytes(mem_size) \in {1, 2, 4} /\ Bytes(mem_size') \in {1, 2, 4}
  BY DEF Bytes
<1>3. ASSUME ready' = FALSE, moved' = 0
      PROVE  PortCounts'
  BY <1>2, <1>3 DEF PortCounts
<1>4. CASE \/ Between(Fetch) \/ Between(Decode) \/ Between(Exec)
           \/ Between(Mem) \/ Between(Wb)
  BY <1>1, <1>3, <1>4 DEF Between, portVars
<1>5. CASE Busy
  <2>1. ext_req_valid' = ext_req_valid /\ mem_size' = mem_size
    BY <1>5 DEF Busy, reqVars, memVars, ext_req_valid
  <2> QED  BY <1>1, <1>2, <1>5, <2>1 DEF Busy, PortClock, PortCounts
<1>6. CASE FetchEnds \/ AccessEnds
  BY <1>3, <1>6 DEF FetchEnds, AccessEnds, PortRests
<1>7. CASE Reset
  BY <1>3, <1>7 DEF Reset
<1>8. CASE Still
  <2>1. ext_req_valid' = ext_req_valid /\ mem_size' = mem_size
    BY <1>8 DEF Still, reqVars, memVars, ext_req_valid
  <2> QED  BY <1>1, <1>8, <2>1 DEF Still, portVars, PortCounts
<1> QED
  BY <1>4, <1>5, <1>6, <1>7, <1>8, Steps

LEMMA StoreMovedStep ==
  ASSUME IsaIInv, [Next]_vars
  PROVE  StoreMoved'
<1>1. /\ TypeOK /\ StoreMoved /\ PortCounts /\ FetchAsked /\ AccessAsked
      /\ ready \in BOOLEAN
  BY DEF IsaIInv, TypeOK
<1>2. CASE \/ Between(Fetch) \/ Between(Decode) \/ Between(Exec) \/ Between(Wb)
  <2>1. store' = store /\ settled' = settled /\ mem_we' = FALSE
    BY <1>1, <1>2 DEF Between, Fetch, Decode, Exec, Wb, portVars, reqVars, TypeOK
  <2> QED  BY <1>1, <1>2, <2>1 DEF Between, StoreMoved
<1>3. CASE Between(Mem)
  <2>1. store' = store /\ settled' = settled /\ ready' = FALSE /\ moved' = 0
    BY <1>1, <1>3 DEF Between, Mem, portVars
  <2>2. store = settled
    BY <1>1, <1>3 DEF Between, StoreMoved
  <2>3. StorePsram(settled, flash_mode', mem_addr', 0, mem_wdata') = settled
    BY PutNone
  <2> QED  BY <2>1, <2>2, <2>3 DEF StoreMoved
<1>4. CASE Busy
  <2> DEFINE a == ext_acc
             n == Bytes(mem_size)
  <2>1. /\ UNCHANGED <<settled, flash_mode, mem_addr, mem_wdata, mem_size, mem_we>>
        /\ ext_req_valid /\ ~ready /\ PortClock
    BY <1>4 DEF Busy, reqVars, memVars
  <2>2. /\ mem_addr \in BusAddr /\ flash_mode \in BOOLEAN /\ flash_page \in BusAddr
        /\ settled \in Store /\ n \in {1, 2, 4} /\ moved \in 0 .. 4
    BY <1>1 DEF TypeOK, Size, Bytes
  <2>3. in_ext(mem_addr, flash_mode)
    BY <2>1 DEF ext_req_valid
  <2>4. CASE ~mem_we
    <3>1. store' = store
      BY <2>1, <2>4 DEF PortClock, ext_acc
    <3> QED  BY <1>1, <2>1, <2>4, <3>1 DEF StoreMoved
  <2>5. CASE mem_we /\ in_ext_flash(mem_addr, flash_mode)
    <3>1. store' = store
      BY <2>1, <2>5 DEF PortClock, ext_acc
    <3>2. Region(mem_addr, flash_mode) # "psram"
      BY <2>2, <2>5, RegionFacts
    <3>3. \A k : StorePsram(settled, flash_mode, mem_addr, k, mem_wdata) = settled
      BY <3>2, PutNone
    <3> QED  BY <1>1, <2>1, <2>5, <3>1, <3>3 DEF StoreMoved
  <2>6. CASE mem_we /\ ~in_ext_flash(mem_addr, flash_mode)
    <3>1. /\ in_ext_psram(mem_addr) /\ Region(mem_addr, flash_mode) = "psram"
          /\ req_dev(mem_addr, flash_mode) = "psram"
      BY <2>2, <2>3, <2>6, RegionFacts DEF in_ext, req_dev
    <3>2. /\ a.we /\ a.dev = "psram" /\ a.wdata = mem_wdata
          /\ a.addr = ext_addr(mem_addr, flash_mode, flash_page)
      BY <2>6, <3>1 DEF ext_acc
    <3>3. store = StorePsram(settled, flash_mode, mem_addr, moved, mem_wdata)
      BY <1>1, <2>1, <2>6 DEF StoreMoved
    <3> HIDE DEF a, n
    <3>4. CASE /\ moved < n /\ moved' = moved + 1 /\ ready' = ready
               /\ store' = [store EXCEPT ![a.dev][Idx(Plus(a.addr, 24, moved))] =
                              Lane(a.wdata, moved)]
      <4>1. moved \in 0 .. 3
        BY <2>2, <3>4
      <4>2. Plus(a.addr, 24, moved) = ToBits((mem_addr - EXT_PSRAM_BASE) + moved, 24)
        BY <2>2, <2>6, <3>1, <3>2, <4>1, DeviceAddress
      <4>3. store' = [store EXCEPT
                        !["psram"][Idx(ToBits((mem_addr - EXT_PSRAM_BASE) + moved, 24))] =
                           Lane(mem_wdata, moved)]
        BY <3>2, <3>4, <4>2
      <4>4. store' = StorePsram(settled, flash_mode, mem_addr, moved + 1, mem_wdata)
        <5>1. StorePsram(settled, flash_mode, mem_addr, moved + 1, mem_wdata)
                = [StorePsram(settled, flash_mode, mem_addr, moved, mem_wdata) EXCEPT
                     !["psram"][Idx(ToBits((mem_addr - EXT_PSRAM_BASE) + moved, 24))] =
                        Lane(mem_wdata, moved)]
          BY <2>2, <3>1, <4>1, PutNext
        <5> QED  BY <3>3, <4>3, <5>1, Zenon
      <4> QED  BY <2>1, <2>6, <3>4, <4>4 DEF StoreMoved
    <3>5. CASE moved = n /\ ready' = TRUE /\ store' = store
      BY <2>1, <2>6, <3>3, <3>5 DEF StoreMoved, n
    <3> QED
      BY <2>1, <3>2, <3>4, <3>5 DEF PortClock, a, n
  <2> QED  BY <2>4, <2>5, <2>6
<1>5. CASE FetchEnds
  <2>1. UNCHANGED <<mem_we, settled, store>> /\ ~mem_we
    BY <1>1, <1>5 DEF FetchEnds, FetchWait, PortRests, FetchAsked
  <2> QED  BY <1>1, <2>1 DEF StoreMoved
<1>6. CASE AccessEnds
  BY <1>6 DEF AccessEnds, MemWait, PortRests, StoreMoved
<1>7. CASE Reset
  BY <1>7 DEF Reset, StoreMoved
<1>8. CASE Still
  BY <1>1, <1>8 DEF Still, StoreMoved, reqVars, memVars, portVars
<1> QED
  BY <1>2, <1>3, <1>4, <1>5, <1>6, <1>7, <1>8, Steps

LEMMA AnswerHeldStep ==
  ASSUME IsaIInv, [Next]_vars
  PROVE  AnswerHeld'
<1>1. /\ TypeOK /\ AnswerHeld /\ PortCounts /\ FetchAsked /\ AccessAsked
      /\ ready \in BOOLEAN
  BY DEF IsaIInv, TypeOK
<1>2. ASSUME ready' = FALSE, state' # "DECODE", state' # "WB"
      PROVE  AnswerHeld'
  BY <1>2 DEF AnswerHeld
<1>3. ASSUME UNCHANGED <<store, mem_addr, mem_size, flash_mode, flash_page>>
      PROVE  ExtWord' = ExtWord
  BY <1>3 DEF ExtWord
<1>4. CASE \/ Between(Fetch) \/ Between(Decode) \/ Between(Exec)
           \/ Between(Mem) \/ Between(Wb)
  BY <1>1, <1>2, <1>4 DEF Between, Fetch, Decode, Exec, Mem, Wb, portVars
<1>5. CASE Busy
  <2>1. /\ UNCHANGED <<state, flash_mode, flash_page, mem_addr, mem_size, mem_we>>
        /\ ext_req_valid /\ ~ready /\ PortClock /\ state \in {"FETCH_WAIT", "MEM_WAIT"}
    BY <1>5 DEF Busy, ctrlVars, reqVars, memVars
  <2>2. CASE ready' = FALSE
    BY <1>2, <2>1, <2>2
  <2>3. CASE ready' # FALSE /\ ~mem_we
    <3> DEFINE a == ext_acc
               n == Bytes(mem_size)
    <3>1. ~a.we /\ a.dev = req_dev(mem_addr, flash_mode)
          /\ a.addr = ext_addr(mem_addr, flash_mode, flash_page)
      BY <2>3 DEF ext_acc
    <3> HIDE DEF a
    <3>2. /\ store' = store
          /\ rdata' = [i \in 0 .. 31 |->
                         IF i < 8 * n
                           THEN store[a.dev][Idx(Plus(a.addr, 24, i \div 8))][i % 8]
                           ELSE 0]
      BY <1>1, <2>1, <2>3, <3>1 DEF PortClock, a
    <3>3. rdata' = ExtWord
      BY <3>1, <3>2 DEF ExtWord
    <3>4. ExtWord' = ExtWord
      BY <1>3, <2>1, <3>2
    <3> QED  BY <3>3, <3>4 DEF AnswerHeld
  <2>4. CASE mem_we
    BY <2>1, <2>4 DEF AnswerHeld
  <2> QED  BY <2>2, <2>3, <2>4
<1>6. CASE FetchEnds
  <2>1. /\ UNCHANGED <<store, rdata, flash_mode, flash_page, mem_addr, mem_size, mem_we>>
        /\ mem_valid /\ (ext_req_valid => ready)
    BY <1>1, <1>6 DEF FetchEnds, FetchWait, PortRests, FetchAsked, memVars
  <2>2. ExtWord' = ExtWord
    BY <1>3, <2>1
  <2> QED  BY <1>1, <2>1, <2>2 DEF AnswerHeld, ext_req_valid
<1>7. CASE AccessEnds
  <2>1. /\ UNCHANGED <<store, rdata, mem_addr, mem_size, ir>>
        /\ state = "MEM_WAIT" /\ ready' = FALSE /\ state' = "WB"
        /\ (ext_req_valid => ready)
    BY <1>7 DEF AccessEnds, MemWait, PortRests
  <2>2. CASE Opcode(ir) = OP_LOAD
    <3>1. ~mem_we /\ mem_valid
      BY <1>1, <2>1, <2>2 DEF AccessAsked, OP_LOAD, OP_STORE
    <3>2. UNCHANGED memVars
      BY <1>1, <1>7, <3>1, MemHeld DEF AccessEnds
    <3>3. ExtWord' = ExtWord
      BY <1>3, <2>1, <3>2 DEF memVars
    <3> QED  BY <1>1, <2>1, <3>1, <3>2, <3>3 DEF AnswerHeld, ext_req_valid, memVars
  <2>3. CASE Opcode(ir) # OP_LOAD
    BY <2>1, <2>3 DEF AnswerHeld
  <2> QED  BY <2>2, <2>3
<1>8. CASE Reset
  BY <1>2, <1>8 DEF Reset
<1>9. CASE Still
  <2>1. UNCHANGED <<store, rdata, flash_mode, flash_page, mem_addr, mem_size, mem_we,
                    ready, state, ir>>
    BY <1>9 DEF Still, ctrlVars, reqVars, memVars, portVars
  <2>2. ExtWord' = ExtWord
    BY <1>3, <2>1
  <2> QED  BY <1>1, <2>1, <2>2 DEF AnswerHeld
<1> QED
  BY <1>4, <1>5, <1>6, <1>7, <1>8, <1>9, Steps

LEMMA IrIsFetchedStep ==
  ASSUME IsaIInv, [Next]_vars
  PROVE  IrIsFetched'
<1>1. /\ TypeOK /\ AnswerHeld /\ IrIsFetched /\ FetchAsked /\ AccessAsked /\ StoreMoved
      /\ gpio_in \in GpioIn
  BY DEF IsaIInv, TypeOK
<1>2. ASSUME UNCHANGED <<rom, ram_words, settled, flash_mode, flash_page, gpio_out, pc>>
      PROVE  /\ \A pins : FetchedWord(pins)' = FetchedWord(pins)
             /\ InContract(pc, 4, flash_mode)' <=> InContract(pc, 4, flash_mode)
  BY <1>2 DEF FetchedWord, Ram
<1>3. ASSUME ~Holding'
      PROVE  IrIsFetched'
  BY <1>3 DEF IrIsFetched
<1>4. ASSUME UNCHANGED <<rom, ram_words, settled, flash_mode, flash_page, gpio_out, pc, ir>>,
             Holding' => Holding
      PROVE  IrIsFetched'
  BY <1>1, <1>2, <1>4 DEF IrIsFetched
<1>5. CASE Between(Fetch) \/ Between(Wb)
  BY <1>3, <1>5 DEF Between, Fetch, Wb, Holding
<1>6. CASE Between(Decode)
  <2>1. PICK u \in Garbage : ir' = mem_rdata(u)
    BY <1>6 DEF Between, Decode
  <2>2. /\ mem_addr = pc /\ mem_size = 2 /\ ~mem_we /\ state = "DECODE"
        /\ UNCHANGED <<rom, ram_words, settled, flash_mode, flash_page, gpio_out, pc>>
    BY <1>1, <1>6 DEF Between, Decode, FetchAsked, memVars
  <2>3. store = settled
    BY <1>1, <2>2 DEF StoreMoved
  <2>4. SUFFICES ASSUME InContract(pc, 4, flash_mode)
                 PROVE  ir' = FetchedWord(gpio_in)
    BY <1>1, <1>2, <2>2 DEF IrIsFetched
  <2>5. in_ext(mem_addr, flash_mode) => rdata = ExtWord
    BY <1>1, <2>2 DEF AnswerHeld
  <2>6. mem_rdata(u) = Loaded
    BY <1>1, <2>2, <2>4, <2>5, ReadWhole
  <2>7. Loaded = FetchedWord(gpio_in)
    BY <2>2, <2>3 DEF Loaded, FetchedWord, Bytes
  <2> QED  BY <2>1, <2>6, <2>7
<1>7. CASE Between(Exec)
  BY <1>4, <1>7 DEF Between, Exec, memVars, Holding
<1>8. CASE Between(Mem)
  BY <1>4, <1>8 DEF Between, Mem, memVars, Holding
<1>9. CASE Busy
  BY <1>4, <1>9 DEF Busy, ctrlVars, memVars, Holding
<1>10. CASE FetchEnds
  BY <1>3, <1>10 DEF FetchEnds, FetchWait, Holding
<1>11. CASE AccessEnds
  <2>1. state = "MEM_WAIT" /\ state' = "WB" /\ ir' = ir
    BY <1>11 DEF AccessEnds, MemWait
  <2>2. CASE Opcode(ir) = OP_STORE
    BY <1>3, <2>1, <2>2 DEF Holding
  <2>3. CASE Opcode(ir) # OP_STORE
    <3>1. ~mem_we
      BY <1>1, <2>1, <2>3 DEF AccessAsked
    <3>2. UNCHANGED memVars
      BY <1>1, <1>11, <3>1, MemHeld DEF AccessEnds
    <3>3. settled' = settled
      BY <1>1, <1>11, <3>1 DEF AccessEnds, MemWait, StoreMoved
    <3>4. UNCHANGED <<rom, pc>>
      BY <1>11 DEF AccessEnds, MemWait
    <3> QED  BY <1>4, <2>1, <3>2, <3>3, <3>4 DEF memVars, Holding
  <2> QED  BY <2>2, <2>3
<1>12. CASE Reset
  BY <1>3, <1>12 DEF Reset, Holding
<1>13. CASE Still
  BY <1>4, <1>13 DEF Still, ctrlVars, memVars, Holding
<1> QED
  BY <1>5, <1>6, <1>7, <1>8, <1>9, <1>10, <1>11, <1>12, <1>13, Steps

LEMMA IsaIInvInit == Init => IsaIInv
<1> SUFFICES ASSUME Init
             PROVE  IsaIInv
  OBVIOUS
<1>1. TypeOK
  BY InitTypes
<1>2. WritesAreStores /\ Waiting /\ FetchAsked /\ AccessAsked /\ ResultsHeld
  BY DEF Init, WritesAreStores, Waiting, FetchAsked, AccessAsked, ResultsHeld
<1>3. PortCounts
  BY DEF Init, PortCounts, Bytes
<1>4. StoreMoved /\ AnswerHeld /\ IrIsFetched
  BY DEF Init, StoreMoved, AnswerHeld, IrIsFetched, Holding
<1> QED  BY <1>1, <1>2, <1>3, <1>4 DEF IsaIInv

LEMMA IsaIInvAlways == Spec => []IsaIInv
<1>1. Init => IsaIInv
  BY IsaIInvInit
<1>2. IsaIInv /\ (TypeOK /\ WritesAreStores)' /\ [Next]_vars => IsaIInv'
  <2> SUFFICES ASSUME IsaIInv, (TypeOK /\ WritesAreStores)', [Next]_vars
               PROVE  IsaIInv'
    OBVIOUS
  <2>1. Waiting'
    BY WaitingStep DEF IsaIInv
  <2>2. FetchAsked' /\ AccessAsked' /\ PortCounts' /\ ResultsHeld'
    BY FetchAskedStep, AccessAskedStep, PortCountsStep, ResultsHeldStep
  <2>3. StoreMoved' /\ AnswerHeld' /\ IrIsFetched'
    BY StoreMovedStep, AnswerHeldStep, IrIsFetchedStep
  <2> QED  BY <2>1, <2>2, <2>3 DEF IsaIInv
<1> QED
  BY <1>1, <1>2, SocTypes, WritesSafety, PTL DEF Spec

-----------------------------------------------------------------------------
\* The steps of the instruction set, in the terms of the computer.

\* The instruction w at address at, and its access, keep to the contract.
Keeps(w, at) ==
  /\ InContract(at, 4, flash_mode)
  /\ Opcode(w) \in {OP_LOAD, OP_STORE} =>
       InContract(Addr8(AluY(w, regs)), Bytes(AccessSize(w)), flash_mode)

LEMMA ProperIs == \A w : Program!Proper(w) <=> Keeps(w, IsaPc)
<1> SUFFICES ASSUME NEW w
             PROVE  Program!Proper(w) <=> Keeps(w, IsaPc)
  OBVIOUS
<1>1. Program!Accessed(w) = Addr8(AluY(w, regs)) /\ Program!Length(w) = Bytes(AccessSize(w))
  BY ProgramOperators, ProgramAlu DEF Program!Accessed, Program!Length
<1>2. Program!IsAccess(w) <=> Opcode(w) \in {OP_LOAD, OP_STORE}
  BY ProgramOperators
     DEF Program!IsAccess, Program!OP_LOAD, OP_LOAD, Program!OP_STORE, OP_STORE
<1> QED
  BY <1>1, <1>2, ProgramStores DEF Program!Proper, Keeps

LEMMA FetchedIs ==
  ASSUME IsaPc = pc
  PROVE  \A pins : Program!Fetched(pins) = FetchedWord(pins)
BY ProgramLoad DEF Program!Fetched, Program!Load, FetchedWord

\* What comes after an instruction that is not a store.
LEMMA ExecutePlain ==
  ASSUME NEW w, NEW pins, Keeps(w, IsaPc), Opcode(w) # OP_STORE,
         IsaPc' = NextPc(w, regs, IsaPc),
         regs' = WriteBack(w, regs, IsaPc, AluY(w, regs),
                   IF Opcode(w) = OP_LOAD
                     THEN LoadAt(rom, Ram, settled, flash_mode, flash_page, gpio_out, pins,
                                 Addr8(AluY(w, regs)), Bytes(AccessSize(w)))
                     ELSE Zeros(32)),
         UNCHANGED <<rom, Ram, settled, gpio_out, flash_mode, flash_page>>
  PROVE  Program!Execute(w, pins)
<1>1. Program!Accessed(w) = Addr8(AluY(w, regs)) /\ Program!Length(w) = Bytes(AccessSize(w))
  BY ProgramOperators, ProgramAlu DEF Program!Accessed, Program!Length
<1>2. Program!Proper(w)
  BY ProperIs
<1>3. Program!Opcode(w) = Opcode(w) /\ Program!OP_STORE = OP_STORE /\ Program!OP_LOAD = OP_LOAD
      /\ Program!Zeros(32) = Zeros(32)
  BY ProgramOperators DEF Program!OP_STORE, OP_STORE, Program!OP_LOAD, OP_LOAD
<1>4. IsaPc' = Program!NextPc(w, regs, IsaPc)
  BY ProgramNext
<1>5. regs' = Program!WriteBack(w, regs, IsaPc, Program!AluY(w, regs),
                IF Program!Opcode(w) = Program!OP_LOAD
                  THEN Program!Load(Program!Accessed(w), Program!Length(w), pins)
                  ELSE Program!Zeros(32))
  BY <1>1, <1>3, ProgramNext, ProgramAlu, ProgramLoad DEF Program!Load
<1> QED
  BY <1>2, <1>3, <1>4, <1>5 DEF Program!Execute

\* What comes after a store.
LEMMA ExecuteStore ==
  ASSUME NEW w, NEW pins, Keeps(w, IsaPc), Opcode(w) = OP_STORE,
         NEW a, NEW n, NEW wd,
         a = Addr8(AluY(w, regs)), n = Bytes(AccessSize(w)), wd = Reg(regs, Rs2(w)),
         IsaPc' = NextPc(w, regs, IsaPc), regs' = regs,
         Ram' = StoreRam(Ram, flash_mode, a, n, wd),
         settled' = StorePsram(settled, flash_mode, a, n, wd),
         gpio_out' = IF a = LED_OUT THEN Lane(wd, 0) ELSE gpio_out,
         flash_mode' = (flash_mode \/ a = FLASH_MODE),
         flash_page' = IF a = FLASH_PAGE THEN Addr8(wd) ELSE flash_page,
         rom' = rom
  PROVE  Program!Execute(w, pins)
<1>1. Program!Accessed(w) = a /\ Program!Length(w) = n /\ Program!Reg(regs, Program!Rs2(w)) = wd
  BY ProgramOperators, ProgramAlu DEF Program!Accessed, Program!Length
<1>2. Program!Proper(w)
  BY ProperIs
<1>3. Program!Opcode(w) = Opcode(w) /\ Program!OP_STORE = OP_STORE
  BY ProgramOperators DEF Program!OP_STORE, OP_STORE
<1>4. IsaPc' = Program!NextPc(w, regs, IsaPc)
  BY ProgramNext
<1>5. \A d : regs' = Program!WriteBack(w, regs, IsaPc, Program!AluY(w, regs), d)
  BY ProgramNext
     DEF WriteBack, OP_LUI, OP_AUIPC, OP_JAL, OP_JALR, OP_LOAD, OP_IMM, OP_REG, OP_STORE
<1>6. /\ Ram' = Program!StoreRam(Ram, flash_mode, a, n, wd)
      /\ settled' = Program!StorePsram(settled, flash_mode, a, n, wd)
  BY ProgramStores
<1>7. /\ gpio_out' = IF a = Program!LED_OUT THEN Program!Lane(wd, 0) ELSE gpio_out
      /\ flash_mode' = (flash_mode \/ a = Program!FLASH_MODE)
      /\ flash_page' = IF a = Program!FLASH_PAGE THEN Program!Addr8(wd) ELSE flash_page
  BY ProgramOperators
     DEF LED_OUT, FLASH_MODE, FLASH_PAGE, Program!LED_OUT, Program!FLASH_MODE,
         Program!FLASH_PAGE
<1> QED
  BY <1>1, <1>2, <1>3, <1>4, <1>5, <1>6, <1>7 DEF Program!Execute

\* Outside the contract every step is allowed that leaves the ROM alone.
LEMMA StrayIs ==
  ASSUME TypeOK', rom' = rom, IsaPc' \in BusAddr,
         NEW pins \in GpioIn, ~Keeps(Program!Fetched(pins), IsaPc)
  PROVE  Program!Stray
<1>1. ~Program!Proper(Program!Fetched(pins))
  BY ProperIs
<1>2. regs' \in Program!RegFile
  BY DEF TypeOK, Program!RegFile, Program!Word, Word, Program!Bits, Bits, Program!BIT, BIT
<1>3. Ram' \in Program!RamBytes
  <2>1. Ram' \in RamBytes
    BY RamType DEF TypeOK, Ram
  <2> QED
    BY <2>1 DEF RamBytes, Program!RamBytes, Program!Byte, Byte, Program!Bits, Bits,
                Program!BIT, BIT
<1>4. settled' \in Program!Store
  BY DEF TypeOK, Store, Program!Store, Program!Byte, Byte, Program!Bits, Bits,
         Program!BIT, BIT, Program!Dev, Dev, Program!Index, Index
<1>5. gpio_out' \in Program!Byte
  BY DEF TypeOK, Program!Byte, Byte, Program!Bits, Bits, Program!BIT, BIT
<1>6. IsaPc' \in Program!BusAddr /\ flash_page' \in Program!BusAddr /\ flash_mode' \in BOOLEAN
  BY DEF TypeOK, Program!BusAddr, BusAddr
<1> QED
  BY <1>1, <1>2, <1>3, <1>4, <1>5, <1>6 DEF Program!Stray

\* A step the instruction set does not see.
LEMMA Unseen ==
  ASSUME UNCHANGED <<rom, regs, memVars, settled>>, IsaPc' = IsaPc
  PROVE  UNCHANGED Program!isaVars
BY DEF memVars, Ram, Program!isaVars

\* An instruction other than a store is over when the pc moves.
LEMMA WbMaps ==
  ASSUME IsaIInv, TypeOK', Between(Wb)
  PROVE  Program!Next \/ UNCHANGED Program!isaVars
<1>1. /\ TypeOK /\ StoreMoved /\ AnswerHeld /\ IrIsFetched /\ ResultsHeld /\ AccessAsked
      /\ gpio_in \in GpioIn /\ next_pc \in BusAddr
  BY DEF IsaIInv, TypeOK
<1>2. PICK u \in Garbage : regs' = WriteBack(ir, regs, pc, alu_result, mem_rdata(u))
  BY DEF Between, Wb
<1>3. /\ state = "WB" /\ state' = "FETCH" /\ pc' = next_pc /\ ~mem_we
      /\ UNCHANGED <<rom, memVars, settled>>
  BY DEF Between, Wb
<1>4. /\ alu_result = AluY(ir, regs) /\ next_pc = NextPc(ir, regs, pc)
      /\ store = settled /\ IsaPc' = next_pc
  BY <1>1, <1>3 DEF ResultsHeld, StoreMoved, IsaPc
<1>5. CASE Opcode(ir) = OP_STORE
  <2>1. IsaPc = next_pc
    BY <1>3, <1>5 DEF IsaPc
  <2>2. regs' = regs
    BY <1>2, <1>5
       DEF WriteBack, OP_LUI, OP_AUIPC, OP_JAL, OP_JALR, OP_LOAD, OP_IMM, OP_REG, OP_STORE
  <2> QED  BY <1>3, <1>4, <2>1, <2>2, Unseen
<1>6. CASE Opcode(ir) # OP_STORE
  <2>1. IsaPc = pc
    BY <1>3, <1>6 DEF IsaPc
  <2>2. Holding
    BY <1>3, <1>6 DEF Holding
  <2>3. CASE ~InContract(pc, 4, flash_mode)
    <3>1. ~Keeps(Program!Fetched(gpio_in), IsaPc)
      BY <2>1, <2>3 DEF Keeps
    <3>2. Program!Stray
      BY <1>1, <1>3, <1>4, <3>1, StrayIs
    <3> QED  BY <3>2 DEF Program!Next
  <2>4. CASE InContract(pc, 4, flash_mode)
    <3>1. PICK now \in GpioIn : ir = Program!Fetched(now)
      BY <1>1, <2>1, <2>2, <2>4, FetchedIs DEF IrIsFetched
    <3>2. CASE ~Keeps(ir, IsaPc)
      <4>1. Program!Stray
        BY <1>1, <1>3, <1>4, <3>1, <3>2, StrayIs
      <4> QED  BY <4>1 DEF Program!Next
    <3>3. CASE Keeps(ir, IsaPc)
      <4> DEFINE got == LoadAt(rom, Ram, settled, flash_mode, flash_page, gpio_out, gpio_in,
                               Addr8(AluY(ir, regs)), Bytes(AccessSize(ir)))
      <4>1. regs' = WriteBack(ir, regs, IsaPc, AluY(ir, regs),
                      IF Opcode(ir) = OP_LOAD THEN got ELSE Zeros(32))
        <5>1. CASE Opcode(ir) = OP_LOAD
          <6>1. mem_addr = Addr8(AluY(ir, regs)) /\ mem_size = AccessSize(ir)
            BY <1>1, <1>3, <5>1 DEF AccessAsked
          <6>2. InContract(mem_addr, Bytes(mem_size), flash_mode)
            BY <3>3, <5>1, <6>1 DEF Keeps
          <6>3. in_ext(mem_addr, flash_mode) => rdata = ExtWord
            BY <1>1, <1>3, <5>1 DEF AnswerHeld
          <6>4. Loaded = got
            BY <1>4, <6>1 DEF Loaded
          <6>5. \A i \in 0 .. 31 : i < 8 * Bytes(AccessSize(ir)) => mem_rdata(u)[i] = Loaded[i]
            BY <1>1, <6>1, <6>2, <6>3, ReadBits
          <6>6. mem_rdata(u) = [i \in 0 .. 31 |-> mem_rdata(u)[i]]
            BY <1>1, ReadType DEF Word, Bits
          <6>7. Loaded = [i \in 0 .. 31 |-> Loaded[i]]
            BY LoadedIsWord
          <6>8. LoadValue(ir, mem_rdata(u)) = LoadValue(ir, got)
            <7>1. ir \in Word
              BY <1>1 DEF TypeOK
            <7>2. LoadValue(ir, mem_rdata(u)) = LoadValue(ir, Loaded)
              BY <6>5, <6>6, <6>7, <7>1, LoadValueBits
            <7> QED  BY <6>4, <7>2
          <6> HIDE DEF got
          <6> QED  BY <1>2, <1>4, <2>1, <5>1, <6>8 DEF WriteBack
        <5>2. CASE Opcode(ir) # OP_LOAD
          BY <1>2, <1>4, <2>1, <5>2 DEF WriteBack
        <5> QED  BY <5>1, <5>2
      <4>2. UNCHANGED <<rom, Ram, settled, gpio_out, flash_mode, flash_page>>
        BY <1>3 DEF memVars, Ram
      <4>3. Program!Execute(ir, gpio_in)
        BY <1>4, <1>6, <2>1, <3>3, <4>1, <4>2, ExecutePlain
      <4> QED  BY <1>1, <3>1, <4>3 DEF Program!Next, Program!Step
    <3> QED  BY <3>2, <3>3
  <2> QED  BY <2>3, <2>4
<1> QED  BY <1>5, <1>6

\* A store is over when its access is.
LEMMA AccessMaps ==
  ASSUME IsaIInv, TypeOK', AccessEnds
  PROVE  Program!Next \/ UNCHANGED Program!isaVars
<1>1. /\ TypeOK /\ StoreMoved /\ IrIsFetched /\ ResultsHeld /\ AccessAsked /\ PortCounts
      /\ WritesAreStores /\ gpio_in \in GpioIn
  BY DEF IsaIInv, TypeOK
<1>2. /\ state = "MEM_WAIT" /\ state' = "WB" /\ settled' = store
      /\ UNCHANGED <<rom, pc, next_pc, ir, regs>> /\ MemClock /\ PortRests
  BY DEF AccessEnds, MemWait
<1>3. IsaPc = pc /\ Holding
  BY <1>2 DEF IsaPc, Holding
<1>4. CASE Opcode(ir) # OP_STORE
  <2>1. ~mem_we
    BY <1>1, <1>2, <1>4 DEF AccessAsked
  <2>2. UNCHANGED memVars
    BY <1>1, <1>2, <2>1, MemHeld
  <2>3. settled' = settled
    BY <1>1, <1>2, <2>1 DEF StoreMoved
  <2>4. IsaPc' = pc
    BY <1>2, <1>4 DEF IsaPc
  <2> QED  BY <1>2, <1>3, <2>2, <2>3, <2>4, Unseen
<1>5. CASE Opcode(ir) = OP_STORE
  <2>1. IsaPc' = next_pc /\ next_pc = NextPc(ir, regs, pc) /\ next_pc \in BusAddr
    BY <1>1, <1>2, <1>5 DEF IsaPc, ResultsHeld, TypeOK
  <2>2. CASE ~InContract(pc, 4, flash_mode)
    <3>1. ~Keeps(Program!Fetched(gpio_in), IsaPc)
      BY <1>3, <2>2 DEF Keeps
    <3>2. Program!Stray
      BY <1>1, <1>2, <2>1, <3>1, StrayIs
    <3> QED  BY <3>2 DEF Program!Next
  <2>3. CASE InContract(pc, 4, flash_mode)
    <3>1. PICK now \in GpioIn : ir = Program!Fetched(now)
      BY <1>1, <1>3, <2>3, FetchedIs DEF IrIsFetched
    <3>2. CASE ~Keeps(ir, IsaPc)
      <4>1. Program!Stray
        BY <1>2, <2>1, <3>1, <3>2, StrayIs
      <4> QED  BY <4>1 DEF Program!Next
    <3>3. CASE Keeps(ir, IsaPc)
      <4> DEFINE a  == Addr8(AluY(ir, regs))
                 n  == Bytes(AccessSize(ir))
                 wd == Reg(regs, Rs2(ir))
      <4>1. /\ mem_we /\ mem_valid /\ mem_addr = a /\ mem_wdata = wd
            /\ mem_size = AccessSize(ir)
        BY <1>1, <1>2, <1>5 DEF AccessAsked, WritesAreStores
      <4>2. InContract(a, n, flash_mode)
        BY <1>5, <3>3 DEF Keeps
      <4>3. /\ a \in BusAddr /\ wd \in Word /\ flash_mode \in BOOLEAN
            /\ mem_size \in Size /\ ram_words \in RamWords
        BY <1>1, <4>1 DEF TypeOK
      <4> HIDE DEF a, wd
      <4>4. settled' = StorePsram(settled, flash_mode, a, n, wd)
        <5>1. CASE in_ext(a, flash_mode)
          <6>1. ready
            BY <1>2, <4>1, <5>1 DEF PortRests, ext_req_valid
          <6> QED  BY <1>1, <1>2, <4>1, <6>1 DEF StoreMoved
        <5>2. CASE ~in_ext(a, flash_mode)
          <6>1. Region(a, flash_mode) # "psram"
            BY <4>3, <5>2, RegionFacts DEF in_ext
          <6>2. \A k : StorePsram(settled, flash_mode, a, k, wd) = settled
            BY <6>1, PutNone
          <6> QED  BY <1>1, <1>2, <4>1, <6>2 DEF StoreMoved
        <5> QED  BY <5>1, <5>2
      <4>5. Ram' = StoreRam(Ram, flash_mode, a, n, wd)
        <5>1. CASE in_ram(a, flash_mode)
          <6>1. ram_words' = WriteRam(ram_words, a, mem_size, wd)
            BY <1>2, <4>1, <5>1 DEF MemClock
          <6> QED  BY <4>1, <4>2, <4>3, <5>1, <6>1, RamStore DEF Ram
        <5>2. CASE ~in_ram(a, flash_mode)
          <6>1. ram_words' = ram_words
            BY <1>2, <4>1, <5>2 DEF MemClock
          <6>2. Region(a, flash_mode) # "ram"
            BY <4>3, <5>2, RegionFacts
          <6> QED  BY <6>1, <6>2 DEF StoreRam, Ram
        <5> QED  BY <5>1, <5>2
      <4>6. /\ gpio_out' = IF a = LED_OUT THEN Lane(wd, 0) ELSE gpio_out
            /\ flash_mode' = (flash_mode \/ a = FLASH_MODE)
            /\ flash_page' = IF a = FLASH_PAGE THEN Addr8(wd) ELSE flash_page
        <5>1. CASE in_ram(a, flash_mode)
          <6>1. a < 240
            BY <4>3, <5>1, RegionFacts DEF BusAddr
          <6>2. a # LED_OUT /\ a # FLASH_MODE /\ a # FLASH_PAGE
            BY <6>1 DEF LED_OUT, FLASH_MODE, FLASH_PAGE
          <6>3. UNCHANGED <<gpio_out, flash_mode, flash_page>>
            BY <1>2, <4>1, <5>1 DEF MemClock
          <6> QED  BY <4>3, <6>2, <6>3
        <5>2. CASE ~in_ram(a, flash_mode)
          BY <1>2, <4>1, <5>2 DEF MemClock
        <5> QED  BY <5>1, <5>2
      <4>7. Program!Execute(ir, gpio_in)
        <5> HIDE DEF n
        <5>1. a = Addr8(AluY(ir, regs)) /\ n = Bytes(AccessSize(ir)) /\ wd = Reg(regs, Rs2(ir))
          BY DEF a, n, wd
        <5>2. IsaPc' = NextPc(ir, regs, IsaPc) /\ regs' = regs /\ rom' = rom
          BY <1>2, <1>3, <2>1
        <5> QED
          BY <1>5, <3>3, <4>4, <4>5, <4>6, <5>1, <5>2, ExecuteStore
      <4> QED  BY <1>1, <3>1, <4>7 DEF Program!Next, Program!Step
    <3> QED  BY <3>2, <3>3
  <2> QED  BY <2>2, <2>3
<1> QED  BY <1>4, <1>5

\* A reset comes between two instructions, or leaves a store half moved.
LEMMA ResetMaps ==
  ASSUME IsaIInv, TypeOK', Reset
  PROVE  Program!Next
<1>1. /\ TypeOK /\ StoreMoved /\ IrIsFetched /\ AccessAsked /\ PortCounts
      /\ WritesAreStores /\ gpio_in \in GpioIn /\ moved \in 0 .. 4 /\ mem_size \in Size
  BY DEF IsaIInv, TypeOK
<1>2. /\ state' = "FETCH" /\ pc' = 0 /\ flash_mode' = FALSE /\ flash_page' = 0
      /\ gpio_out' = Zeros(8) /\ settled' = store
      /\ UNCHANGED <<rom, regs, ram_words>>
  BY DEF Reset
<1>3. IsaPc' = 0 /\ Ram' = Ram /\ gpio_out' = Program!Zeros(8)
  BY <1>2, ProgramOperators DEF IsaPc, Ram
<1>4. CASE ~mem_we
  <2>1. settled' = settled
    BY <1>1, <1>2, <1>4 DEF StoreMoved
  <2>2. Program!Reset
    BY <1>2, <1>3, <2>1 DEF Program!Reset
  <2> QED  BY <2>2 DEF Program!Next
<1>5. CASE mem_we
  <2> DEFINE n == IF ready THEN Bytes(mem_size) ELSE moved
  <2>1. /\ state = "MEM_WAIT" /\ Opcode(ir) = OP_STORE
        /\ mem_addr = Addr8(AluY(ir, regs)) /\ mem_wdata = Reg(regs, Rs2(ir))
        /\ mem_size = AccessSize(ir)
    BY <1>1, <1>5 DEF WritesAreStores, AccessAsked
  <2>2. IsaPc = pc /\ Holding
    BY <2>1 DEF IsaPc, Holding
  <2>3. settled' = StorePsram(settled, flash_mode, mem_addr, n, mem_wdata)
    BY <1>1, <1>2, <1>5 DEF StoreMoved
  <2>4. n \in 0 .. Bytes(mem_size)
    BY <1>1 DEF PortCounts, Size, Bytes
  <2> HIDE DEF n
  <2>5. CASE n = 0
    <3>1. settled' = settled
      BY <2>3, <2>5, PutNone
    <3>2. Program!Reset
      BY <1>2, <1>3, <3>1 DEF Program!Reset
    <3> QED  BY <3>2 DEF Program!Next
  <2>6. CASE n # 0 /\ InContract(pc, 4, flash_mode)
    <3>1. PICK now \in GpioIn : ir = Program!Fetched(now)
      BY <1>1, <2>2, <2>6, FetchedIs DEF IrIsFetched
    <3>2. /\ Program!Opcode(ir) = Program!OP_STORE
          /\ Program!Accessed(ir) = mem_addr
          /\ Program!Length(ir) = Bytes(mem_size)
          /\ Program!Reg(regs, Program!Rs2(ir)) = mem_wdata
      BY <2>1, ProgramOperators, ProgramAlu
         DEF Program!OP_STORE, OP_STORE, Program!Accessed, Program!Length
    <3>3. n \in 1 .. Program!Length(ir)
      BY <1>1, <2>4, <2>6, <3>2 DEF Size, Bytes
    <3>4. settled' = Program!StorePsram(settled, flash_mode, Program!Accessed(ir), n,
                                        Program!Reg(regs, Program!Rs2(ir)))
      BY <2>3, <3>2, ProgramStores
    <3>5. Program!Reset
      BY <1>2, <1>3, <3>1, <3>2, <3>3, <3>4 DEF Program!Reset
    <3> QED  BY <3>5 DEF Program!Next
  <2>7. CASE ~InContract(pc, 4, flash_mode)
    <3>1. ~Keeps(Program!Fetched(gpio_in), IsaPc)
      BY <2>2, <2>7 DEF Keeps
    <3>2. IsaPc' \in BusAddr
      BY <1>3 DEF BusAddr
    <3>3. Program!Stray
      BY <1>1, <1>2, <3>1, <3>2, StrayIs
    <3> QED  BY <3>3 DEF Program!Next
  <2> QED  BY <2>5, <2>6, <2>7
<1> QED  BY <1>1, <1>4, <1>5

LEMMA StepMaps ==
  ASSUME IsaIInv, TypeOK', [Next]_vars
  PROVE  [Program!Next]_(Program!isaVars)
<1>1. CASE Between(Fetch)
  <2>1. UNCHANGED <<rom, regs, memVars, settled>> /\ IsaPc' = IsaPc
    BY <1>1 DEF Between, Fetch, IsaPc
  <2> QED  BY <2>1, Unseen
<1>2. CASE Between(Decode)
  <2>1. UNCHANGED <<rom, regs, memVars, settled>> /\ IsaPc' = IsaPc
    BY <1>2 DEF Between, Decode, IsaPc
  <2> QED  BY <2>1, Unseen
<1>3. CASE Between(Exec)
  <2>1. UNCHANGED <<rom, regs, memVars, settled>> /\ IsaPc' = IsaPc
    BY <1>3 DEF Between, Exec, IsaPc
  <2> QED  BY <2>1, Unseen
<1>4. CASE Between(Mem)
  <2>1. UNCHANGED <<rom, regs, memVars, settled>> /\ IsaPc' = IsaPc
    BY <1>4 DEF Between, Mem, IsaPc
  <2> QED  BY <2>1, Unseen
<1>5. CASE Between(Wb)
  BY <1>5, WbMaps
<1>6. CASE Busy
  <2>1. UNCHANGED <<rom, regs, memVars, settled>> /\ IsaPc' = IsaPc
    BY <1>6 DEF Busy, ctrlVars, IsaPc
  <2> QED  BY <2>1, Unseen
<1>7. CASE FetchEnds
  <2>1. UNCHANGED <<rom, regs, memVars, settled>> /\ IsaPc' = IsaPc
    BY <1>7 DEF FetchEnds, FetchWait, IsaPc
  <2> QED  BY <2>1, Unseen
<1>8. CASE AccessEnds
  BY <1>8, AccessMaps
<1>9. CASE Reset
  BY <1>9, ResetMaps
<1>10. CASE Still
  <2>1. UNCHANGED <<rom, regs, memVars, settled>> /\ IsaPc' = IsaPc
    BY <1>10 DEF Still, ctrlVars, IsaPc
  <2> QED  BY <2>1, Unseen
<1> QED
  BY <1>1, <1>2, <1>3, <1>4, <1>5, <1>6, <1>7, <1>8, <1>9, <1>10, Steps

\* The computer implements its instruction set, for every program, register
\* file, content of the RAM and of the devices, and behaviour of the pins:
\* whatever region an instruction is fetched from, and however many clocks it
\* waits for the serial bus, its clocks amount to one step of Isa; and a reset
\* leaves at most the bytes moved of one store.
THEOREM SocImplementsIsa == Spec => ImplementsIsa
<1>1. Init => Program!Init
  <2> SUFFICES ASSUME Init
               PROVE  Program!Init
    OBVIOUS
  <2>1. IsaPc = 0
    BY DEF Init, IsaPc
  <2>2. Ram \in {RamAsBytes(w) : w \in InitWords}
    BY DEF Init, Ram
  <2>3. gpio_out = Program!Zeros(8) /\ settled \in InitStore
    BY ProgramOperators DEF Init
  <2> QED  BY <2>1, <2>2, <2>3 DEF Init, Program!Init
<1>2. IsaIInv /\ TypeOK' /\ [Next]_vars => [Program!Next]_(Program!isaVars)
  BY StepMaps
<1> QED
  BY <1>1, <1>2, IsaIInvAlways, SocTypes, PTL DEF Spec, ImplementsIsa, Program!Spec

-----------------------------------------------------------------------------
\* The chip: Soc with the serial bus in the place of the abstract port.  What
\* QspiBus_proofs shows of the bus it shows for any requester that holds an
\* access until its answer; here that requester is mem.v, and the accesses are
\* all it can form.

AllAccess == {a \in AccessType : a.dev = "flash" => ~a.we}

Wires == INSTANCE QspiBus_proofs
           WITH valid <- ext_req_valid, acc <- ext_acc, state <- eng,
                Access <- AllAccess, MaxAccess <- 0, issued <- 0

LEMMA WiresAssumptions ==
  /\ \A a \in AllAccess : a \in Wires!AccessType /\ (a.dev = "flash" => ~a.we)
  /\ \A st \in InitStore : st \in Wires!Store
  /\ IdxBits \in 1 .. 24
  /\ 0 \in Nat /\ MaxResets \in Nat
<1>1. Wires!AccessType = AccessType /\ Wires!Store = Store
  BY DEF Wires!AccessType, AccessType, Wires!Store, Store, Wires!Dev, Dev,
     Wires!Addr24, Addr24, Wires!Word, Word, Wires!Size, Size, Wires!Index, Index,
     Wires!Byte, Byte, Wires!Bits, Bits, Wires!BIT, BIT
<1>. QED  BY <1>1, IdxBitsAssumption, StoreAssumption, SocAssumption DEF AllAccess

\* The two instances of the engine and of the devices say the same.
LEMMA EngineIs ==
  /\ Bus!Idle <=> Wires!Idle
  /\ Bus!Accept <=> Wires!Accept
  /\ Bus!ShiftLo <=> Wires!ShiftLo
  /\ Bus!ShiftHi(Bus!Miso) <=> Wires!ShiftHi(Wires!Miso)
  /\ Bus!Done <=> Wires!Done
  /\ Bus!Post <=> Wires!Post
  /\ Bus!EngineReset <=> Wires!EngineReset
  /\ Bus!EngineInit <=> Wires!EngineInit
<1>1. \A n : Bus!Zeros(n) = Wires!Zeros(n)
  BY DEF Bus!Zeros, Wires!Zeros
<1>2. Bus!CMD_READ = Wires!CMD_READ /\ Bus!CMD_WRITE = Wires!CMD_WRITE
  BY DEF Bus!CMD_READ, Wires!CMD_READ, Bus!CMD_WRITE, Wires!CMD_WRITE,
     Bus!ToBits, Wires!ToBits
<1>3. \A n : Bus!DataBits(n) = Wires!DataBits(n)
  BY DEF Bus!DataBits, Wires!DataBits
<1>4. \A we, size, addr, wd :
        Bus!Preload(we, size, addr, wd) = Wires!Preload(we, size, addr, wd)
  BY <1>2, <1>3 DEF Bus!Preload, Wires!Preload
<1>5. \A v, b, n : Bus!ShiftIn(v, b, n) = Wires!ShiftIn(v, b, n)
  BY DEF Bus!ShiftIn, Wires!ShiftIn
<1>6. \A v, n : Bus!Unpack(v, n) = Wires!Unpack(v, n)
  BY DEF Bus!Unpack, Wires!Unpack
<1>7. Bus!AllHigh = Wires!AllHigh /\ \A d : Bus!Select(d) = Wires!Select(d)
  BY DEF Bus!AllHigh, Wires!AllHigh, Bus!Select, Wires!Select, Bus!Dev, Wires!Dev
<1>8. Bus!Miso = Wires!Miso
  BY DEF Bus!Miso, Wires!Miso
<1>9. Bus!Idle <=> Wires!Idle
  BY DEF Bus!Idle, Wires!Idle
<1>10. Bus!Accept <=> Wires!Accept
  BY <1>3, <1>4, <1>7 DEF Bus!Accept, Wires!Accept
<1>11. Bus!ShiftLo <=> Wires!ShiftLo
  BY DEF Bus!ShiftLo, Wires!ShiftLo
<1>12. Bus!ShiftHi(Bus!Miso) <=> Wires!ShiftHi(Wires!Miso)
  BY <1>5, <1>8 DEF Bus!ShiftHi, Wires!ShiftHi, Bus!LastBit, Wires!LastBit
<1>13. Bus!Done <=> Wires!Done
  BY <1>6, <1>7 DEF Bus!Done, Wires!Done
<1>14. Bus!Post <=> Wires!Post
  BY DEF Bus!Post, Wires!Post
<1>15. Bus!EngineReset <=> Wires!EngineReset
  BY <1>1, <1>7 DEF Bus!EngineReset, Wires!EngineReset
<1>16. Bus!EngineInit <=> Wires!EngineInit
  BY <1>1, <1>7 DEF Bus!EngineInit, Wires!EngineInit
<1>. QED
  BY <1>9, <1>10, <1>11, <1>12, <1>13, <1>14, <1>15, <1>16

LEMMA DevicesAre ==
  /\ Bus!DeviceReact <=> Wires!DeviceReact
  /\ Bus!DeviceInit <=> Wires!DeviceInit
<1>1. \A v, b, n : Bus!ShiftIn(v, b, n) = Wires!ShiftIn(v, b, n)
  BY DEF Bus!ShiftIn, Wires!ShiftIn
<1>2. /\ \A v, n : Bus!Increment(v, n) = Wires!Increment(v, n)
      /\ \A a, b : Bus!NextAddr(a, b) = Wires!NextAddr(a, b)
      /\ \A a : Bus!Idx(a) = Wires!Idx(a)
      /\ Bus!CMD_WRITE = Wires!CMD_WRITE
  BY DEF Bus!Increment, Wires!Increment, Bus!NextAddr, Wires!NextAddr,
     Bus!Idx, Wires!Idx, Bus!Low, Wires!Low, Bus!CMD_WRITE, Wires!CMD_WRITE,
     Bus!ToBits, Wires!ToBits
<1>3. \A s, b, m : Bus!Sample(s, b, m) = Wires!Sample(s, b, m)
  BY DEF Bus!Sample, Wires!Sample, Bus!ShiftIn, Wires!ShiftIn,
     Bus!Increment, Wires!Increment, Bus!NextAddr, Wires!NextAddr,
     Bus!Idx, Wires!Idx, Bus!Low, Wires!Low, Bus!CMD_WRITE, Wires!CMD_WRITE,
     Bus!ToBits, Wires!ToBits
<1>4. \A s, b, m : Bus!Commit(s, b, m) = Wires!Commit(s, b, m)
  BY <1>1, <1>2 DEF Bus!Commit, Wires!Commit
<1>5. \A s : Bus!Drive(s) = Wires!Drive(s) /\ Bus!Release(s) = Wires!Release(s)
  BY DEF Bus!Drive, Wires!Drive, Bus!Release, Wires!Release
<1>6. /\ \A d : Bus!Rises(d) <=> Wires!Rises(d)
      /\ \A d : Bus!Falls(d) <=> Wires!Falls(d)
      /\ \A d : Bus!Deselect(d) <=> Wires!Deselect(d)
  BY DEF Bus!Rises, Wires!Rises, Bus!Falls, Wires!Falls, Bus!Deselect, Wires!Deselect
<1>7. Bus!Dev = Wires!Dev
  BY DEF Bus!Dev, Wires!Dev
<1>8. Bus!DeviceReact <=> Wires!DeviceReact
  BY <1>3, <1>4, <1>5, <1>6, <1>7 DEF Bus!DeviceReact, Wires!DeviceReact
<1>9. Bus!DeviceInit <=> Wires!DeviceInit
  BY <1>7 DEF Bus!DeviceInit, Wires!DeviceInit, Bus!Zeros, Wires!Zeros
<1>. QED  BY <1>8, <1>9

LEMMA CountIs ==
  Bus!BytesMoved = Wires!BytesMoved /\ Bus!BytesMoved' = Wires!BytesMoved'
BY DEF Bus!BytesMoved, Wires!BytesMoved, Bus!Busy, Wires!Busy,
       Bus!RisesSoFar, Wires!RisesSoFar

\* The operators of the abstract port inside the instance are those of Soc.
LEMMA WirePortIs ==
  /\ \A n : Wires!Bytes(n) = Bytes(n)
  /\ Wires!Zeros(32) = Zeros(32)
  /\ \A m, a, k, wd :
       Wires!Port!WriteByte(m, a, k, wd) = [m EXCEPT ![Idx(Plus(a, 24, k))] = Lane(wd, k)]
  /\ \A m, a, n :
       Wires!Port!ReadWord(m, a, n) =
         [i \in 0 .. 31 |->
            IF i < 8 * n THEN m[Idx(Plus(a, 24, i \div 8))][i % 8] ELSE 0]
BY DEF Wires!Bytes, Bytes, Wires!Zeros, Zeros, Wires!Port!WriteByte,
       Wires!Port!ReadWord, Wires!Port!Idx, Idx, Wires!Port!Low, Low,
       Wires!Port!Plus, Plus, Wires!Port!Increment, Increment,
       Wires!Port!Lane, Lane

\* The inductive invariant of the chip: what core and memory keep, what the bus
\* keeps, and that the two count the same bytes.
ChipIInv ==
  /\ TypeOK /\ WritesAreStores /\ Waiting
  /\ Wires!WireIInv
  /\ moved = Wires!BytesMoved

LEMMA ChipTickClocks == ChipTick <=> ChipClocked(CoreClock)
BY DEF ChipTick, ChipClocked, CoreClock, ChipFetch, ChipFetchWait, ChipDecode,
       ChipExec, ChipMem, ChipMemWait, ChipWb

\* While the bus works for it, core and memory stand still.
LEMMA CoreWaits ==
  ASSUME TypeOK, WritesAreStores, Waiting, CoreClock, MemClock, ext_req_valid, ~ready
  PROVE  UNCHANGED <<ctrlVars, reqVars, memVars, settled>>
<1>1. mem_valid /\ state \in {"FETCH_WAIT", "MEM_WAIT"} /\ ~mem_ready
  BY DEF ext_req_valid, Waiting, mem_ready
<1>2. FetchWait \/ MemWait
  BY <1>1 DEF CoreClock, Fetch, Decode, Exec, Mem, Wb
<1>3. UNCHANGED <<ctrlVars, reqVars, settled>>
  <2>1. CASE FetchWait
    BY <1>1, <2>1 DEF FetchWait, ctrlVars, reqVars
  <2>2. CASE MemWait
    BY <1>1, <2>2 DEF MemWait, ctrlVars, reqVars
  <2>. QED  BY <1>2, <2>1, <2>2
<1>4. mem_addr < 240 /\ ~in_ram(mem_addr, flash_mode)
  <2>1. mem_addr \in 0 .. 255 /\ flash_mode \in BOOLEAN
    BY DEF TypeOK, BusAddr
  <2>. QED
    BY <2>1, MapFacts, MapAssumption
       DEF ext_req_valid, in_ext, in_ext_flash, in_load_range, in_ext_psram, in_ram,
           in_ram_range
<1>5. UNCHANGED memVars
  BY <1>4 DEF MemClock, memVars, LED_OUT, FLASH_MODE, FLASH_PAGE, TypeOK, BusAddr
<1>. QED  BY <1>3, <1>5

\* The access is withdrawn at the edge that sees its answer.
LEMMA CoreDrops ==
  ASSUME Waiting, CoreClock, ext_req_valid, ready
  PROVE  mem_valid' = FALSE
<1>1. mem_valid /\ state \in {"FETCH_WAIT", "MEM_WAIT"} /\ mem_ready
  BY DEF ext_req_valid, Waiting, mem_ready
<1>. QED
  BY <1>1 DEF CoreClock, Fetch, FetchWait, Decode, Exec, Mem, MemWait, Wb

LEMMA AccessNow == WireRegs => ext_acc \in AllAccess
BY WireType DEF AllAccess

LEMMA AccessNext == WireRegs' => ext_acc' \in AllAccess
<1>1. (WireRegs => ext_acc \in AllAccess)'
  BY AccessNow, PTL
<1>. QED  BY <1>1

\* So mem.v is a requester of the kind the bus relies on.
LEMMA ChipHolds ==
  ASSUME TypeOK, WritesAreStores, Waiting, CoreClock, MemClock
  PROVE  Wires!Holds
<1>1. ext_req_valid \in BOOLEAN /\ ext_req_valid' \in BOOLEAN
  BY DEF ext_req_valid
<1>2. ext_acc' \in AllAccess
  <2>1. CoreTyped' /\ flash_mode' \in BOOLEAN /\ flash_page' \in BusAddr
    BY CoreClockType, MemClockType
  <2>2. WireRegs'
    BY <2>1 DEF WireRegs, CoreTyped
  <2>. QED  BY <2>2, AccessNext
<1>3. CASE ~ext_req_valid
  BY <1>1, <1>2, <1>3 DEF Wires!Holds
<1>4. CASE ext_req_valid /\ ~ready
  <2>1. ext_req_valid' = ext_req_valid /\ ext_acc' = ext_acc
    BY <1>4, CoreWaits DEF ext_req_valid, ext_acc, reqVars, memVars
  <2>. QED  BY <1>1, <1>2, <1>4, <2>1 DEF Wires!Holds
<1>5. CASE ext_req_valid /\ ready
  <2>1. ext_req_valid' = FALSE
    BY <1>5, CoreDrops DEF ext_req_valid
  <2>. QED  BY <1>1, <1>2, <1>5, <2>1 DEF Wires!Holds
<1>. QED  BY <1>3, <1>4, <1>5

LEMMA ChipTickWired ==
  ASSUME ChipIInv, ChipTick
  PROVE  Wires!WireTick
<1>1. CoreClock /\ MemClock /\ EngineClock /\ Bus!DeviceReact
  BY ChipTickClocks DEF ChipClocked
<1>2. Wires!Holds /\ Wires!DeviceReact
  BY <1>1, ChipHolds, DevicesAre DEF ChipIInv
<1>. QED
  BY <1>1, <1>2, EngineIs
     DEF EngineClock, Wires!WireTick, Wires!WireIdle, Wires!WireAccept,
         Wires!WireShiftLo, Wires!WireShiftHi, Wires!WireDone, Wires!WirePost,
         Wires!WireClocked

LEMMA ChipResetWired ==
  ASSUME ChipIInv, ChipReset
  PROVE  Wires!WireReset
<1>1. Reset /\ Wires!EngineReset /\ Wires!DeviceReact
  BY EngineIs, DevicesAre DEF ChipReset
<1>2. WireRegs'
  <2>1. Zeros(32) \in Word
    BY ZerosType DEF Word
  <2>2. mem_we' \in BOOLEAN /\ flash_mode' \in BOOLEAN
    BY <1>1 DEF Reset
  <2>3. /\ mem_addr' \in BusAddr /\ mem_wdata' \in Word /\ mem_size' \in Size
        /\ flash_page' \in BusAddr
    BY <1>1, <2>1 DEF Reset, BusAddr, Size
  <2>. QED  BY <2>2, <2>3 DEF WireRegs
<1>3. ext_acc' \in AllAccess
  BY <1>2, AccessNext
<1>4. ext_req_valid' = FALSE
  BY <1>1 DEF Reset, ext_req_valid
<1>. QED  BY <1>1, <1>3, <1>4 DEF Wires!WireReset

\* A step of the chip is a step of the computer with the abstract port, or one
\* that this computer does not see.
LEMMA ChipStep ==
  ASSUME ChipIInv, [ChipNext]_chipVars
  PROVE  [Next]_vars
<1>1. CASE ChipTick
  <2>1. /\ CoreClock /\ MemClock /\ UNCHANGED <<rom, gpio_in, resets>>
        /\ moved' = Wires!BytesMoved'
    BY <1>1, ChipTickClocks, CountIs DEF ChipClocked
  <2>2. moved = Wires!BytesMoved /\ Wires!WireIInv
    BY DEF ChipIInv
  <2>3. PortClock => Next
    BY <2>1, TickClocks DEF Clocked, Next
  <2>4. \/ Wires!Still /\ ~ready
        \/ Wires!Moves \/ Wires!Answers \/ Wires!Ends
    BY <1>1, <2>2, ChipTickWired, Wires!TickEffect, WiresAssumptions
  <2> DEFINE a == ext_acc
             n == Bytes(mem_size)
  <2>5. a.size = mem_size
    BY DEF ext_acc
  <2>6. CASE Wires!Still /\ ~ready
    <3>1. UNCHANGED portVars
      BY <2>1, <2>2, <2>6 DEF Wires!Still, portVars
    <3>2. CASE ext_req_valid
      <4>1. UNCHANGED <<ctrlVars, reqVars, memVars, settled>>
        BY <2>1, <2>6, <3>2, CoreWaits DEF ChipIInv
      <4>. QED  BY <2>1, <3>1, <4>1 DEF vars
    <3>3. CASE ~ext_req_valid
      BY <2>3, <3>1, <3>3 DEF PortClock
    <3>. QED  BY <3>2, <3>3
  <2> HIDE DEF a, n
  <2>7. CASE Wires!Moves
    <3>1. /\ ext_req_valid /\ ~ready /\ moved < n /\ moved' = moved + 1
          /\ store' = IF a.we
                        THEN [store EXCEPT ![a.dev] =
                                Wires!Port!WriteByte(@, a.addr, moved, a.wdata)]
                        ELSE store
          /\ UNCHANGED <<ready, rdata>>
      BY <2>1, <2>2, <2>5, <2>7, WirePortIs DEF Wires!Moves, a, n
    <3>2. store' = IF a.we
                     THEN [store EXCEPT ![a.dev][Idx(Plus(a.addr, 24, moved))] =
                             Lane(a.wdata, moved)]
                     ELSE store
      BY <3>1, WirePortIs
    <3>. QED  BY <2>3, <3>1, <3>2 DEF PortClock, a, n
  <2>8. CASE Wires!Answers
    <3>1. /\ ext_req_valid /\ ~ready /\ moved = n /\ moved' = 0 /\ ready' = TRUE
          /\ rdata' = IF a.we THEN Zeros(32)
                      ELSE Wires!Port!ReadWord(store[a.dev], a.addr, n)
          /\ UNCHANGED store
      BY <2>1, <2>2, <2>5, <2>8, WirePortIs DEF Wires!Answers, a, n
    <3>2. rdata' = IF a.we THEN Zeros(32)
                   ELSE [i \in 0 .. 31 |->
                           IF i < 8 * n
                             THEN store[a.dev][Idx(Plus(a.addr, 24, i \div 8))][i % 8]
                             ELSE 0]
      BY <3>1, WirePortIs
    <3>. QED  BY <2>3, <3>1, <3>2 DEF PortClock, a, n
  <2>9. CASE Wires!Ends
    <3>1. ext_req_valid /\ ready /\ ready' = FALSE /\ UNCHANGED <<rdata, moved, store>>
      BY <2>1, <2>2, <2>9 DEF Wires!Ends
    <3>. QED  BY <2>3, <3>1 DEF PortClock
  <2>. QED  BY <2>4, <2>6, <2>7, <2>8, <2>9
<1>2. CASE ChipPins
  BY <1>2 DEF ChipPins, Next
<1>3. CASE ChipReset
  BY <1>3 DEF ChipReset, Next
<1>4. CASE UNCHANGED chipVars
  BY <1>4 DEF chipVars
<1>. QED  BY <1>1, <1>2, <1>3, <1>4 DEF ChipNext

LEMMA ChipIInvStep == ChipIInv /\ [ChipNext]_chipVars => ChipIInv'
<1> SUFFICES ASSUME ChipIInv, [ChipNext]_chipVars
             PROVE  ChipIInv'
  OBVIOUS
<1>1. TypeOK' /\ WritesAreStores' /\ Waiting'
  BY ChipStep, TypesStep, WritesStep, WaitingStep DEF ChipIInv
<1>2. CASE ChipTick
  <2>1. Wires!WireNext
    BY <1>2, ChipTickWired DEF Wires!WireNext
  <2>2. moved' = Wires!BytesMoved'
    BY <1>2, ChipTickClocks, CountIs DEF ChipClocked
  <2>3. Wires!WireIInv'
    BY <2>1, Wires!WireStep, WiresAssumptions DEF ChipIInv
  <2>. QED  BY <1>1, <2>2, <2>3 DEF ChipIInv
<1>3. CASE ChipReset
  <2>1. Wires!WireReset
    BY <1>3, ChipResetWired
  <2>2. Wires!BytesMoved' = 0
    BY <2>1, Wires!ResetEffect, WiresAssumptions DEF ChipIInv, Wires!Abandons
  <2>3. Wires!WireIInv'
    BY <2>1, Wires!WireStep, WiresAssumptions DEF ChipIInv, Wires!WireNext
  <2>4. moved' = 0
    BY <1>3 DEF ChipReset, Reset
  <2>. QED  BY <1>1, <2>2, <2>3, <2>4 DEF ChipIInv
<1>4. CASE ChipPins \/ UNCHANGED chipVars
  <2>1. UNCHANGED <<reqVars, memVars, portVars, busVars>>
    BY <1>4 DEF ChipPins, Pins, chipVars, vars
  <2>2. UNCHANGED Wires!wireVars
    BY <2>1 DEF Wires!wireVars, Wires!engineVars, Wires!deviceVars, ext_req_valid, ext_acc,
         reqVars, memVars, portVars, busVars
  <2>3. Wires!WireIInv'
    BY <2>2, Wires!WireStep, WiresAssumptions DEF ChipIInv
  <2>4. moved' = moved /\ Wires!BytesMoved' = Wires!BytesMoved
    BY <2>1 DEF portVars, busVars, Wires!BytesMoved, Wires!Busy, Wires!RisesSoFar
  <2>. QED  BY <1>1, <2>3, <2>4 DEF ChipIInv
<1>. QED  BY <1>2, <1>3, <1>4 DEF ChipNext

LEMMA ChipIInvInit == ChipInit => ChipIInv
<1> SUFFICES ASSUME ChipInit
             PROVE  ChipIInv
  OBVIOUS
<1>1. Init /\ Wires!EngineInit /\ Wires!DeviceInit
  BY EngineIs, DevicesAre DEF ChipInit
<1>2. TypeOK /\ WritesAreStores /\ Waiting
  BY <1>1, InitTypes DEF Init, WritesAreStores, Waiting
<1>3. ext_req_valid = FALSE
  BY <1>1 DEF Init, ext_req_valid
<1>4. ext_acc \in AllAccess
  BY <1>2, WireType DEF AllAccess, TypeOK, WireRegs
<1>5. Wires!WireIInv
  <2>1. Wires!Init
    BY <1>1, <1>3, <1>4 DEF Wires!Init, Init
  <2>. QED  BY <2>1, Wires!WireInit, WiresAssumptions
<1>6. moved = Wires!BytesMoved
  BY <1>1 DEF Init, Wires!EngineInit, Wires!BytesMoved, Wires!Busy
<1>. QED  BY <1>2, <1>5, <1>6 DEF ChipIInv

LEMMA ChipIInvAlways == ChipSpec => []ChipIInv
BY ChipIInvInit, ChipIInvStep, PTL DEF ChipSpec

\* The chip with its serial bus, bit by bit, is the computer with the abstract
\* port: what Soc is proved to do the chip does, whatever is on the devices.
THEOREM ChipImplementsSoc == ChipSpec => ImplementsSoc
<1>1. ChipInit => Init
  BY DEF ChipInit
<1>2. ChipIInv /\ [ChipNext]_chipVars => [Next]_vars
  BY ChipStep
<1>. QED  BY <1>1, <1>2, ChipIInvAlways, PTL DEF ChipSpec, ImplementsSoc, Spec

\* So the pins, the bits and the clocks of the chip amount to its instruction set.
THEOREM ChipImplementsIsa == ChipSpec => ImplementsIsa
BY ChipImplementsSoc, SocImplementsIsa, PTL DEF ImplementsSoc

\* The registers of the engine and of the devices keep their widths too.
THEOREM ChipTypes == ChipSpec => []ChipTypeOK
<1>1. ChipIInv => ChipTypeOK
  <2> SUFFICES ASSUME ChipIInv
               PROVE  ChipTypeOK
    OBVIOUS
  <2>1. /\ Wires!EngineState = Bus!EngineState /\ Wires!Dev = Dev /\ Wires!BIT = BIT
        /\ Wires!Bits(64) = Bits(64) /\ Wires!DeviceState = Bus!DeviceState
    BY DEF Wires!EngineState, Bus!EngineState, Wires!Dev, Dev, Wires!BIT, BIT,
       Wires!Bits, Bits, Wires!DeviceState, Bus!DeviceState, Wires!Phase, Bus!Phase,
       Wires!Addr24, Bus!Addr24, Wires!Byte, Bus!Byte, Bus!Bits, Bus!BIT
  <2>2. Wires!WireTypes /\ TypeOK
    BY DEF ChipIInv, Wires!WireIInv, Wires!BusIInv
  <2>. QED  BY <2>1, <2>2 DEF ChipTypeOK, Wires!WireTypes
<1>. QED  BY <1>1, ChipIInvAlways, PTL

\* uio[0] selects the flash only for an access to the window, after the window
\* was handed over, and the flash is never written.
THEOREM FlashSafety == ChipSpec => []FlashOnlyWhenHandedOver
<1>1. ChipIInv => FlashOnlyWhenHandedOver
  <2> SUFFICES ASSUME ChipIInv, cs["flash"] = 0
               PROVE  /\ flash_mode
                      /\ in_load_range(mem_addr)
                      /\ cs["psram"] = 1
                      /\ spi["flash"].phase = "DATA" => ~spi["flash"].we
    BY DEF FlashOnlyWhenHandedOver
  <2>1. "flash" \in Wires!Dev /\ "psram" \in Wires!Dev
    BY DEF Wires!Dev
  <2>2. Wires!HandshakeIInv /\ Wires!WireIInv
    BY DEF ChipIInv, Wires!WireIInv, Wires!BusIInv
  <2>3. Wires!Busy /\ ext_acc.dev = "flash"
    BY <2>1, <2>2, Wires!SelectsFollow, WiresAssumptions DEF Wires!SelectFollowsAccess
  <2>4. flash_mode /\ in_load_range(mem_addr) /\ ~ext_acc.we
    BY <2>3 DEF ext_acc, req_dev, in_ext_flash
  <2>5. cs["psram"] = 1
    BY <2>1, <2>2, <2>3 DEF Wires!HandshakeIInv, Wires!HandshakeInv, Wires!Select
  <2>6. spi["flash"].phase = "DATA" => ~spi["flash"].we
    BY <2>1, <2>2, <2>4, Wires!DevicesHave, WiresAssumptions DEF Wires!DeviceHasAccess
  <2>. QED  BY <2>4, <2>5, <2>6
<1>. QED  BY <1>1, ChipIInvAlways, PTL

=============================================================================
