--------------------------- MODULE QspiBus_proofs ---------------------------
(***************************************************************************)
(* What is proved of the serial bus for every set of accesses, every       *)
(* initial content of the devices and every number of accesses and resets. *)
(***************************************************************************)
EXTENDS QspiBus, TLAPS

-----------------------------------------------------------------------------
\* Bit vectors.

LEMMA ZerosType == \A n \in Nat : Zeros(n) \in Bits(n)
BY DEF Zeros, Bits, BIT

LEMMA ToBitsType == \A x, n \in Nat : ToBits(x, n) \in Bits(n)
BY DEF ToBits, Bits, BIT

LEMMA ShiftInType ==
  ASSUME NEW n \in Nat, NEW v \in Bits(n), NEW b \in BIT
  PROVE  ShiftIn(v, b, n) \in Bits(n)
BY DEF ShiftIn, Bits

LEMMA IncrementType ==
  ASSUME NEW n \in Nat, NEW v \in Bits(n)
  PROVE  Increment(v, n) \in Bits(n)
BY DEF Increment, Bits, BIT

LEMMA IdxType == \A a \in Addr24 : Idx(a) \in Index
BY IdxBitsAssumption DEF Idx, Low, Index, Addr24, Bits

-----------------------------------------------------------------------------
\* The handshake.

LEMMA AccessFields ==
  ASSUME acc \in Access
  PROVE  /\ acc.we \in BOOLEAN
         /\ acc.dev \in Dev
         /\ acc.addr \in Addr24
         /\ acc.wdata \in Word
         /\ acc.size \in Size
BY AccessAssumption DEF AccessType

LEMMA DataBitsRange ==
  \A s \in Size : DataBits(s) \in {8, 16, 32}
BY DEF DataBits, Size

\* The handshake between the requester and the engine, with the types it needs.
HandshakeIInv ==
  /\ valid \in BOOLEAN
  /\ acc \in Access
  /\ state \in EngineState
  /\ ready \in BOOLEAN
  /\ bits_done \in Nat
  /\ data_bits \in Nat
  /\ nbits_total \in Nat
  /\ HandshakeInv

LEMMA HandshakeInit == Init => HandshakeIInv
<1> SUFFICES ASSUME Init PROVE HandshakeIInv
  OBVIOUS
<1>1. /\ valid = FALSE /\ acc \in Access
      /\ state = "IDLE" /\ ready = FALSE /\ sck = 0 /\ cs = AllHigh
      /\ bits_done = 0 /\ data_bits = 0 /\ nbits_total = 0
  BY DEF Init, EngineInit
<1> QED
  BY <1>1 DEF HandshakeIInv, HandshakeInv, EngineState, Busy

\* All that the bus relies on of who drives its request wires: an access is
\* kept until the edge that sees its answer, and dropped there.
Holds ==
  /\ valid' \in BOOLEAN
  /\ acc' \in Access
  /\ valid => valid' = ~ready /\ (valid' => acc' = acc)

wireVars == <<valid, acc, engineVars, deviceVars>>

WireClocked(engineStep) == engineStep /\ DeviceReact /\ Holds

WireIdle    == WireClocked(Idle)
WireAccept  == WireClocked(Accept)
WireShiftLo == WireClocked(ShiftLo)
WireShiftHi == WireClocked(ShiftHi(Miso))
WireDone    == WireClocked(Done)
WirePost    == WireClocked(Post)

\* A reset may leave any access on the idle wires.
WireReset == EngineReset /\ DeviceReact /\ valid' = FALSE /\ acc' \in Access

WireTick == \/ WireIdle \/ WireAccept \/ WireShiftLo \/ WireShiftHi
            \/ WireDone \/ WirePost

WireNext == WireTick \/ WireReset

\* The requester of QspiBus is such a one.
LEMMA TickIsWired ==
  ASSUME valid \in BOOLEAN, acc \in Access, Tick
  PROVE  WireTick
<1>1. Requester => Holds
  BY DEF Requester, Holds
<1> QED
  BY <1>1 DEF Tick, WireTick, Clocked, WireClocked, TickIdle, TickAccept, TickShiftLo,
       TickShiftHi, TickDone, TickPost, WireIdle, WireAccept, WireShiftLo,
       WireShiftHi, WireDone, WirePost

LEMMA BusIsWired ==
  ASSUME valid \in BOOLEAN, acc \in Access, [Next]_busVars
  PROVE  [WireNext]_wireVars
<1>1. Reset => WireReset
  BY DEF Reset, WireReset
<1>2. UNCHANGED busVars => UNCHANGED wireVars
  BY DEF busVars, wireVars
<1> QED
  BY <1>1, <1>2, TickIsWired DEF Next, WireNext

\* An access not yet answered stays on the wires.
LEMMA HoldsStep ==
  ASSUME ready \in BOOLEAN, Holds
  PROVE  /\ valid' \in BOOLEAN
         /\ acc' \in Access
         /\ valid => valid' = ~ready /\ (~ready => acc' = acc)
BY DEF Holds

LEMMA HandshakeStep == HandshakeIInv /\ [WireNext]_wireVars => HandshakeIInv'
<1> SUFFICES ASSUME HandshakeIInv, [WireNext]_wireVars
             PROVE  HandshakeIInv'
  OBVIOUS
<1> USE DEF HandshakeIInv, HandshakeInv, Busy, EngineState
<1>1. CASE WireIdle
  BY <1>1, HoldsStep DEF WireIdle, WireClocked, Idle
<1>2. CASE WireAccept
  <2>1. Accept /\ Holds
    BY <1>2 DEF WireAccept, WireClocked
  <2>2. valid /\ ~ready
    BY <2>1 DEF Accept
  <2>3. valid' = TRUE /\ acc' = acc
    BY <2>1, <2>2, HoldsStep
  <2>4. DataBits(acc.size) \in {8, 16, 32}
    BY AccessFields, DataBitsRange
  <2>5. /\ state' = "SHIFT_LO" /\ ready' = FALSE /\ sck' = 0
        /\ cs' = Select(acc.dev) /\ bits_done' = 0
        /\ data_bits' = DataBits(acc.size)
        /\ nbits_total' = 32 + DataBits(acc.size)
    BY <2>1 DEF Accept
  <2>6. /\ valid' \in BOOLEAN /\ acc' \in Access
        /\ state' \in EngineState /\ ready' \in BOOLEAN
        /\ bits_done' \in Nat
    BY <2>3, <2>5
  <2>7. data_bits' \in Nat
    BY <2>4, <2>5
  <2>8. nbits_total' \in Nat /\ bits_done' < nbits_total'
    BY <2>4, <2>5
  <2>9. cs' = Select(acc'.dev)
    BY <2>3, <2>5
  <2>10. data_bits' = DataBits(acc'.size) /\ nbits_total' = 32 + data_bits'
    BY <2>3, <2>5
  <2> QED
    BY <2>3, <2>5, <2>6, <2>7, <2>8, <2>9, <2>10
<1>3. CASE WireShiftLo
  BY <1>3, HoldsStep DEF WireShiftLo, WireClocked, ShiftLo
<1>4. CASE WireShiftHi
  <2>1. ShiftHi(Miso) /\ Holds
    BY <1>4 DEF WireShiftHi, WireClocked
  <2>2. state = "SHIFT_HI" /\ valid /\ ~ready
    BY <2>1 DEF ShiftHi
  <2>3. valid' = TRUE /\ acc' = acc
    BY <2>1, <2>2, HoldsStep
  <2>4. /\ sck' = 1 /\ ready' = FALSE /\ cs' = cs
        /\ data_bits' = data_bits /\ nbits_total' = nbits_total
    BY <2>1 DEF ShiftHi
  <2>5. /\ cs' = Select(acc'.dev)
        /\ data_bits' = DataBits(acc'.size)
        /\ nbits_total' = 32 + data_bits'
    BY <2>2, <2>3, <2>4
  <2>6. CASE LastBit
    <3>1. state' = "DONE" /\ bits_done' = bits_done
      BY <2>1, <2>6 DEF ShiftHi
    <3>2. bits_done' < nbits_total' /\ bits_done' = nbits_total' - 1
      BY <2>2, <2>4, <2>6, <3>1 DEF LastBit
    <3> QED
      BY <2>2, <2>3, <2>4, <2>5, <3>1, <3>2
  <2>7. CASE ~LastBit
    <3>1. state' = "SHIFT_LO" /\ bits_done' = bits_done + 1
      BY <2>1, <2>7 DEF ShiftHi
    <3>2. bits_done' < nbits_total' /\ bits_done' > 0 /\ bits_done' \in Nat
      BY <2>2, <2>4, <2>7, <3>1 DEF LastBit
    <3> QED
      BY <2>2, <2>3, <2>4, <2>5, <3>1, <3>2
  <2> QED
    BY <2>6, <2>7
<1>5. CASE WireDone
  BY <1>5, HoldsStep DEF WireDone, WireClocked, Done
<1>6. CASE WirePost
  BY <1>6, HoldsStep DEF WirePost, WireClocked, Post
<1>7. CASE WireReset
  BY <1>7 DEF WireReset, EngineReset
<1>8. CASE UNCHANGED wireVars
  BY <1>8 DEF wireVars, engineVars
<1> QED
  BY <1>1, <1>2, <1>3, <1>4, <1>5, <1>6, <1>7, <1>8 DEF WireNext, WireTick

LEMMA HandshakeAlways == Spec => []HandshakeIInv
<1>1. HandshakeIInv /\ [Next]_busVars => HandshakeIInv'
  BY HandshakeStep, BusIsWired DEF HandshakeIInv
<1> QED
  BY <1>1, HandshakeInit, PTL DEF Spec

\* HandshakeInv: while the engine is busy the access it works for is still
\* asked for, unanswered and selected; `ready` is up in ST_POST only; SCK and
\* the bit counters have the values each state of the engine relies on.
THEOREM Handshake == Spec => []HandshakeInv
<1>1. HandshakeIInv => HandshakeInv
  BY DEF HandshakeIInv
<1> QED
  BY <1>1, HandshakeAlways, PTL

LEMMA SelectsFollow == HandshakeIInv => SelectFollowsAccess
<1> SUFFICES ASSUME HandshakeIInv, NEW d \in Dev
             PROVE  (cs[d] = 0) <=> (Busy /\ valid /\ acc.dev = d)
  BY DEF SelectFollowsAccess
<1> USE DEF HandshakeIInv, HandshakeInv, EngineState
<1>1. CASE Busy
  BY <1>1 DEF Select
<1>2. CASE ~Busy
  BY <1>2 DEF AllHigh, Busy
<1> QED
  BY <1>1, <1>2

\* The chip selects follow the access: never two devices at once, never a
\* transaction without a pending access for the device it selects.
THEOREM SelectSafety == Spec => []SelectFollowsAccess
BY SelectsFollow, HandshakeAlways, PTL

\* SPI mode 0: MOSI and the selects are still on the edge SCK rises.
THEOREM MosiSafety == Spec => MosiSetUp
<1>1. HandshakeIInv /\ [Next]_busVars =>
        [ /\ (sck' = 1 => mosi' = mosi /\ cs' = cs)
          /\ (cs' # cs => sck' = 0) ]_busVars
  <2> SUFFICES ASSUME HandshakeIInv, Next
               PROVE  /\ (sck' = 1 => mosi' = mosi /\ cs' = cs)
                      /\ (cs' # cs => sck' = 0)
    OBVIOUS
  <2> USE DEF HandshakeIInv, HandshakeInv, Clocked
  <2>1. CASE TickIdle    BY <2>1 DEF TickIdle, Idle
  <2>2. CASE TickAccept  BY <2>2 DEF TickAccept, Accept
  <2>3. CASE TickShiftLo BY <2>3 DEF TickShiftLo, ShiftLo
  <2>4. CASE TickShiftHi BY <2>4 DEF TickShiftHi, ShiftHi
  <2>5. CASE TickDone    BY <2>5 DEF TickDone, Done
  <2>6. CASE TickPost    BY <2>6 DEF TickPost, Post
  <2>7. CASE Reset       BY <2>7 DEF Reset, EngineReset
  <2> QED
    BY <2>1, <2>2, <2>3, <2>4, <2>5, <2>6, <2>7 DEF Next, Tick
<1> QED
  BY <1>1, HandshakeAlways, PTL DEF Spec, MosiSetUp

\* rdata changes only when an answer is given, or by a reset.
THEOREM RdataSafety == Spec => RdataHeld
<1>1. [Next]_busVars => [ rdata' # rdata => ready' \/ resets' # resets ]_busVars
  <2> SUFFICES ASSUME Next, rdata' # rdata
               PROVE  ready' \/ resets' # resets
    OBVIOUS
  <2> USE DEF Clocked
  <2>1. CASE TickIdle    BY <2>1 DEF TickIdle, Idle
  <2>2. CASE TickAccept  BY <2>2 DEF TickAccept, Accept
  <2>3. CASE TickShiftLo BY <2>3 DEF TickShiftLo, ShiftLo
  <2>4. CASE TickShiftHi BY <2>4 DEF TickShiftHi, ShiftHi
  <2>5. CASE TickDone    BY <2>5 DEF TickDone, Done
  <2>6. CASE TickPost    BY <2>6 DEF TickPost, Post
  <2>7. CASE Reset       BY <2>7 DEF Reset
  <2> QED
    BY <2>1, <2>2, <2>3, <2>4, <2>5, <2>6, <2>7 DEF Next, Tick
<1> QED
  BY <1>1, PTL DEF Spec, RdataHeld

-----------------------------------------------------------------------------
\* Type correctness: what each operator on bit vectors returns.

LEMMA CommandTypes == CMD_READ \in Byte /\ CMD_WRITE \in Byte
BY ToBitsType DEF CMD_READ, CMD_WRITE, Byte

LEMMA UnpackType ==
  ASSUME NEW s \in Bits(64), NEW n \in {8, 16, 32}
  PROVE  Unpack(s, n) \in Word
<1> SUFFICES ASSUME NEW i \in 0 .. 31, i < n
             PROVE  s[(n - 8 - 8 * (i \div 8)) + (i % 8)] \in BIT
  BY DEF Unpack, Word, Bits, BIT
<1>1. (n - 8 - 8 * (i \div 8)) + (i % 8) \in 0 .. 63
  OBVIOUS
<1> QED
  BY <1>1 DEF Bits

LEMMA PreloadType ==
  ASSUME NEW we \in BOOLEAN, NEW size \in Size, NEW a \in Addr24, NEW wd \in Word
  PROVE  Preload(we, size, a, wd) \in Bits(64)
<1> SUFFICES ASSUME NEW i \in 0 .. 63
             PROVE  Preload(we, size, a, wd)[i] \in BIT
  BY DEF Preload, Bits
<1>1. CASE i >= 56
  <2>1. i - 56 \in 0 .. 7
    BY <1>1
  <2> QED
    BY <1>1, <2>1, CommandTypes DEF Preload, Byte, Bits
<1>2. CASE i >= 32 /\ i < 56
  <2>1. i - 32 \in 0 .. 23
    BY <1>2
  <2> QED
    BY <1>2, <2>1 DEF Preload, Addr24, Bits
<1>3. CASE i < 32
  <2>1. 8 * (3 - (i \div 8)) + (i % 8) \in 0 .. 31
    BY <1>3
  <2> QED
    BY <1>3, <2>1 DEF Preload, Word, Bits, BIT
<1> QED
  BY <1>1, <1>2, <1>3

LEMMA NextAddrType ==
  ASSUME NEW a \in Addr24, NEW b \in Byte
  PROVE  NextAddr(a, b) \in Addr24
BY DEF NextAddr, Addr24, Byte, Bits

\* A rising SCK moves the device's position by one bit, whatever it carries.
LEMMA SampleStep ==
  ASSUME NEW s \in DeviceState, NEW bit \in BIT, NEW m \in [Index -> Byte]
  PROVE  /\ Sample(s, bit, m) \in DeviceState
         /\ Sample(s, bit, m).bitcnt = (s.bitcnt + 1) % 8
         /\ Sample(s, bit, m).phase =
              IF s.bitcnt = 7 /\ s.phase = "CMD" THEN "ADDR"
              ELSE IF s.bitcnt = 7 /\ s.phase = "ADDR" /\ s.addr_byte = 2 THEN "DATA"
              ELSE s.phase
         /\ Sample(s, bit, m).addr_byte =
              IF s.bitcnt = 7 /\ s.phase = "ADDR" THEN (s.addr_byte + 1) % 4
              ELSE s.addr_byte
<1> DEFINE byte == ShiftIn(s.shift_in, bit, 8)
           next == NextAddr(s.addr, byte)
           succ == Increment(s.addr, 24)
           got  == [s EXCEPT !.shift_in = byte, !.bitcnt = (s.bitcnt + 1) % 8]
<1>1. /\ s.phase \in Phase /\ s.bitcnt \in 0 .. 7 /\ s.addr_byte \in 0 .. 3
      /\ s.addr \in Addr24 /\ s.we \in BOOLEAN /\ s.shift_in \in Byte
      /\ s.cur_out \in Byte /\ s.miso \in BIT
  BY DEF DeviceState
<1>2. byte \in Byte
  BY <1>1, ShiftInType DEF Byte
<1>3. next \in Addr24 /\ succ \in Addr24
  BY <1>1, <1>2, NextAddrType, IncrementType DEF Addr24
<1>4. m[Idx(next)] \in Byte /\ m[Idx(succ)] \in Byte
  BY <1>3, IdxType
<1>5. (s.bitcnt + 1) % 8 \in 0 .. 7 /\ (s.addr_byte + 1) % 4 \in 0 .. 3
  BY <1>1
<1> HIDE DEF byte, next, succ
<1>6. got \in DeviceState
  BY <1>2, <1>5 DEF DeviceState
<1>7. CASE s.bitcnt < 7
  <2>1. Sample(s, bit, m) = got
    BY <1>7 DEF Sample, byte
  <2> QED
    BY <2>1, <1>1, <1>6, <1>7 DEF DeviceState
<1>8. CASE s.bitcnt = 7 /\ s.phase = "CMD"
  <2>1. Sample(s, bit, m) = [got EXCEPT !.we = (byte = CMD_WRITE), !.phase = "ADDR"]
    BY <1>8 DEF Sample, byte
  <2> QED
    BY <2>1, <1>1, <1>6, <1>8 DEF DeviceState, Phase
<1>9. CASE s.bitcnt = 7 /\ s.phase = "ADDR"
  <2>1. Sample(s, bit, m) =
          [got EXCEPT !.addr = next,
                      !.phase = IF s.addr_byte = 2 THEN "DATA" ELSE "ADDR",
                      !.cur_out = IF s.addr_byte = 2 THEN m[Idx(next)] ELSE @,
                      !.addr_byte = (s.addr_byte + 1) % 4]
    BY <1>9 DEF Sample, byte, next
  <2> QED
    BY <2>1, <1>1, <1>3, <1>4, <1>5, <1>6, <1>9 DEF DeviceState, Phase
<1>10. CASE s.bitcnt = 7 /\ s.phase = "DATA"
  <2>1. Sample(s, bit, m) = [got EXCEPT !.addr = succ, !.cur_out = m[Idx(succ)]]
    BY <1>10 DEF Sample, byte, succ
  <2> QED
    BY <2>1, <1>1, <1>3, <1>4, <1>6, <1>10 DEF DeviceState
<1> QED
  BY <1>1, <1>7, <1>8, <1>9, <1>10 DEF Phase

LEMMA CommitType ==
  ASSUME NEW s \in DeviceState, NEW bit \in BIT, NEW m \in [Index -> Byte]
  PROVE  Commit(s, bit, m) \in [Index -> Byte]
<1>1. s.shift_in \in Byte
  BY DEF DeviceState
<1>2. ShiftIn(s.shift_in, bit, 8) \in Byte
  BY <1>1, ShiftInType DEF Byte
<1> QED
  BY <1>2 DEF Commit

\* A falling SCK and the release of the select leave the memory's position
\* alone and clear it, respectively.
LEMMA DriveStep ==
  ASSUME NEW s \in DeviceState
  PROVE  /\ Drive(s) \in DeviceState
         /\ Drive(s).bitcnt = s.bitcnt
         /\ Drive(s).phase = s.phase
         /\ Drive(s).addr_byte = s.addr_byte
<1> DEFINE out == IF s.phase = "DATA" /\ ~s.we THEN s.cur_out[7 - s.bitcnt] ELSE 0
<1>1. s.cur_out \in Byte /\ 7 - s.bitcnt \in 0 .. 7
  BY DEF DeviceState
<1>2. out \in BIT
  BY <1>1 DEF Byte, Bits, BIT
<1>3. Drive(s) = [s EXCEPT !.miso = out]
  BY DEF Drive
<1> HIDE DEF out
<1> QED
  BY <1>2, <1>3 DEF DeviceState

LEMMA ReleaseStep ==
  ASSUME NEW s \in DeviceState
  PROVE  /\ Release(s) \in DeviceState
         /\ Release(s).bitcnt = 0
         /\ Release(s).phase = "CMD"
         /\ Release(s).addr_byte = 0
<1>1. "CMD" \in Phase /\ 0 \in 0 .. 7 /\ 0 \in 0 .. 3 /\ 0 \in BIT
  BY DEF Phase, BIT
<1>2. Release(s) =
        [s EXCEPT !.phase = "CMD", !.bitcnt = 0, !.addr_byte = 0, !.miso = 0]
  BY DEF Release
<1>3. /\ s.addr \in Addr24 /\ s.we \in BOOLEAN /\ s.shift_in \in Byte
      /\ s.cur_out \in Byte
  BY DEF DeviceState
<1> QED
  BY <1>1, <1>2, <1>3 DEF DeviceState

-----------------------------------------------------------------------------
\* TypeOK less the counters of the bounds.
WireTypes ==
  /\ valid \in BOOLEAN
  /\ acc \in Access
  /\ state \in EngineState
  /\ cs \in [Dev -> BIT]
  /\ sck \in BIT /\ mosi \in BIT
  /\ ready \in BOOLEAN
  /\ rdata \in Word
  /\ sreg \in Bits(64)
  /\ nbits_total \in {0, 40, 48, 64}
  /\ data_bits \in {0, 8, 16, 32}
  /\ bits_done \in 0 .. 63
  /\ spi \in [Dev -> DeviceState]
  /\ store \in Store

\* The inductive invariant of types and positions.
BusIInv == HandshakeIInv /\ WireTypes /\ DevicesInStep

\* Whatever the pins do, the devices keep their types.
LEMMA DevicesStep ==
  ASSUME WireTypes, DeviceReact, mosi' \in BIT
  PROVE  spi' \in [Dev -> DeviceState] /\ store' \in Store
<1>1. ASSUME NEW d \in Dev
      PROVE  /\ spi[d] \in DeviceState
             /\ store[d] \in [Index -> Byte]
             /\ Sample(spi[d], mosi', store[d]) \in DeviceState
             /\ Commit(spi[d], mosi', store[d]) \in [Index -> Byte]
             /\ Drive(spi[d]) \in DeviceState
             /\ Release(spi[d]) \in DeviceState
  <2>1. spi[d] \in DeviceState /\ store[d] \in [Index -> Byte]
    BY DEF WireTypes, Store
  <2> QED
    BY <2>1, SampleStep, CommitType, DriveStep, ReleaseStep
<1> QED
  BY <1>1 DEF DeviceReact, Store

LEMMA BusInit == Init => BusIInv
<1> SUFFICES ASSUME Init PROVE BusIInv
  OBVIOUS
<1>1. HandshakeIInv
  BY HandshakeInit
<1>2. store \in Store
  BY StoreAssumption DEF Init, DeviceInit
<1>3. ASSUME NEW d \in Dev
      PROVE  /\ spi[d] \in DeviceState
             /\ spi[d].phase = "CMD" /\ spi[d].bitcnt = 0 /\ spi[d].addr_byte = 0
  <2>1. PICK w \in BOOLEAN :
          spi[d] = [phase |-> "CMD", bitcnt |-> 0, addr_byte |-> 0,
                    addr |-> Zeros(24), we |-> w, shift_in |-> Zeros(8),
                    cur_out |-> Zeros(8), miso |-> 0]
    BY DEF Init, DeviceInit
  <2>2. Zeros(24) \in Addr24 /\ Zeros(8) \in Byte
    BY ZerosType DEF Addr24, Byte
  <2> QED
    BY <2>1, <2>2 DEF DeviceState, Phase, BIT
<1>4. spi \in [Dev -> DeviceState]
  BY <1>3 DEF Init, DeviceInit
<1>5. /\ state = "IDLE" /\ cs = AllHigh /\ sck = 0 /\ mosi = 1 /\ ready = FALSE
      /\ rdata = Zeros(32) /\ sreg = Zeros(64)
      /\ nbits_total = 0 /\ bits_done = 0 /\ data_bits = 0
      /\ valid = FALSE /\ acc \in Access
  BY DEF Init, EngineInit
<1>6. rdata \in Word /\ sreg \in Bits(64)
  BY <1>5, ZerosType DEF Word
<1>7. WireTypes
  <2>2. cs \in [Dev -> BIT]
    BY <1>5 DEF AllHigh, BIT
  <2>3. sck \in BIT /\ mosi \in BIT /\ ready \in BOOLEAN /\ state \in EngineState
    BY <1>5 DEF BIT, EngineState
  <2>4. nbits_total \in {0, 40, 48, 64} /\ data_bits \in {0, 8, 16, 32}
    BY <1>5
  <2>5. bits_done \in 0 .. 63
    BY <1>5
  <2>6. valid \in BOOLEAN /\ acc \in Access
    BY <1>5
  <2> QED
    BY <1>2, <1>4, <1>6, <2>2, <2>3, <2>4, <2>5, <2>6 DEF WireTypes
<1>8. DevicesInStep
  BY <1>3, <1>5 DEF DevicesInStep, AtBit, AllHigh
<1> QED
  BY <1>1, <1>7, <1>8 DEF BusIInv

\* Types of the registers of the engine and of the requester after a clock edge.
LEMMA TypesStep == BusIInv /\ [WireNext]_wireVars => WireTypes'
<1> SUFFICES ASSUME BusIInv, [WireNext]_wireVars
             PROVE  WireTypes'
  OBVIOUS
<1>1. /\ WireTypes /\ HandshakeIInv /\ HandshakeIInv'
  BY HandshakeStep DEF BusIInv
<1>2. ASSUME Holds
      PROVE  valid' \in BOOLEAN /\ acc' \in Access
  BY <1>2 DEF Holds
<1>3. Zeros(32) \in Word /\ Zeros(64) \in Bits(64)
  BY ZerosType DEF Word
<1>4. CASE WireIdle
  BY <1>1, <1>2, <1>4, DevicesStep DEF WireIdle, WireClocked, Idle, WireTypes, BIT
<1>5. CASE WireAccept
  <2>1. Accept /\ Holds /\ DeviceReact
    BY <1>5 DEF WireAccept, WireClocked
  <2>2. sreg' \in Bits(64)
    BY <1>1, <2>1, AccessFields, PreloadType DEF Accept, WireTypes
  <2>3. data_bits' \in {0, 8, 16, 32} /\ nbits_total' \in {0, 40, 48, 64}
    BY <1>1, <2>1, AccessFields, DataBitsRange DEF Accept, WireTypes
  <2>4. cs' \in [Dev -> BIT]
    BY <2>1 DEF Accept, Select, BIT
  <2>5. /\ mosi' \in BIT /\ sck' \in BIT /\ ready' \in BOOLEAN /\ rdata' \in Word
        /\ bits_done' \in 0 .. 63 /\ state' \in EngineState
    <3>1. /\ mosi' = mosi /\ sck' = 0 /\ ready' = FALSE /\ rdata' = rdata
          /\ bits_done' = 0 /\ state' = "SHIFT_LO"
      BY <2>1 DEF Accept
    <3>2. mosi \in BIT /\ rdata \in Word
      BY <1>1 DEF WireTypes
    <3>3. mosi' \in BIT /\ sck' \in BIT /\ ready' \in BOOLEAN /\ rdata' \in Word
      BY <3>1, <3>2 DEF BIT
    <3>4. bits_done' \in 0 .. 63 /\ state' \in EngineState
      BY <3>1 DEF EngineState
    <3> QED
      BY <2>1, <3>2, <3>3, <3>4
  <2> QED
    BY <1>1, <1>2, <2>1, <2>2, <2>3, <2>4, <2>5, DevicesStep DEF WireTypes
<1>6. CASE WireShiftLo
  <2>1. ShiftLo /\ Holds /\ DeviceReact
    BY <1>6 DEF WireShiftLo, WireClocked
  <2>2. mosi' \in BIT
    BY <1>1, <2>1 DEF ShiftLo, WireTypes, Bits
  <2> QED
    BY <1>1, <1>2, <2>1, <2>2, DevicesStep DEF ShiftLo, WireTypes, BIT, EngineState
<1>7. CASE WireShiftHi
  <2>1. ShiftHi(Miso) /\ Holds /\ DeviceReact
    BY <1>7 DEF WireShiftHi, WireClocked
  <2>2. Miso \in BIT
    BY <1>1 DEF WireTypes, Miso, DeviceState, BIT, Dev
  <2>3. sreg' \in Bits(64)
    BY <1>1, <2>1, <2>2, ShiftInType DEF ShiftHi, WireTypes
  <2>4. bits_done' \in 0 .. 63
    <3>1. bits_done \in Nat /\ nbits_total \in {0, 40, 48, 64} /\ bits_done < nbits_total
      BY <1>1, <2>1 DEF HandshakeIInv, HandshakeInv, Busy, ShiftHi, WireTypes
    <3>2. bits_done' = bits_done \/ (bits_done' = bits_done + 1 /\ bits_done + 1 # nbits_total)
      BY <2>1 DEF ShiftHi, LastBit
    <3> QED
      BY <3>1, <3>2
  <2>5. mosi' = mosi /\ cs' = cs /\ sck' = 1 /\ ready' = FALSE /\ rdata' = rdata
        /\ nbits_total' = nbits_total /\ data_bits' = data_bits
        /\ state' \in EngineState
    BY <2>1 DEF ShiftHi, EngineState
  <2> QED
    BY <1>1, <1>2, <2>1, <2>3, <2>4, <2>5, DevicesStep DEF WireTypes, BIT
<1>8. CASE WireDone
  <2>1. Done /\ Holds /\ DeviceReact
    BY <1>8 DEF WireDone, WireClocked
  <2>2. data_bits \in {8, 16, 32}
    BY <1>1, <2>1, AccessFields, DataBitsRange
       DEF HandshakeIInv, HandshakeInv, Busy, Done, WireTypes
  <2>3. rdata' \in Word
    BY <1>1, <2>1, <2>2, UnpackType DEF Done, WireTypes
  <2>4. cs' \in [Dev -> BIT]
    BY <2>1 DEF Done, AllHigh, BIT
  <2> QED
    BY <1>1, <1>2, <2>1, <2>3, <2>4, DevicesStep DEF Done, WireTypes, BIT, EngineState
<1>9. CASE WirePost
  BY <1>1, <1>2, <1>9, DevicesStep DEF WirePost, WireClocked, Post, WireTypes, EngineState
<1>10. CASE WireReset
  <2>1. EngineReset /\ DeviceReact /\ valid' = FALSE /\ acc' \in Access
    BY <1>10 DEF WireReset
  <2>3. cs' \in [Dev -> BIT]
    BY <2>1 DEF EngineReset, AllHigh, BIT
  <2>4. mosi' \in BIT
    BY <2>1 DEF EngineReset, BIT
  <2> QED
    BY <1>1, <1>3, <2>1, <2>3, <2>4, DevicesStep
       DEF EngineReset, WireTypes, BIT, EngineState
<1>11. CASE UNCHANGED wireVars
  BY <1>1, <1>11 DEF wireVars, engineVars, deviceVars, WireTypes
<1> QED
  BY <1>4, <1>5, <1>6, <1>7, <1>8, <1>9, <1>10, <1>11 DEF WireNext, WireTick

\* One more rise moves a device from bit n to bit n + 1.
LEMMA PositionStep ==
  ASSUME NEW s \in DeviceState, NEW bit \in BIT, NEW m \in [Index -> Byte],
         NEW n \in 0 .. 63, AtBit(s, n)
  PROVE  AtBit(Sample(s, bit, m), n + 1)
<1> DEFINE r == Sample(s, bit, m)
<1>1. /\ r.bitcnt = (s.bitcnt + 1) % 8
      /\ r.phase = IF s.bitcnt = 7 /\ s.phase = "CMD" THEN "ADDR"
                   ELSE IF s.bitcnt = 7 /\ s.phase = "ADDR" /\ s.addr_byte = 2 THEN "DATA"
                   ELSE s.phase
      /\ r.addr_byte = IF s.bitcnt = 7 /\ s.phase = "ADDR"
                         THEN (s.addr_byte + 1) % 4 ELSE s.addr_byte
  BY SampleStep
<1> HIDE DEF r
<1>2. r.bitcnt = (n + 1) % 8
  BY <1>1 DEF AtBit
<1>3. r.phase = IF n + 1 < 8 THEN "CMD" ELSE IF n + 1 < 32 THEN "ADDR" ELSE "DATA"
  BY <1>1 DEF AtBit
<1>4. r.addr_byte = IF n + 1 < 8 THEN 0
                    ELSE IF n + 1 < 32 THEN ((n + 1) \div 8) - 1 ELSE 3
  BY <1>1 DEF AtBit
<1> QED
  BY <1>2, <1>3, <1>4 DEF AtBit, r

\* Releasing every select leaves both devices at rest.
LEMMA AllReleased ==
  ASSUME BusIInv, DeviceReact, cs' = AllHigh
  PROVE  DevicesInStep'
<1> SUFFICES ASSUME NEW d \in Dev
             PROVE  AtBit(spi'[d], 0)
  BY DEF DevicesInStep, AllHigh
<1>1. cs'[d] = 1 /\ cs[d] \in BIT /\ spi[d] \in DeviceState
  BY DEF AllHigh, BusIInv, WireTypes
<1>2. spi'[d] = IF cs[d] = 0 THEN Release(spi[d]) ELSE spi[d]
  BY <1>1 DEF DeviceReact, Rises, Falls, Deselect, BIT
<1>3. CASE cs[d] = 0
  BY <1>1, <1>2, <1>3, ReleaseStep DEF AtBit
<1>4. CASE cs[d] # 0
  BY <1>2, <1>4 DEF BusIInv, DevicesInStep
<1> QED
  BY <1>3, <1>4

LEMMA PositionsStep == BusIInv /\ [WireNext]_wireVars => DevicesInStep'
<1> SUFFICES ASSUME BusIInv, [WireNext]_wireVars
             PROVE  DevicesInStep'
  OBVIOUS
<1>1. /\ HandshakeIInv /\ WireTypes /\ WireTypes' /\ DevicesInStep
  BY TypesStep DEF BusIInv
<1>2. CASE WireIdle
  <2>1. Idle /\ DeviceReact
    BY <1>2 DEF WireIdle, WireClocked
  <2>2. cs' = AllHigh
    BY <1>1, <2>1 DEF Idle, HandshakeIInv, HandshakeInv
  <2> QED
    BY <2>1, <2>2, AllReleased
<1>3. CASE WireAccept
  <2>1. Accept /\ DeviceReact
    BY <1>3 DEF WireAccept, WireClocked
  <2>2. /\ state = "IDLE" /\ cs = AllHigh /\ sck = 0 /\ sck' = 0
        /\ bits_done' = 0 /\ state' = "SHIFT_LO"
    BY <1>1, <2>1 DEF Accept, HandshakeIInv, HandshakeInv
  <2>3. ASSUME NEW d \in Dev
        PROVE  AtBit(spi'[d], 0)
    <3>1. spi'[d] = spi[d]
      BY <2>1, <2>2 DEF DeviceReact, Rises, Falls, Deselect, AllHigh
    <3> QED
      BY <1>1, <2>2, <3>1 DEF DevicesInStep, AllHigh
  <2>4. RisesSoFar' = 0
    BY <2>2 DEF RisesSoFar
  <2> QED
    BY <2>3, <2>4 DEF DevicesInStep
<1>4. CASE WireShiftLo
  <2>1. ShiftLo /\ DeviceReact
    BY <1>4 DEF WireShiftLo, WireClocked
  <2>2. /\ state = "SHIFT_LO" /\ state' = "SHIFT_HI" /\ bits_done' = bits_done
        /\ cs' = cs /\ sck' = 0
    BY <2>1 DEF ShiftLo
  <2>3. RisesSoFar' = RisesSoFar
    BY <2>2 DEF RisesSoFar
  <2>4. ASSUME NEW d \in Dev
        PROVE  \A n : AtBit(spi[d], n) => AtBit(spi'[d], n)
    <3>1. spi'[d] = spi[d] \/ spi'[d] = Drive(spi[d])
      BY <2>1, <2>2 DEF DeviceReact, Rises, Deselect
    <3>2. spi[d] \in DeviceState
      BY <1>1 DEF WireTypes
    <3> QED
      BY <3>1, <3>2, DriveStep DEF AtBit
  <2> QED
    BY <1>1, <2>2, <2>3, <2>4 DEF DevicesInStep
<1>5. CASE WireShiftHi
  <2>1. ShiftHi(Miso) /\ DeviceReact
    BY <1>5 DEF WireShiftHi, WireClocked
  <2>2. /\ state = "SHIFT_HI" /\ sck = 0 /\ sck' = 1 /\ cs' = cs
    BY <1>1, <2>1 DEF ShiftHi, HandshakeIInv, HandshakeInv
  <2>3. RisesSoFar \in 0 .. 63 /\ RisesSoFar' = RisesSoFar + 1
    <3>1. bits_done \in 0 .. 63
      BY <1>1 DEF WireTypes
    <3>2. \/ state' = "DONE" /\ bits_done' = bits_done
          \/ state' = "SHIFT_LO" /\ bits_done' = bits_done + 1
      BY <2>1 DEF ShiftHi
    <3> QED
      BY <2>2, <3>1, <3>2 DEF RisesSoFar
  <2> SUFFICES ASSUME NEW d \in Dev
               PROVE  AtBit(spi'[d], IF cs'[d] = 0 THEN RisesSoFar' ELSE 0)
    BY DEF DevicesInStep
  <2>4. /\ spi[d] \in DeviceState /\ store[d] \in [Index -> Byte]
        /\ mosi' \in BIT /\ cs[d] \in BIT
    BY <1>1 DEF WireTypes, Store
  <2>5. CASE cs[d] = 0
    <3>1. spi'[d] = Sample(spi[d], mosi', store[d])
      BY <2>1, <2>2, <2>5 DEF DeviceReact, Rises
    <3>2. AtBit(spi[d], RisesSoFar)
      BY <1>1, <2>5 DEF DevicesInStep
    <3> QED
      BY <2>2, <2>3, <2>4, <2>5, <3>1, <3>2, PositionStep
  <2>6. CASE cs[d] # 0
    <3>1. spi'[d] = spi[d]
      BY <2>1, <2>2, <2>6 DEF DeviceReact, Rises, Falls, Deselect
    <3> QED
      BY <1>1, <2>2, <2>6, <3>1 DEF DevicesInStep
  <2> QED
    BY <2>5, <2>6
<1>6. CASE WireDone
  BY <1>6, AllReleased DEF WireDone, WireClocked, Done
<1>7. CASE WirePost
  <2>1. Post /\ DeviceReact
    BY <1>7 DEF WirePost, WireClocked
  <2>2. cs' = AllHigh
    BY <1>1, <2>1 DEF Post, HandshakeIInv, HandshakeInv
  <2> QED
    BY <2>1, <2>2, AllReleased
<1>8. CASE WireReset
  BY <1>8, AllReleased DEF WireReset, EngineReset
<1>9. CASE UNCHANGED wireVars
  BY <1>1, <1>9 DEF wireVars, engineVars, deviceVars, DevicesInStep, RisesSoFar
<1> QED
  BY <1>2, <1>3, <1>4, <1>5, <1>6, <1>7, <1>8, <1>9 DEF WireNext, WireTick

LEMMA BusStep == BusIInv /\ [WireNext]_wireVars => BusIInv'
BY HandshakeStep, TypesStep, PositionsStep DEF BusIInv

LEMMA BusAlways == Spec => []BusIInv
<1>1. BusIInv /\ [Next]_busVars => BusIInv'
  BY BusStep, BusIsWired DEF BusIInv, WireTypes
<1> QED
  BY <1>1, BusInit, PTL DEF Spec

\* The bounds are kept.
LEMMA CountersStep ==
  ASSUME issued \in 0 .. MaxAccess, resets \in 0 .. MaxResets, [Next]_busVars
  PROVE  issued' \in 0 .. MaxAccess /\ resets' \in 0 .. MaxResets
<1>1. CASE Tick
  <2>1. Requester /\ resets' = resets
    BY <1>1 DEF Tick, Clocked, TickIdle, TickAccept, TickShiftLo, TickShiftHi, TickDone,
         TickPost
  <2>2. issued' \in {issued, issued + 1} /\ (issued' = issued \/ issued < MaxAccess)
    BY <2>1 DEF Requester
  <2> QED
    BY <2>1, <2>2, BoundAssumption
<1>2. CASE Reset
  BY <1>2, BoundAssumption DEF Reset
<1>3. CASE UNCHANGED busVars
  BY <1>3 DEF busVars
<1> QED
  BY <1>1, <1>2, <1>3 DEF Next

\* Every register keeps its width and every device the shape of its memory.
THEOREM TypeCorrect == Spec => []TypeOK
<1> DEFINE Counted == issued \in 0 .. MaxAccess /\ resets \in 0 .. MaxResets
<1>1. BusIInv /\ Counted => TypeOK
  BY DEF BusIInv, WireTypes, TypeOK
<1>2. Init => Counted
  BY BoundAssumption DEF Init
<1>3. Counted /\ [Next]_busVars => Counted'
  BY CountersStep
<1> QED
  BY <1>1, <1>2, <1>3, BusAlways, PTL DEF Spec

\* The counters of the engine and of the device it talks to never drift apart,
\* and a device that is not selected is ready for a new command.
THEOREM DevicesInStepAlways == Spec => []DevicesInStep
<1>1. BusIInv => DevicesInStep
  BY DEF BusIInv
<1> QED
  BY <1>1, BusAlways, PTL

-----------------------------------------------------------------------------
\* What the wire carries.

\* The 64 bits the engine takes from an access, the highest one first.
Wire(a) == Preload(a.we, a.size, a.addr, a.wdata)

\* The device's address after k bytes of data.
AddrAfter(a, k) ==
  IF k < 4 THEN Plus(a, 24, k) ELSE Increment(Plus(a, 24, 3), 24)

\* Bit p of what a read from address a receives.
DataBit(m, a, p) == m[Idx(Plus(a, 24, p \div 8))][7 - (p % 8)]

\* Bit p of what an access receives: a write receives zeros.
OutBit(m, a, p) == IF a.we THEN 0 ELSE DataBit(m, a.addr, p)

LEMMA CommandsDiffer == CMD_READ # CMD_WRITE
<1>1. CMD_READ[0] = (3 \div 2^0) % 2 /\ CMD_WRITE[0] = (2 \div 2^0) % 2
  BY DEF CMD_READ, CMD_WRITE, ToBits
<1>2. 2^0 = 1
  OBVIOUS
<1>3. CMD_READ[0] = 1 /\ CMD_WRITE[0] = 0
  BY <1>1, <1>2
<1> QED
  BY <1>3

LEMMA AccessTypes ==
  ASSUME NEW a \in Access
  PROVE  /\ a.we \in BOOLEAN /\ a.dev \in Dev /\ a.addr \in Addr24
         /\ a.wdata \in Word /\ a.size \in Size
BY AccessAssumption DEF AccessType

LEMMA WireBits ==
  ASSUME NEW a \in Access
  PROVE  /\ \A i \in 0 .. 63 : Wire(a)[i] \in BIT
         /\ \A i \in 0 .. 7 : Wire(a)[56 + i] = (IF a.we THEN CMD_WRITE ELSE CMD_READ)[i]
         /\ \A i \in 0 .. 23 : Wire(a)[32 + i] = a.addr[i]
         /\ \A k \in 0 .. 3, i \in 0 .. 7 :
              a.we /\ k < Bytes(a.size) => Wire(a)[24 - 8 * k + i] = Lane(a.wdata, k)[i]
<1>1. \A i \in 0 .. 63 : Wire(a)[i] \in BIT
  BY AccessTypes, PreloadType DEF Wire, Bits
<1>2. \A i \in 0 .. 63 :
        Wire(a)[i] =
          IF i >= 56 THEN (IF a.we THEN CMD_WRITE ELSE CMD_READ)[i - 56]
          ELSE IF i >= 32 THEN a.addr[i - 32]
          ELSE IF a.we /\ i >= 32 - DataBits(a.size)
                 THEN a.wdata[8 * (3 - (i \div 8)) + (i % 8)]
          ELSE 0
  BY DEF Wire, Preload
<1>3. ASSUME NEW i \in 0 .. 7
      PROVE  Wire(a)[56 + i] = (IF a.we THEN CMD_WRITE ELSE CMD_READ)[i]
  <2>1. 56 + i \in 0 .. 63 /\ 56 + i >= 56 /\ (56 + i) - 56 = i
    OBVIOUS
  <2> QED
    BY <1>2, <2>1
<1>4. ASSUME NEW i \in 0 .. 23
      PROVE  Wire(a)[32 + i] = a.addr[i]
  <2>1. 32 + i \in 0 .. 63 /\ ~(32 + i >= 56) /\ 32 + i >= 32 /\ (32 + i) - 32 = i
    OBVIOUS
  <2> QED
    BY <1>2, <2>1
<1>5. ASSUME NEW k \in 0 .. 3, NEW i \in 0 .. 7, a.we, k < Bytes(a.size)
      PROVE  Wire(a)[24 - 8 * k + i] = Lane(a.wdata, k)[i]
  <2> DEFINE j == 24 - 8 * k + i
  <2>1. DataBits(a.size) = 8 * Bytes(a.size)
    BY AccessTypes DEF DataBits, Bytes, Size
  <2>2. DataBits(a.size) \in Nat /\ Bytes(a.size) \in Nat
    BY AccessTypes DEF DataBits, Bytes, Size
  <2>3. j \in 0 .. 63 /\ ~(j >= 56) /\ ~(j >= 32) /\ j >= 32 - DataBits(a.size)
    BY <1>5, <2>1, <2>2
  <2>4. j \div 8 = 3 - k /\ j % 8 = i
    OBVIOUS
  <2>5. 8 * (3 - (j \div 8)) + (j % 8) = 8 * k + i
    BY <2>4
  <2> HIDE DEF j
  <2>6. Wire(a)[j] = a.wdata[8 * k + i]
    BY <1>2, <1>5, <2>3, <2>5
  <2> QED
    BY <2>6 DEF j, Lane
<1> QED
  BY <1>1, <1>3, <1>4, <1>5

\* What a device has taken from n bits of an access, over memory m.
Got(s, m, a, n) ==
  /\ \A i \in 0 .. 7 : i < n => s.shift_in[i] = Wire(a)[64 - n + i]
  /\ n >= 8 => s.we = a.we
  /\ n < 32 => \A i \in 0 .. 23 :
                 i < 8 * (n \div 8) - 8 => s.addr[i] = Wire(a)[64 - 8 * (n \div 8) + i]
  /\ n >= 32 => s.addr = AddrAfter(a.addr, (n - 32) \div 8)
  /\ n >= 32 /\ ~a.we => s.cur_out = m[Idx(s.addr)]

LEMMA SampleData ==
  ASSUME NEW s \in DeviceState, NEW bit \in BIT, NEW m \in [Index -> Byte],
         NEW byte, byte = ShiftIn(s.shift_in, bit, 8)
  PROVE  /\ Sample(s, bit, m).shift_in = byte
         /\ Sample(s, bit, m).we =
              IF s.bitcnt = 7 /\ s.phase = "CMD" THEN byte = CMD_WRITE ELSE s.we
         /\ Sample(s, bit, m).addr =
              IF s.bitcnt = 7 /\ s.phase = "ADDR" THEN NextAddr(s.addr, byte)
              ELSE IF s.bitcnt = 7 /\ s.phase = "DATA" THEN Increment(s.addr, 24)
              ELSE s.addr
         /\ Sample(s, bit, m).cur_out =
              IF s.bitcnt = 7 /\ s.phase = "ADDR" /\ s.addr_byte = 2
                THEN m[Idx(NextAddr(s.addr, byte))]
              ELSE IF s.bitcnt = 7 /\ s.phase = "DATA" THEN m[Idx(Increment(s.addr, 24))]
              ELSE s.cur_out
<1> DEFINE next == NextAddr(s.addr, byte)
           succ == Increment(s.addr, 24)
           got  == [s EXCEPT !.shift_in = byte, !.bitcnt = (s.bitcnt + 1) % 8]
<1>1. s.phase \in Phase /\ s.bitcnt \in 0 .. 7 /\ s.addr_byte \in 0 .. 3
  BY DEF DeviceState
<1>2. DOMAIN s = {"phase", "bitcnt", "addr_byte", "addr", "we", "shift_in", "cur_out", "miso"}
  BY DEF DeviceState
<1> HIDE DEF next, succ
<1>3. CASE s.bitcnt < 7
  <2>1. Sample(s, bit, m) = got
    BY <1>3 DEF Sample
  <2> QED
    BY <2>1, <1>1, <1>2, <1>3 DEF DeviceState
<1>4. CASE s.bitcnt = 7 /\ s.phase = "CMD"
  <2>1. Sample(s, bit, m) = [got EXCEPT !.we = (byte = CMD_WRITE), !.phase = "ADDR"]
    BY <1>4 DEF Sample
  <2> QED
    BY <2>1, <1>1, <1>2, <1>4 DEF DeviceState
<1>5. CASE s.bitcnt = 7 /\ s.phase = "ADDR"
  <2>1. Sample(s, bit, m) =
          [got EXCEPT !.addr = next,
                      !.phase = IF s.addr_byte = 2 THEN "DATA" ELSE "ADDR",
                      !.cur_out = IF s.addr_byte = 2 THEN m[Idx(next)] ELSE @,
                      !.addr_byte = (s.addr_byte + 1) % 4]
    BY <1>5 DEF Sample, next
  <2> QED
    BY <2>1, <1>1, <1>2, <1>5 DEF DeviceState, next
<1>6. CASE s.bitcnt = 7 /\ s.phase = "DATA"
  <2>1. Sample(s, bit, m) = [got EXCEPT !.addr = succ, !.cur_out = m[Idx(succ)]]
    BY <1>6 DEF Sample, succ
  <2> QED
    BY <2>1, <1>1, <1>2, <1>6 DEF DeviceState, succ
<1> QED
  BY <1>1, <1>3, <1>4, <1>5, <1>6 DEF Phase

\* The bytes of an address, in steps of one.
LEMMA AddrSteps ==
  ASSUME NEW a, NEW k \in 0 .. 3
  PROVE  AddrAfter(a, k + 1) = Increment(AddrAfter(a, k), 24)
<1>1. k = 0 \/ k = 1 \/ k = 2 \/ k = 3
  OBVIOUS
<1> QED
  BY <1>1 DEF AddrAfter, Plus

LEMMA AddrAfterType ==
  ASSUME NEW a \in Addr24, NEW k \in 0 .. 4
  PROVE  AddrAfter(a, k) \in Addr24
<1>1. \A v \in Addr24 : Increment(v, 24) \in Addr24
  BY IncrementType DEF Addr24
<1> QED
  BY <1>1 DEF AddrAfter, Plus

\* The next bit of the access brings a device from n bits of it to n + 1.
LEMMA GotStep ==
  ASSUME NEW s \in DeviceState, NEW m \in [Index -> Byte], NEW a \in Access,
         NEW n \in 0 .. 63, AtBit(s, n), Got(s, m, a, n)
  PROVE  Got(Sample(s, Wire(a)[63 - n], m), m, a, n + 1)
<1> DEFINE bit  == Wire(a)[63 - n]
           byte == ShiftIn(s.shift_in, bit, 8)
           r    == Sample(s, bit, m)
           W    == Wire(a)
<1>1. bit \in BIT /\ 63 - n \in 0 .. 63
  BY WireBits
<1>2. /\ s.shift_in \in Byte /\ s.addr \in Addr24 /\ byte \in Byte
      /\ \A i \in 0 .. 7 : byte[i] = IF i = 0 THEN bit ELSE s.shift_in[i - 1]
  <2>1. s.shift_in \in Byte /\ s.addr \in Addr24
    BY DEF DeviceState
  <2>2. byte \in Byte
    BY <1>1, <2>1, ShiftInType DEF Byte
  <2>3. \A i \in 0 .. 7 : byte[i] = IF i = 0 THEN bit ELSE s.shift_in[i - 1]
    BY DEF ShiftIn
  <2> QED
    BY <2>1, <2>2, <2>3
<1>3. /\ r.shift_in = byte
      /\ r.we = IF s.bitcnt = 7 /\ s.phase = "CMD" THEN byte = CMD_WRITE ELSE s.we
      /\ r.addr = IF s.bitcnt = 7 /\ s.phase = "ADDR" THEN NextAddr(s.addr, byte)
                  ELSE IF s.bitcnt = 7 /\ s.phase = "DATA" THEN Increment(s.addr, 24)
                  ELSE s.addr
      /\ r.cur_out = IF s.bitcnt = 7 /\ s.phase = "ADDR" /\ s.addr_byte = 2
                       THEN m[Idx(NextAddr(s.addr, byte))]
                     ELSE IF s.bitcnt = 7 /\ s.phase = "DATA"
                       THEN m[Idx(Increment(s.addr, 24))]
                     ELSE s.cur_out
  BY <1>1, SampleData
<1> HIDE DEF bit, byte, r, W
<1>4. \A i \in 0 .. 7 : i < n + 1 => byte[i] = W[64 - (n + 1) + i]
  <2> SUFFICES ASSUME NEW i \in 0 .. 7, i < n + 1
               PROVE  byte[i] = W[64 - (n + 1) + i]
    OBVIOUS
  <2>1. CASE i = 0
    <3>1. 64 - (n + 1) + i = 63 - n
      BY <2>1
    <3> QED
      BY <1>2, <2>1, <3>1 DEF bit, W
  <2>2. CASE i # 0
    <3>1. i - 1 \in 0 .. 7 /\ i - 1 < n /\ 64 - (n + 1) + i = 64 - n + (i - 1)
      BY <2>2
    <3>2. s.shift_in[i - 1] = W[64 - n + (i - 1)]
      BY <3>1 DEF Got, W
    <3> QED
      BY <1>2, <2>2, <3>1, <3>2
  <2> QED
    BY <2>1, <2>2
<1>5. ASSUME n + 1 >= 8
      PROVE  r.we = a.we
  <2>1. CASE n = 7
    <3>1. s.bitcnt = 7 /\ s.phase = "CMD"
      BY <2>1 DEF AtBit
    <3>2. ASSUME NEW i \in 0 .. 7
          PROVE  byte[i] = (IF a.we THEN CMD_WRITE ELSE CMD_READ)[i]
      <4>1. i < n + 1 /\ 64 - (n + 1) + i = 56 + i
        BY <2>1
      <4> QED
        BY <1>4, <4>1, WireBits DEF W
    <3>3. byte = IF a.we THEN CMD_WRITE ELSE CMD_READ
      BY <1>2, <3>2, CommandTypes DEF Byte, Bits
    <3>4. (byte = CMD_WRITE) = a.we
      BY <3>3, CommandsDiffer, AccessTypes
    <3> QED
      BY <1>3, <3>1, <3>4
  <2>2. CASE n # 7
    <3>1. n >= 8 /\ ~(s.bitcnt = 7 /\ s.phase = "CMD")
      BY <1>5, <2>2 DEF AtBit
    <3> QED
      BY <1>3, <3>1 DEF Got
  <2> QED
    BY <2>1, <2>2
<1>6. ASSUME n + 1 < 33, NEW i \in 0 .. 23, i < 8 * ((n + 1) \div 8) - 8
      PROVE  r.addr[i] = W[64 - 8 * ((n + 1) \div 8) + i]
  <2>1. CASE s.bitcnt = 7
    <3>1. n % 8 = 7 /\ n >= 8
      BY <1>6, <2>1 DEF AtBit
    <3>2. s.phase = "ADDR" /\ 8 * ((n + 1) \div 8) = n + 1 /\ 8 * (n \div 8) = n - 7
      BY <1>6, <3>1 DEF AtBit
    <3>3. r.addr[i] = IF i < 8 THEN byte[i] ELSE s.addr[i - 8]
      BY <1>3, <2>1, <3>2 DEF NextAddr
    <3>4. CASE i < 8
      BY <1>4, <3>1, <3>2, <3>3, <3>4
    <3>5. CASE i >= 8
      <4>1. /\ n < 32 /\ i - 8 \in 0 .. 23 /\ i - 8 < 8 * (n \div 8) - 8
            /\ 64 - 8 * (n \div 8) + (i - 8) = 64 - 8 * ((n + 1) \div 8) + i
        BY <1>6, <3>2, <3>5
      <4>2. s.addr[i - 8] = W[64 - 8 * (n \div 8) + (i - 8)]
        BY <4>1 DEF Got, W
      <4> QED
        BY <3>3, <3>5, <4>1, <4>2
    <3> QED
      BY <3>4, <3>5
  <2>2. CASE s.bitcnt # 7
    <3>1. n % 8 # 7 /\ n < 32 /\ r.addr = s.addr
      BY <1>3, <1>6, <2>2 DEF AtBit
    <3>2. (n + 1) \div 8 = n \div 8
      BY <3>1
    <3> QED
      BY <1>6, <3>1, <3>2 DEF Got, W
  <2> QED
    BY <2>1, <2>2
<1>7. ASSUME n + 1 >= 32
      PROVE  /\ r.addr = AddrAfter(a.addr, ((n + 1) - 32) \div 8)
             /\ ~a.we => r.cur_out = m[Idx(r.addr)]
  <2>1. CASE n = 31
    <3>1. s.bitcnt = 7 /\ s.phase = "ADDR" /\ s.addr_byte = 2
      BY <2>1 DEF AtBit
    <3>2. ((n + 1) - 32) \div 8 = 0 /\ 8 * ((n + 1) \div 8) = 32
      BY <2>1
    <3>3. \A i \in 0 .. 23 : r.addr[i] = a.addr[i]
      <4> SUFFICES ASSUME NEW i \in 0 .. 23 PROVE r.addr[i] = a.addr[i]
        OBVIOUS
      <4>1. i < 8 * ((n + 1) \div 8) - 8 /\ 64 - 8 * ((n + 1) \div 8) + i = 32 + i
        BY <3>2
      <4>2. n + 1 < 33
        BY <2>1
      <4> QED
        BY <1>6, <4>1, <4>2, WireBits DEF W
    <3>4. r.addr = NextAddr(s.addr, byte)
      BY <1>3, <3>1
    <3>5. r.addr \in Addr24
      BY <1>2, <3>4, NextAddrType
    <3>6. r.addr = a.addr
      BY <3>3, <3>5, AccessTypes DEF Addr24, Bits
    <3>7. AddrAfter(a.addr, 0) = a.addr
      BY DEF AddrAfter, Plus
    <3> QED
      BY <1>3, <3>1, <3>2, <3>4, <3>6, <3>7
  <2>2. CASE n >= 32 /\ n % 8 = 7
    <3>1. s.bitcnt = 7 /\ s.phase = "DATA"
      BY <2>2 DEF AtBit
    <3>2. PICK k \in 0 .. 3 : k = (n - 32) \div 8 /\ ((n + 1) - 32) \div 8 = k + 1
      BY <2>2
    <3>3. s.addr = AddrAfter(a.addr, k)
      BY <2>2, <3>2 DEF Got
    <3> QED
      BY <1>3, <3>1, <3>2, <3>3, AddrSteps
  <2>3. CASE n >= 32 /\ n % 8 # 7
    <3>1. s.bitcnt # 7 /\ ((n + 1) - 32) \div 8 = (n - 32) \div 8
      BY <2>3 DEF AtBit
    <3> QED
      BY <1>3, <2>3, <3>1 DEF Got
  <2> QED
    BY <1>7, <2>1, <2>2, <2>3
<1>8. r.shift_in = byte
  BY <1>3
<1>9. Got(r, m, a, n + 1)
  <2>1. n + 1 < 32 => n + 1 < 33
    OBVIOUS
  <2> QED
    BY <1>4, <1>5, <1>6, <1>7, <1>8, <2>1 DEF Got, W
<1> QED
  BY <1>9 DEF r, bit

\* The abstract port addresses a memory as the bus does.
LEMMA PortWrites ==
  ASSUME NEW m, NEW a, NEW k, NEW wd
  PROVE  Port!WriteByte(m, a, k, wd) = [m EXCEPT ![Idx(Plus(a, 24, k))] = Lane(wd, k)]
BY DEF Port!WriteByte, Port!Idx, Port!Low, Port!Plus, Port!Increment, Port!Lane,
       Idx, Low, Plus, Increment, Lane

\* The eighth bit of a byte of data of a write stores that byte; no other bit
\* stores anything.
LEMMA CommitStep ==
  ASSUME NEW s \in DeviceState, NEW m \in [Index -> Byte], NEW a \in Access,
         NEW n \in 0 .. 63, n < 32 + 8 * Bytes(a.size),
         AtBit(s, n), Got(s, m, a, n)
  PROVE  Commit(s, Wire(a)[63 - n], m) =
           IF n >= 32 /\ n % 8 = 7 /\ a.we
             THEN Port!WriteByte(m, a.addr, (n - 32) \div 8, a.wdata)
             ELSE m
<1>1. a.we \in BOOLEAN /\ Bytes(a.size) \in {1, 2, 4} /\ a.wdata \in Word
  BY AccessTypes DEF Bytes, Size
<1>2. CASE n >= 32 /\ n % 8 = 7 /\ a.we
  <2> DEFINE k    == (n - 32) \div 8
             byte == ShiftIn(s.shift_in, Wire(a)[63 - n], 8)
  <2>1. s.bitcnt = 7 /\ s.phase = "DATA"
    BY <1>2 DEF AtBit
  <2>2. k \in 0 .. 3 /\ k < Bytes(a.size) /\ n = 8 * k + 39
    BY <1>1, <1>2
  <2>3. s.addr = AddrAfter(a.addr, k) /\ s.we
    <3>1. n >= 8 /\ n >= 32
      BY <1>2
    <3> QED
      BY <1>2, <3>1, Zenon DEF Got
  <2>4. s.addr = Plus(a.addr, 24, k)
    BY <2>2, <2>3 DEF AddrAfter
  <2>5. \A i \in 0 .. 7 : byte[i] = Lane(a.wdata, k)[i]
    <3> SUFFICES ASSUME NEW i \in 0 .. 7
                 PROVE  byte[i] = Lane(a.wdata, k)[i]
      OBVIOUS
    <3>1. byte[i] = IF i = 0 THEN Wire(a)[63 - n] ELSE s.shift_in[i - 1]
      BY DEF ShiftIn
    <3>2. Wire(a)[24 - 8 * k + i] = Lane(a.wdata, k)[i]
      BY <1>2, <2>2, WireBits
    <3>3. CASE i = 0
      <4>1. 63 - n = 24 - 8 * k + i
        BY <2>2, <3>3
      <4> QED
        BY <3>1, <3>2, <3>3, <4>1
    <3>4. CASE i # 0
      <4>1. i - 1 \in 0 .. 7 /\ i - 1 < n /\ 64 - n + (i - 1) = 24 - 8 * k + i
        BY <2>2, <3>4
      <4>2. s.shift_in[i - 1] = Wire(a)[64 - n + (i - 1)]
        BY <4>1 DEF Got
      <4> QED
        BY <3>1, <3>2, <3>4, <4>1, <4>2
    <3> QED
      BY <3>3, <3>4
  <2>6. byte = [i \in 0 .. 7 |-> byte[i]]
    BY DEF ShiftIn
  <2>7. byte = Lane(a.wdata, k)
    <3>1. Lane(a.wdata, k) = [i \in 0 .. 7 |-> Lane(a.wdata, k)[i]]
      BY DEF Lane
    <3> HIDE DEF byte
    <3> QED
      BY <2>5, <2>6, <3>1
  <2>8. Commit(s, Wire(a)[63 - n], m) = [m EXCEPT ![Idx(s.addr)] = byte]
    BY <2>1, <2>3 DEF Commit
  <2> HIDE DEF k, byte
  <2> QED
    BY <1>2, <2>4, <2>7, <2>8, PortWrites DEF k
<1>3. CASE ~(n >= 32 /\ n % 8 = 7 /\ a.we)
  <2>1. ~(s.bitcnt = 7 /\ s.phase = "DATA" /\ s.we)
    BY <1>1, <1>3 DEF AtBit, Got
  <2> QED
    BY <1>3, <2>1 DEF Commit
<1> QED
  BY <1>2, <1>3

\* What is on its way: the bits of the access still in the shift register, what
\* the selected device has taken of it, and what it has given back.
Sends ==
  /\ state \in {"SHIFT_LO", "SHIFT_HI"} =>
       \A i \in 0 .. 63 : i >= bits_done => sreg[i] = Wire(acc)[i - bits_done]
  /\ state = "SHIFT_HI" => mosi = Wire(acc)[63 - bits_done]

Takes ==
  \A d \in Dev : cs[d] = 0 => Got(spi[d], store[d], acc, RisesSoFar)

Returns ==
  \A d \in Dev : cs[d] = 0 =>
    /\ state = "SHIFT_HI" /\ bits_done >= 32 =>
         spi[d].miso = OutBit(store[d], acc, bits_done - 32)
    /\ \A i \in 0 .. 63 :
         i < RisesSoFar - 32 =>
           sreg[i] = OutBit(store[d], acc, RisesSoFar - 33 - i)

\* The inductive invariant of contents.
WireIInv == BusIInv /\ Sends /\ Takes /\ Returns

LEMMA WireInit == Init => WireIInv
<1> SUFFICES ASSUME Init PROVE WireIInv
  OBVIOUS
<1>1. state = "IDLE" /\ cs = AllHigh
  BY DEF Init, EngineInit
<1> QED
  BY <1>1, BusInit DEF WireIInv, Sends, Takes, Returns, AllHigh

\* With every device released nothing is on its way.
LEMMA NothingOnTheWire ==
  ASSUME cs' = AllHigh, state' \notin {"SHIFT_LO", "SHIFT_HI"}
  PROVE  Sends' /\ Takes' /\ Returns'
BY DEF Sends, Takes, Returns, AllHigh

LEMMA SizeBits ==
  ASSUME BusIInv, Busy
  PROVE  /\ acc \in Access /\ valid /\ ~ready /\ cs = Select(acc.dev)
         /\ nbits_total = 32 + 8 * Bytes(acc.size)
         /\ Bytes(acc.size) \in {1, 2, 4}
         /\ bits_done < nbits_total /\ bits_done \in 0 .. 63
<1>1. HandshakeIInv /\ WireTypes
  BY DEF BusIInv
<1>2. DataBits(acc.size) = 8 * Bytes(acc.size) /\ Bytes(acc.size) \in {1, 2, 4}
  BY <1>1, AccessFields DEF HandshakeIInv, DataBits, Bytes, Size
<1> QED
  BY <1>1, <1>2 DEF HandshakeIInv, HandshakeInv, WireTypes

LEMMA AcceptWire ==
  ASSUME WireIInv, WireAccept
  PROVE  Sends' /\ Takes' /\ Returns'
<1>1. Accept /\ Holds /\ DeviceReact
  BY DEF WireAccept, WireClocked
<1>2. /\ state = "IDLE" /\ cs = AllHigh /\ sck = 0 /\ sck' = 0 /\ ~ready /\ valid
      /\ bits_done' = 0 /\ state' = "SHIFT_LO" /\ sreg' = Wire(acc)
  BY <1>1 DEF Accept, WireIInv, BusIInv, HandshakeIInv, HandshakeInv, Wire
<1>3. acc' = acc /\ acc \in Access
  BY <1>1, <1>2, HoldsStep DEF WireIInv, BusIInv, WireTypes
<1>4. RisesSoFar' = 0
  BY <1>2 DEF RisesSoFar
<1>5. Sends'
  <2>1. ASSUME NEW i \in 0 .. 63
        PROVE  sreg'[i] = Wire(acc')[i - bits_done']
    <3>1. i - bits_done' = i
      BY <1>2
    <3> QED
      BY <1>2, <1>3, <3>1
  <2> QED
    BY <1>2, <2>1 DEF Sends
<1>6. ASSUME NEW s, NEW m, NEW a
      PROVE  Got(s, m, a, 0)
  <2>1. \A i \in 0 .. 23 : ~(i < 8 * (0 \div 8) - 8)
    OBVIOUS
  <2> QED
    BY <2>1 DEF Got
<1>7. Takes'
  BY <1>4, <1>6 DEF Takes
<1>8. Returns'
  BY <1>2, <1>4 DEF Returns
<1> QED
  BY <1>5, <1>7, <1>8

LEMMA ShiftLoWire ==
  ASSUME WireIInv, WireShiftLo
  PROVE  Sends' /\ Takes' /\ Returns'
<1>1. ShiftLo /\ Holds /\ DeviceReact
  BY DEF WireShiftLo, WireClocked
<1>2. /\ state = "SHIFT_LO" /\ state' = "SHIFT_HI" /\ sck' = 0 /\ mosi' = sreg[63]
      /\ cs' = cs /\ sreg' = sreg /\ bits_done' = bits_done
  BY <1>1 DEF ShiftLo
<1>3. /\ acc \in Access /\ valid /\ ~ready /\ bits_done < nbits_total
      /\ bits_done \in 0 .. 63 /\ cs = Select(acc.dev)
      /\ BusIInv /\ Sends /\ Takes /\ Returns /\ (sck = 1 <=> bits_done > 0)
  BY <1>2, SizeBits DEF WireIInv, Busy, BusIInv, HandshakeIInv, HandshakeInv
<1>4. acc' = acc
  BY <1>1, <1>3 DEF Holds
<1>5. RisesSoFar = bits_done /\ RisesSoFar' = bits_done
  BY <1>2, <1>3 DEF RisesSoFar
<1>6. store' = store
  <2>1. \A d \in Dev : store'[d] = store[d]
    BY <1>1, <1>2 DEF DeviceReact, Rises
  <2> QED
    BY <1>1, <1>3, <2>1 DEF DeviceReact, BusIInv, WireTypes, Store
<1>7. Sends'
  <2>1. sreg[63] = Wire(acc)[63 - bits_done]
    BY <1>2, <1>3 DEF Sends
  <2> QED
    BY <1>2, <1>3, <1>4, <2>1 DEF Sends
<1>8. ASSUME NEW d \in Dev, cs[d] = 0
      PROVE  /\ Got(spi'[d], store[d], acc, bits_done)
             /\ bits_done >= 32 =>
                  spi'[d].miso = OutBit(store[d], acc, bits_done - 32)
  <2>1. spi[d] \in DeviceState /\ AtBit(spi[d], bits_done)
    BY <1>3, <1>5, <1>8 DEF BusIInv, WireTypes, DevicesInStep
  <2>2. Got(spi[d], store[d], acc, bits_done)
    BY <1>3, <1>5, <1>8 DEF Takes
  <2>3. spi'[d] = IF sck = 1 THEN Drive(spi[d]) ELSE spi[d]
    BY <1>1, <1>2, <1>8 DEF DeviceReact, Rises, Falls, Deselect
  <2>4. /\ Drive(spi[d]).shift_in = spi[d].shift_in /\ Drive(spi[d]).we = spi[d].we
        /\ Drive(spi[d]).addr = spi[d].addr /\ Drive(spi[d]).cur_out = spi[d].cur_out
        /\ Drive(spi[d]).miso = IF spi[d].phase = "DATA" /\ ~spi[d].we
                                  THEN spi[d].cur_out[7 - spi[d].bitcnt] ELSE 0
    BY <2>1 DEF Drive, DeviceState
  <2>5. Got(spi'[d], store[d], acc, bits_done)
    BY <2>2, <2>3, <2>4 DEF Got
  <2>6. ASSUME ~acc.we, bits_done >= 32
        PROVE  spi'[d].miso = DataBit(store[d], acc.addr, bits_done - 32)
    <3>1. /\ spi[d].phase = "DATA" /\ spi[d].bitcnt = bits_done % 8 /\ sck = 1
          /\ (bits_done - 32) % 8 = bits_done % 8
      BY <1>3, <2>1, <2>6 DEF AtBit
    <3>2. PICK k \in 0 .. 3 : k = (bits_done - 32) \div 8
      BY <1>3, <2>6
    <3>3. spi[d].addr = Plus(acc.addr, 24, k) /\ ~spi[d].we
      <4>1. bits_done >= 8 /\ bits_done >= 32
        BY <1>3, <2>6
      <4>2. spi[d].addr = AddrAfter(acc.addr, k) /\ ~spi[d].we
        BY <2>2, <2>6, <3>2, <4>1, Zenon DEF Got
      <4> QED
        BY <4>2 DEF AddrAfter
    <3>4. spi[d].cur_out = store[d][Idx(spi[d].addr)]
      BY <2>2, <2>6 DEF Got
    <3> QED
      BY <2>3, <2>4, <3>1, <3>2, <3>3, <3>4 DEF DataBit
  <2>7. ASSUME acc.we, bits_done >= 32
        PROVE  spi'[d].miso = 0
    <3>1. sck = 1 /\ bits_done >= 8
      BY <1>3, <2>7
    <3>2. spi[d].we
      BY <2>2, <2>7, <3>1 DEF Got
    <3> QED
      BY <2>3, <2>4, <3>1, <3>2
  <2> QED
    BY <2>5, <2>6, <2>7 DEF OutBit
<1>9. Takes'
  BY <1>2, <1>4, <1>5, <1>6, <1>8 DEF Takes
<1>10. Returns'
  <2>1. ASSUME NEW d \in Dev, cs'[d] = 0
        PROVE  /\ state' = "SHIFT_HI" /\ bits_done' >= 32 =>
                    spi'[d].miso = OutBit(store'[d], acc', bits_done' - 32)
               /\ \A i \in 0 .. 63 :
                    i < RisesSoFar' - 32 =>
                      sreg'[i] = OutBit(store'[d], acc', RisesSoFar' - 33 - i)
    <3>1. cs[d] = 0
      BY <1>2, <1>4, <2>1
    <3>2. \A i \in 0 .. 63 :
            i < RisesSoFar - 32 =>
              sreg[i] = OutBit(store[d], acc, RisesSoFar - 33 - i)
      BY <1>3, <3>1 DEF Returns
    <3>3. bits_done >= 32 => spi'[d].miso = OutBit(store[d], acc, bits_done - 32)
      BY <1>8, <3>1
    <3> QED
      BY <1>2, <1>4, <1>5, <1>6, <3>2, <3>3
  <2> QED
    BY <2>1 DEF Returns
<1> QED
  BY <1>7, <1>9, <1>10

\* What a rise of SCK does to the memories and to what they return.
LEMMA ShiftHiWire ==
  ASSUME WireIInv, WireShiftHi
  PROVE  /\ Sends' /\ Takes' /\ Returns'
         /\ RisesSoFar \in 0 .. 63 /\ RisesSoFar' = RisesSoFar + 1
         /\ store' = [d \in Dev |->
                        IF d = acc.dev /\ RisesSoFar >= 32 /\ RisesSoFar % 8 = 7 /\ acc.we
                          THEN Port!WriteByte(store[d], acc.addr,
                                              (RisesSoFar - 32) \div 8, acc.wdata)
                          ELSE store[d]]
<1> DEFINE n == bits_done
<1>1. ShiftHi(Miso) /\ Holds /\ DeviceReact
  BY DEF WireShiftHi, WireClocked
<1>2. /\ state = "SHIFT_HI" /\ sck' = 1 /\ mosi' = mosi /\ cs' = cs
      /\ sreg' = ShiftIn(sreg, Miso, 64)
      /\ \/ state' = "DONE" /\ bits_done' = n
         \/ state' = "SHIFT_LO" /\ bits_done' = n + 1
  BY <1>1 DEF ShiftHi
<1>3. /\ acc \in Access /\ valid /\ ~ready /\ n < nbits_total
      /\ n \in 0 .. 63 /\ cs = Select(acc.dev) /\ sck = 0
      /\ n < 32 + 8 * Bytes(acc.size)
      /\ BusIInv /\ Sends /\ Takes /\ Returns
  BY <1>2, SizeBits DEF WireIInv, Busy, BusIInv, HandshakeIInv, HandshakeInv
<1>4. acc' = acc
  BY <1>1, <1>3 DEF Holds
<1>5. RisesSoFar = n /\ RisesSoFar' = n + 1
  BY <1>2, <1>3 DEF RisesSoFar
<1>6. mosi = Wire(acc)[63 - n]
  BY <1>2, <1>3 DEF Sends
<1> HIDE DEF n
<1>7. acc.dev \in Dev /\ acc.we \in BOOLEAN /\ acc.addr \in Addr24
  BY <1>3, AccessTypes
<1>8. ASSUME NEW d \in Dev
      PROVE  /\ cs[d] = 0 <=> d = acc.dev
             /\ spi[d] \in DeviceState /\ store[d] \in [Index -> Byte]
  BY <1>3 DEF Select, BusIInv, WireTypes, Store
<1>9. ASSUME NEW d \in Dev, cs[d] = 0
      PROVE  /\ AtBit(spi[d], n) /\ Got(spi[d], store[d], acc, n)
             /\ spi'[d] = Sample(spi[d], Wire(acc)[63 - n], store[d])
             /\ store'[d] = IF n >= 32 /\ n % 8 = 7 /\ acc.we
                              THEN Port!WriteByte(store[d], acc.addr,
                                                  (n - 32) \div 8, acc.wdata)
                              ELSE store[d]
  <2>1. AtBit(spi[d], n) /\ Got(spi[d], store[d], acc, n)
    BY <1>3, <1>5, <1>9 DEF BusIInv, DevicesInStep, Takes
  <2>2. Rises(d)
    BY <1>2, <1>3, <1>9 DEF Rises
  <2>3. /\ spi'[d] = Sample(spi[d], Wire(acc)[63 - n], store[d])
        /\ store'[d] = Commit(spi[d], Wire(acc)[63 - n], store[d])
    BY <1>1, <1>2, <1>6, <2>2 DEF DeviceReact
  <2>4. n < 32 + 8 * Bytes(acc.size)
    BY <1>3
  <2> QED
    BY <1>3, <1>8, <2>1, <2>3, <2>4, CommitStep
<1>10. store' = [d \in Dev |->
                   IF d = acc.dev /\ n >= 32 /\ n % 8 = 7 /\ acc.we
                     THEN Port!WriteByte(store[d], acc.addr, (n - 32) \div 8, acc.wdata)
                     ELSE store[d]]
  <2>1. ASSUME NEW d \in Dev, cs[d] # 0
        PROVE  store'[d] = store[d]
    BY <1>1, <1>2, <2>1 DEF DeviceReact, Rises
  <2>2. ASSUME NEW d \in Dev
        PROVE  store'[d] = IF d = acc.dev /\ n >= 32 /\ n % 8 = 7 /\ acc.we
                             THEN Port!WriteByte(store[d], acc.addr,
                                                 (n - 32) \div 8, acc.wdata)
                             ELSE store[d]
    BY <1>8, <1>9, <2>1
  <2>3. store' = [d \in Dev |-> store'[d]]
    BY <1>1 DEF DeviceReact
  <2> QED
    BY <2>2, <2>3
<1>11. \A i \in 0 .. 63 : sreg'[i] = IF i = 0 THEN Miso ELSE sreg[i - 1]
  BY <1>2 DEF ShiftIn
<1>12. Sends'
  <2>1. ASSUME state' = "SHIFT_LO", NEW i \in 0 .. 63, i >= bits_done'
        PROVE  sreg'[i] = Wire(acc)[i - bits_done']
    <3>1. bits_done' = n + 1 /\ i # 0 /\ i - 1 \in 0 .. 63 /\ i - 1 >= n
          /\ (i - 1) - n = i - bits_done'
      BY <1>2, <1>3, <2>1
    <3>2. sreg[i - 1] = Wire(acc)[(i - 1) - n]
      BY <1>2, <1>3, <3>1 DEF Sends, n
    <3> QED
      BY <1>11, <3>1, <3>2
  <2> QED
    BY <1>2, <1>4, <2>1 DEF Sends
<1>13. ASSUME NEW d \in Dev, cs[d] = 0
       PROVE  Got(spi'[d], store'[d], acc, n + 1)
  <2>1. Got(spi'[d], store[d], acc, n + 1)
    BY <1>3, <1>8, <1>9, <1>13, GotStep
  <2>2. ~acc.we => store'[d] = store[d]
    BY <1>9, <1>13
  <2> QED
    BY <2>1, <2>2 DEF Got
<1>14. Takes'
  BY <1>2, <1>4, <1>5, <1>13 DEF Takes
<1>15. ASSUME NEW d \in Dev, cs[d] = 0, NEW i \in 0 .. 63, i < (n + 1) - 32
       PROVE  sreg'[i] = OutBit(store'[d], acc, (n + 1) - 33 - i)
  <2>1. \A p : OutBit(store'[d], acc, p) = OutBit(store[d], acc, p)
    BY <1>9, <1>15 DEF OutBit
  <2>2. CASE i = 0
    <3>1. n >= 32 /\ (n + 1) - 33 - i = n - 32
      BY <1>3, <1>15, <2>2
    <3>2. spi[d].miso = OutBit(store[d], acc, n - 32)
      BY <1>2, <1>3, <1>15, <3>1 DEF Returns, n
    <3>3. Miso = spi[d].miso
      BY <1>3, <1>8, <1>15 DEF Miso, Dev, Select
    <3> QED
      BY <1>11, <2>1, <2>2, <3>1, <3>2, <3>3
  <2>3. CASE i # 0
    <3>1. i - 1 \in 0 .. 63 /\ i - 1 < n - 32 /\ (n + 1) - 33 - i = n - 33 - (i - 1)
      BY <1>3, <1>15, <2>3
    <3>2. sreg[i - 1] = OutBit(store[d], acc, n - 33 - (i - 1))
      BY <1>3, <1>5, <1>15, <3>1 DEF Returns
    <3> QED
      BY <1>11, <2>1, <2>3, <3>1, <3>2
  <2> QED
    BY <2>2, <2>3
<1>16. Returns'
  <2>1. state' # "SHIFT_HI"
    BY <1>2
  <2>2. ASSUME NEW d \in Dev, cs'[d] = 0, NEW i \in 0 .. 63, i < RisesSoFar' - 32
        PROVE  sreg'[i] = OutBit(store'[d], acc', RisesSoFar' - 33 - i)
    BY <1>2, <1>4, <1>5, <1>15, <2>2
  <2> QED
    BY <2>1, <2>2 DEF Returns
<1> QED
  BY <1>3, <1>5, <1>10, <1>12, <1>14, <1>16

LEMMA WireStep == WireIInv /\ [WireNext]_wireVars => WireIInv'
<1> SUFFICES ASSUME WireIInv, [WireNext]_wireVars
             PROVE  WireIInv'
  OBVIOUS
<1>1. BusIInv' /\ HandshakeIInv
  BY BusStep DEF WireIInv, BusIInv
<1>2. CASE WireIdle
  <2>1. cs' = AllHigh /\ state' = "IDLE"
    BY <1>1, <1>2 DEF WireIdle, WireClocked, Idle, HandshakeIInv, HandshakeInv
  <2> QED
    BY <1>1, <2>1, NothingOnTheWire DEF WireIInv
<1>3. CASE WireAccept   BY <1>1, <1>3, AcceptWire DEF WireIInv
<1>4. CASE WireShiftLo  BY <1>1, <1>4, ShiftLoWire DEF WireIInv
<1>5. CASE WireShiftHi  BY <1>1, <1>5, ShiftHiWire DEF WireIInv
<1>6. CASE WireDone
  <2>1. cs' = AllHigh /\ state' = "POST"
    BY <1>6 DEF WireDone, WireClocked, Done
  <2> QED
    BY <1>1, <2>1, NothingOnTheWire DEF WireIInv
<1>7. CASE WirePost
  <2>1. cs' = AllHigh /\ state' = "IDLE"
    BY <1>1, <1>7 DEF WirePost, WireClocked, Post, HandshakeIInv, HandshakeInv
  <2> QED
    BY <1>1, <2>1, NothingOnTheWire DEF WireIInv
<1>8. CASE WireReset
  <2>1. cs' = AllHigh /\ state' = "IDLE"
    BY <1>8 DEF WireReset, EngineReset
  <2> QED
    BY <1>1, <2>1, NothingOnTheWire DEF WireIInv
<1>9. CASE UNCHANGED wireVars
  BY <1>1, <1>9
     DEF WireIInv, Sends, Takes, Returns, RisesSoFar, wireVars, engineVars, deviceVars
<1> QED
  BY <1>2, <1>3, <1>4, <1>5, <1>6, <1>7, <1>8, <1>9 DEF WireNext, WireTick

LEMMA WireAlways == Spec => []WireIInv
<1>1. WireIInv /\ [Next]_busVars => WireIInv'
  BY WireStep, BusIsWired DEF WireIInv, BusIInv, WireTypes
<1> QED
  BY <1>1, WireInit, PTL DEF Spec

LEMMA DevicesHave == WireIInv => DeviceHasAccess
<1> SUFFICES ASSUME WireIInv, NEW d \in Dev, cs[d] = 0, spi[d].phase = "DATA"
             PROVE  /\ spi[d].we = acc.we
                    /\ spi[d].addr = AddrAfter(acc.addr, (RisesSoFar - 32) \div 8)
  BY DEF DeviceHasAccess, AddrAfter
<1>1. AtBit(spi[d], RisesSoFar) /\ Got(spi[d], store[d], acc, RisesSoFar)
  BY DEF WireIInv, BusIInv, DevicesInStep, Takes
<1>2. RisesSoFar \in Nat
  BY DEF WireIInv, BusIInv, WireTypes, RisesSoFar
<1>3. RisesSoFar >= 32
  BY <1>1, <1>2 DEF AtBit
<1> QED
  BY <1>1, <1>2, <1>3 DEF Got

\* Past the address a device has the command and the address of the access, and
\* has advanced by a byte for every byte of data.
THEOREM DeviceHasAccessAlways == Spec => []DeviceHasAccess
BY DevicesHave, WireAlways, PTL

-----------------------------------------------------------------------------
\* The bus as an abstract port.

LEMMA PortSteps ==
  Port!Next <=> \/ Port!Ask \/ Port!MoveByte \/ Port!Answer
                \/ Port!Acknowledge \/ Port!Abandon
BY DEF Port!Next

\* No device moves a byte but on a rise of SCK.
LEMMA StoreKept ==
  ASSUME BusIInv, DeviceReact, sck' = 0
  PROVE  store' = store
<1>1. \A d \in Dev : store'[d] = store[d]
  BY DEF DeviceReact, Rises
<1>2. store' = [d \in Dev |-> store'[d]] /\ store = [d \in Dev |-> store[d]]
  BY DEF DeviceReact, BusIInv, WireTypes, Store
<1> QED
  BY <1>1, <1>2

LEMMA PortInit == Init => Port!Init
<1> SUFFICES ASSUME Init PROVE Port!Init
  OBVIOUS
<1>1. BytesMoved = 0
  BY DEF Init, EngineInit, BytesMoved, Busy
<1>2. Port!Zeros(32) = Zeros(32)
  BY DEF Port!Zeros, Zeros
<1> QED
  BY <1>1, <1>2 DEF Init, EngineInit, DeviceInit, Port!Init

\* What is left in the shift register after the last bit of a read is the word
\* at the address, its bytes in the order of the addresses, and nothing after
\* that of a write.
LEMMA ReadsWord ==
  ASSUME WireIInv, state = "DONE"
  PROVE  Unpack(sreg, data_bits)
           = IF acc.we THEN Zeros(32)
             ELSE Port!ReadWord(store[acc.dev], acc.addr, Bytes(acc.size))
<1> DEFINE D == 8 * Bytes(acc.size)
           m == store[acc.dev]
<1>1. /\ acc \in Access /\ cs = Select(acc.dev) /\ nbits_total = 32 + D
      /\ Bytes(acc.size) \in {1, 2, 4} /\ bits_done \in 0 .. 63
  BY SizeBits DEF WireIInv, Busy
<1>2. bits_done = nbits_total - 1 /\ data_bits = nbits_total - 32
  BY <1>1 DEF WireIInv, BusIInv, HandshakeIInv, HandshakeInv, Busy
<1>3. RisesSoFar = 32 + D /\ data_bits = D /\ D \in {8, 16, 32}
  BY <1>1, <1>2 DEF RisesSoFar
<1>4. acc.dev \in Dev /\ cs[acc.dev] = 0
  BY <1>1, AccessTypes DEF Select
<1>5. \A i \in 0 .. 63 : i < D => sreg[i] = OutBit(m, acc, D - 1 - i)
  <2> SUFFICES ASSUME NEW i \in 0 .. 63, i < D
               PROVE  sreg[i] = OutBit(m, acc, D - 1 - i)
    OBVIOUS
  <2>1. i < RisesSoFar - 32 /\ RisesSoFar - 33 - i = D - 1 - i
    BY <1>3
  <2> QED
    BY <1>4, <2>1 DEF WireIInv, Returns
<1> HIDE DEF D
<1>6. ASSUME NEW i \in 0 .. 31, i < D
      PROVE  sreg[(D - 8 - 8 * (i \div 8)) + (i % 8)]
               = IF acc.we THEN 0
                 ELSE m[Idx(Plus(acc.addr, 24, i \div 8))][i % 8]
  <2> DEFINE j == (D - 8 - 8 * (i \div 8)) + (i % 8)
  <2>1. j \in 0 .. 63 /\ j < D /\ D - 1 - j = 8 * (i \div 8) + (7 - (i % 8))
    BY <1>3, <1>6
  <2>2. (D - 1 - j) \div 8 = i \div 8 /\ 7 - ((D - 1 - j) % 8) = i % 8
    BY <2>1
  <2> HIDE DEF j
  <2>3. sreg[j] = IF acc.we THEN 0
                  ELSE m[Idx(Plus(acc.addr, 24, i \div 8))][i % 8]
    BY <1>5, <2>1, <2>2 DEF OutBit, DataBit
  <2> QED
    BY <2>3 DEF j
<1> HIDE DEF m
<1>7. Unpack(sreg, D) =
        [i \in 0 .. 31 |->
           IF i < D
             THEN IF acc.we THEN 0
                  ELSE m[Idx(Plus(acc.addr, 24, i \div 8))][i % 8]
             ELSE 0]
  BY <1>6 DEF Unpack
<1>8. \A a : Port!Idx(a) = Idx(a)
  BY DEF Port!Idx, Port!Low, Idx, Low
<1>9. \A k : Port!Plus(acc.addr, 24, k) = Plus(acc.addr, 24, k)
  BY DEF Port!Plus, Port!Increment, Plus, Increment
<1>10. Port!ReadWord(m, acc.addr, Bytes(acc.size)) =
         [i \in 0 .. 31 |->
            IF i < D THEN m[Idx(Plus(acc.addr, 24, i \div 8))][i % 8] ELSE 0]
  BY <1>8, <1>9 DEF Port!ReadWord, D
<1>11. CASE acc.we
  <2>1. Unpack(sreg, D) = [i \in 0 .. 31 |-> 0]
    BY <1>7, <1>11
  <2> QED
    BY <1>3, <1>11, <2>1 DEF Zeros
<1>12. CASE ~acc.we
  <2>1. Unpack(sreg, D) = Port!ReadWord(m, acc.addr, Bytes(acc.size))
    BY <1>7, <1>10, <1>12
  <2> QED
    BY <1>3, <1>12, <2>1 DEF m
<1> QED
  BY <1>11, <1>12

\* What a clock edge of the bus amounts to: nothing, a byte of data on its way,
\* an answer, or the end of one.
Still == UNCHANGED <<ready, rdata, store>> /\ BytesMoved' = BytesMoved

Moves ==
  /\ valid /\ ~ready
  /\ BytesMoved < Bytes(acc.size)
  /\ BytesMoved' = BytesMoved + 1
  /\ store' = IF acc.we
                THEN [store EXCEPT ![acc.dev] =
                        Port!WriteByte(@, acc.addr, BytesMoved, acc.wdata)]
                ELSE store
  /\ UNCHANGED <<ready, rdata>>

Answers ==
  /\ valid /\ ~ready
  /\ BytesMoved = Bytes(acc.size)
  /\ BytesMoved' = 0
  /\ ready' = TRUE
  /\ rdata' = IF acc.we THEN Zeros(32)
              ELSE Port!ReadWord(store[acc.dev], acc.addr, Bytes(acc.size))
  /\ UNCHANGED store

Ends ==
  /\ valid /\ ready
  /\ ready' = FALSE
  /\ UNCHANGED <<rdata, store>>
  /\ BytesMoved' = BytesMoved

Abandons == ready' = FALSE /\ rdata' = Zeros(32) /\ BytesMoved' = 0 /\ UNCHANGED store

\* A bit of the wire is a byte moved at the end of a byte of data, and nothing
\* at any other bit.
LEMMA ShiftHiEffect ==
  ASSUME WireIInv, WireShiftHi
  PROVE  Moves \/ Still
<1> DEFINE n == RisesSoFar
           k == (n - 32) \div 8
<1>1. ShiftHi(Miso) /\ Holds
  BY DEF WireShiftHi, WireClocked
<1>2. /\ state = "SHIFT_HI" /\ state' \in {"DONE", "SHIFT_LO"}
      /\ ready' = FALSE /\ rdata' = rdata
  BY <1>1 DEF ShiftHi
<1>3. /\ acc \in Access /\ valid /\ ~ready /\ Busy /\ bits_done < nbits_total
      /\ nbits_total = 32 + 8 * Bytes(acc.size) /\ Bytes(acc.size) \in {1, 2, 4}
  BY <1>2, SizeBits DEF WireIInv, Busy
<1>4. ready' = ready
  BY <1>2, <1>3 DEF WireIInv, BusIInv, WireTypes
<1>5. Busy'
  BY <1>2 DEF Busy
<1>6. /\ n \in 0 .. 63 /\ n' = n + 1
      /\ store' = [d \in Dev |->
                     IF d = acc.dev /\ n >= 32 /\ n % 8 = 7 /\ acc.we
                       THEN Port!WriteByte(store[d], acc.addr, k, acc.wdata)
                       ELSE store[d]]
  BY ShiftHiWire
<1>7. n < 32 + 8 * Bytes(acc.size)
  <2>1. n = bits_done
    BY <1>2, <1>6 DEF RisesSoFar, WireIInv, BusIInv, WireTypes
  <2> QED
    BY <1>3, <2>1
<1>8. /\ BytesMoved = IF n >= 32 THEN k ELSE 0
      /\ BytesMoved' = IF n' >= 32 THEN (n' - 32) \div 8 ELSE 0
  BY <1>3, <1>5 DEF BytesMoved
<1>9. store \in [Dev -> [Index -> Byte]] /\ acc.dev \in Dev /\ acc.we \in BOOLEAN
  BY <1>3, AccessTypes DEF WireIInv, BusIInv, WireTypes, Store
<1> HIDE DEF n
<1>10. CASE n >= 32 /\ n % 8 = 7
  <2>1. /\ BytesMoved = k /\ BytesMoved' = k + 1
        /\ k < Bytes(acc.size)
    BY <1>3, <1>6, <1>7, <1>8, <1>10
  <2> HIDE DEF k
  <2>2. store' = IF acc.we
                   THEN [store EXCEPT ![acc.dev] =
                           Port!WriteByte(@, acc.addr, BytesMoved, acc.wdata)]
                   ELSE store
    BY <1>6, <1>9, <1>10, <2>1
  <2> QED
    BY <1>2, <1>3, <1>4, <2>1, <2>2 DEF Moves
<1>11. CASE ~(n >= 32 /\ n % 8 = 7)
  <2>1. BytesMoved' = BytesMoved
    BY <1>6, <1>8, <1>11
  <2>2. store' = store
    BY <1>6, <1>9, <1>11
  <2> QED
    BY <1>2, <1>4, <2>1, <2>2 DEF Still
<1> QED
  BY <1>10, <1>11

\* The same for every arm of the engine.
LEMMA TickEffect ==
  ASSUME WireIInv, WireTick
  PROVE  \/ Still /\ ~ready
         \/ Moves
         \/ Answers
         \/ Ends
<1>1. /\ BusIInv /\ HandshakeIInv /\ HandshakeInv
      /\ valid \in BOOLEAN /\ ready \in BOOLEAN /\ acc \in Access
  BY DEF WireIInv, BusIInv, HandshakeIInv
<1>3. CASE WireIdle
  <2>1. /\ Idle /\ DeviceReact /\ Holds
    BY <1>3 DEF WireIdle, WireClocked
  <2>2. /\ state = "IDLE" /\ state' = "IDLE" /\ ready' = FALSE /\ ready = FALSE
        /\ rdata' = rdata /\ sck' = 0
    BY <1>1, <2>1 DEF Idle, HandshakeInv
  <2>3. BytesMoved = 0 /\ BytesMoved' = 0 /\ store' = store
    BY <1>1, <2>1, <2>2, StoreKept DEF BytesMoved, Busy
  <2> QED
    BY <2>1, <2>2, <2>3 DEF Still
<1>4. CASE WireAccept
  <2>1. Accept /\ DeviceReact /\ Holds
    BY <1>4 DEF WireAccept, WireClocked
  <2>2. /\ state = "IDLE" /\ ready = FALSE /\ ready' = FALSE /\ rdata' = rdata
        /\ sck' = 0 /\ bits_done' = 0 /\ state' = "SHIFT_LO"
    BY <1>1, <2>1 DEF Accept, HandshakeInv
  <2>3. BytesMoved = 0 /\ BytesMoved' = 0 /\ store' = store
    BY <1>1, <2>1, <2>2, StoreKept DEF BytesMoved, Busy, RisesSoFar
  <2> QED
    BY <2>1, <2>2, <2>3 DEF Still
<1>5. CASE WireShiftLo
  <2>1. ShiftLo /\ DeviceReact /\ Holds
    BY <1>5 DEF WireShiftLo, WireClocked
  <2>2. /\ state = "SHIFT_LO" /\ state' = "SHIFT_HI" /\ ready = FALSE
        /\ ready' = FALSE /\ rdata' = rdata /\ sck' = 0 /\ bits_done' = bits_done
    BY <1>1, <2>1 DEF ShiftLo, HandshakeInv, Busy
  <2>3. BytesMoved' = BytesMoved /\ store' = store
    BY <1>1, <2>1, <2>2, StoreKept DEF BytesMoved, Busy, RisesSoFar
  <2> QED
    BY <2>1, <2>2, <2>3 DEF Still
<1>6. CASE WireShiftHi
  <2>1. state = "SHIFT_HI"
    BY <1>6 DEF WireShiftHi, WireClocked, ShiftHi
  <2>2. ~ready
    BY <1>1, <2>1 DEF HandshakeInv, Busy
  <2> QED
    BY <1>6, <2>1, <2>2, ShiftHiEffect
<1>7. CASE WireDone
  <2>1. Done /\ DeviceReact /\ Holds
    BY <1>7 DEF WireDone, WireClocked
  <2>2. /\ state = "DONE" /\ state' = "POST" /\ valid /\ ~ready /\ ready' = TRUE
        /\ rdata' = Unpack(sreg, data_bits) /\ sck' = 0
        /\ bits_done = nbits_total - 1
    BY <1>1, <2>1 DEF Done, HandshakeInv, Busy
  <2>3. nbits_total = 32 + 8 * Bytes(acc.size) /\ Bytes(acc.size) \in {1, 2, 4}
        /\ bits_done \in 0 .. 63
    BY <1>1, <2>2, SizeBits DEF Busy
  <2>4. BytesMoved = Bytes(acc.size)
    BY <2>2, <2>3 DEF BytesMoved, Busy, RisesSoFar
  <2>5. BytesMoved' = 0 /\ store' = store
    BY <1>1, <2>1, <2>2, StoreKept DEF BytesMoved, Busy
  <2>6. rdata' = IF acc.we THEN Zeros(32)
                 ELSE Port!ReadWord(store[acc.dev], acc.addr, Bytes(acc.size))
    BY <2>2, ReadsWord
  <2> QED
    BY <2>1, <2>2, <2>4, <2>5, <2>6 DEF Answers
<1>8. CASE WirePost
  <2>1. Post /\ DeviceReact /\ Holds
    BY <1>8 DEF WirePost, WireClocked
  <2>2. /\ state = "POST" /\ state' = "IDLE" /\ valid /\ ready /\ ready' = FALSE
        /\ rdata' = rdata /\ sck' = 0
    BY <1>1, <2>1 DEF Post, HandshakeInv
  <2>3. BytesMoved' = BytesMoved /\ store' = store
    BY <1>1, <2>1, <2>2, StoreKept DEF BytesMoved, Busy
  <2> QED
    BY <2>1, <2>2, <2>3 DEF Ends
<1> QED
  BY <1>3, <1>4, <1>5, <1>6, <1>7, <1>8 DEF WireTick

LEMMA ResetEffect ==
  ASSUME WireIInv, WireReset
  PROVE  Abandons
<1>1. EngineReset /\ DeviceReact /\ BusIInv
  BY DEF WireReset, WireIInv
<1>2. state' = "IDLE" /\ sck' = 0 /\ ready' = FALSE /\ rdata' = Zeros(32)
  BY <1>1 DEF EngineReset
<1>3. BytesMoved' = 0 /\ store' = store
  BY <1>1, <1>2, StoreKept DEF BytesMoved, Busy
<1> QED
  BY <1>2, <1>3 DEF Abandons

LEMMA PortStep == WireIInv /\ [Next]_busVars => [Port!Next]_(Port!portVars)
<1> SUFFICES ASSUME WireIInv, [Next]_busVars
             PROVE  Port!Next \/ UNCHANGED Port!portVars
  OBVIOUS
<1>1. valid \in BOOLEAN /\ ready \in BOOLEAN /\ acc \in Access
  BY DEF WireIInv, BusIInv, HandshakeIInv
<1>2. /\ Port!Zeros(32) = Zeros(32) /\ Port!Word = Word
      /\ Port!Bytes(acc.size) = Bytes(acc.size) /\ Zeros(32) \in Word
  BY ZerosType
     DEF Port!Zeros, Zeros, Port!Word, Word, Port!Bits, Bits, Port!BIT, BIT, Port!Bytes, Bytes
<1>3. CASE Tick
  <2>1. WireTick /\ Requester
    BY <1>1, <1>3, TickIsWired
       DEF Tick, Clocked, TickIdle, TickAccept, TickShiftLo, TickShiftHi, TickDone, TickPost
  <2>2. valid => valid' = ~ready /\ acc' = acc
    BY <2>1 DEF Requester
  <2>3. CASE Still /\ ~ready
    <3>1. CASE valid
      BY <1>1, <2>2, <2>3, <3>1 DEF Still, Port!portVars
    <3>2. CASE ~valid
      <4>1. (valid' = valid /\ acc' = acc) \/ (valid' = TRUE /\ acc' \in Access)
        BY <2>1, <3>2 DEF Requester
      <4> QED
        BY <2>3, <3>2, <4>1, PortSteps DEF Still, Port!Ask, Port!portVars
    <3> QED
      BY <3>1, <3>2
  <2>4. CASE Moves
    <3>1. valid' = valid /\ acc' = acc
      BY <1>1, <2>2, <2>4 DEF Moves
    <3>2. Port!MoveByte
      BY <1>2, <2>4, <3>1 DEF Moves, Port!MoveByte
    <3> QED
      BY <3>2, PortSteps
  <2>5. CASE Answers
    <3>1. valid' = valid /\ acc' = acc
      BY <1>1, <2>2, <2>5 DEF Answers
    <3>2. Port!Answer
      BY <1>2, <2>5, <3>1 DEF Answers, Port!Answer
    <3> QED
      BY <3>2, PortSteps
  <2>6. CASE Ends
    <3>1. valid' = FALSE /\ acc' \in Access
      BY <1>1, <2>2, <2>6 DEF Ends
    <3>2. Port!Acknowledge
      BY <2>6, <3>1 DEF Ends, Port!Acknowledge
    <3> QED
      BY <3>2, PortSteps
  <2> QED
    BY <2>1, <2>3, <2>4, <2>5, <2>6, TickEffect
<1>4. CASE Reset
  <2>1. WireReset /\ valid' = FALSE /\ acc' \in Access
    BY <1>1, <1>4 DEF Reset, WireReset
  <2>2. Port!Abandon
    BY <1>2, <2>1, ResetEffect DEF Abandons, Port!Abandon
  <2> QED
    BY <2>2, PortSteps
<1>5. CASE UNCHANGED busVars
  <2>1. BytesMoved' = BytesMoved
    BY <1>5 DEF busVars, engineVars, BytesMoved, Busy, RisesSoFar
  <2> QED
    BY <1>5, <2>1 DEF busVars, engineVars, deviceVars, Port!portVars
<1> QED
  BY <1>3, <1>4, <1>5 DEF Next

\* The bus, bit by bit and with resets between any two clocks, is the abstract
\* port: every access moves its bytes once and in order, on its own device, and
\* a read answers what the device held.
THEOREM BusImplementsPort == Spec => ImplementsPort
BY PortInit, WireAlways, PortStep, PTL DEF Spec, ImplementsPort, Port!Spec

=============================================================================
