----------------------------- MODULE QspiEngine -----------------------------
(***************************************************************************)
(* src/src/qspi_shared_engine.v: the master of the serial bus that the     *)
(* flash and the PSRAM share, one action per arm of its state machine and  *)
(* one step per rising edge of clk.  Request wires come from mem.v; `ready`*)
(* and `rdata` are req_ready and req_rdata; cs[d] is pin_cs0 (flash) or    *)
(* pin_cs1 (psram), active low.                                            *)
(***************************************************************************)
EXTENDS Serial

VARIABLES
  valid, acc,   \* the request wires: `valid` and the access it asks for
  state, cs, sck, mosi, ready, rdata, sreg, nbits_total, bits_done, data_bits

engineVars == <<state, cs, sck, mosi, ready, rdata, sreg, nbits_total,
                bits_done, data_bits>>

CMD_READ  == ToBits(3, 8)
CMD_WRITE == ToBits(2, 8)

EngineState == {"IDLE", "SHIFT_LO", "SHIFT_HI", "DONE", "POST"}

AllHigh   == [d \in Dev |-> 1]
Select(x) == [d \in Dev |-> IF d = x THEN 0 ELSE 1]

\* Mutant: the data field packed low byte last, as a big-endian port would.
PreloadBigEndian(we, size, addr, wd) ==
  [i \in 0 .. 63 |->
     IF i >= 56 THEN (IF we THEN CMD_WRITE ELSE CMD_READ)[i - 56]
     ELSE IF i >= 32 THEN addr[i - 32]
     ELSE IF we /\ i >= 32 - DataBits(size) THEN wd[i - (32 - DataBits(size))]
     ELSE 0]

\* {CMD, ADDR, DATA}: the data bytes sit right below the address, the byte of
\* the lowest address first.
Preload(we, size, addr, wd) ==
  [i \in 0 .. 63 |->
     IF i >= 56 THEN (IF we THEN CMD_WRITE ELSE CMD_READ)[i - 56]
     ELSE IF i >= 32 THEN addr[i - 32]
     ELSE IF we /\ i >= 32 - DataBits(size) THEN wd[8 * (3 - (i \div 8)) + (i % 8)]
     ELSE 0]

\* The low n bits of the shift register with their bytes reversed.
Unpack(s, n) ==
  [i \in 0 .. 31 |->
     IF i < n THEN s[(n - 8 - 8 * (i \div 8)) + (i % 8)] ELSE 0]

EngineInit ==
  /\ state = "IDLE"
  /\ cs = AllHigh
  /\ sck = 0
  /\ mosi = 1
  /\ ready = FALSE
  /\ rdata = Zeros(32)
  /\ sreg = Zeros(64)
  \* not reset in the code, and written by Accept before any read
  /\ nbits_total = 0
  /\ bits_done = 0
  /\ data_bits = 0

Idle ==
  /\ state = "IDLE"
  /\ ~valid
  /\ sck' = 0
  /\ ready' = FALSE
  /\ UNCHANGED <<state, cs, mosi, rdata, sreg, nbits_total, bits_done, data_bits>>

\* Mutant: req_rdata cleared when the next request is taken.
AcceptClearsRdata ==
  /\ state = "IDLE"
  /\ valid
  /\ sck' = 0
  /\ cs' = Select(acc.dev)
  /\ data_bits' = DataBits(acc.size)
  /\ nbits_total' = 32 + DataBits(acc.size)
  /\ bits_done' = 0
  /\ sreg' = Preload(acc.we, acc.size, acc.addr, acc.wdata)
  /\ state' = "SHIFT_LO"
  /\ ready' = FALSE
  /\ rdata' = Zeros(32)
  /\ UNCHANGED mosi

Accept ==
  /\ state = "IDLE"
  /\ valid
  /\ sck' = 0
  /\ cs' = Select(acc.dev)
  /\ data_bits' = DataBits(acc.size)
  /\ nbits_total' = 32 + DataBits(acc.size)
  /\ bits_done' = 0
  /\ sreg' = Preload(acc.we, acc.size, acc.addr, acc.wdata)
  /\ state' = "SHIFT_LO"
  /\ ready' = FALSE
  /\ UNCHANGED <<mosi, rdata>>

\* First half of a bit period: SCK low, MOSI set up for the coming rise.
ShiftLo ==
  /\ state = "SHIFT_LO"
  /\ sck' = 0
  /\ mosi' = sreg[63]
  /\ state' = "SHIFT_HI"
  /\ ready' = FALSE
  /\ UNCHANGED <<cs, rdata, sreg, nbits_total, bits_done, data_bits>>

\* Mutant: one bit too many.
LastBitLate == bits_done = nbits_total

LastBit == bits_done + 1 = nbits_total

\* Mutant: MOSI moves on the edge on which the device samples it.
ShiftHiSetsMosi(miso) ==
  /\ state = "SHIFT_HI"
  /\ sck' = 1
  /\ mosi' = sreg[62]
  /\ sreg' = ShiftIn(sreg, miso, 64)
  /\ IF LastBit
       THEN /\ state' = "DONE"
            /\ UNCHANGED bits_done
       ELSE /\ state' = "SHIFT_LO"
            /\ bits_done' = bits_done + 1
  /\ ready' = FALSE
  /\ UNCHANGED <<cs, rdata, nbits_total, data_bits>>

\* Second half: SCK rises, `miso` is sampled into the bottom of the register.
ShiftHi(miso) ==
  /\ state = "SHIFT_HI"
  /\ sck' = 1
  /\ sreg' = ShiftIn(sreg, miso, 64)
  /\ IF LastBit
       THEN /\ state' = "DONE"
            /\ UNCHANGED bits_done
       ELSE /\ state' = "SHIFT_LO"
            /\ bits_done' = bits_done + 1
  /\ ready' = FALSE
  /\ UNCHANGED <<cs, mosi, rdata, nbits_total, data_bits>>

\* Mutant: the answer is published and the engine goes straight to IDLE.
DoneWithoutPost ==
  /\ state = "DONE"
  /\ cs' = AllHigh
  /\ sck' = 0
  /\ rdata' = Unpack(sreg, data_bits)
  /\ ready' = TRUE
  /\ state' = "IDLE"
  /\ UNCHANGED <<mosi, sreg, nbits_total, bits_done, data_bits>>

\* Mutant: a write is posted, so only a read is answered.
DoneAnswersReads ==
  /\ state = "DONE"
  /\ cs' = AllHigh
  /\ sck' = 0
  /\ rdata' = Unpack(sreg, data_bits)
  /\ ready' = ~acc.we
  /\ state' = "POST"
  /\ UNCHANGED <<mosi, sreg, nbits_total, bits_done, data_bits>>

Done ==
  /\ state = "DONE"
  /\ cs' = AllHigh
  /\ sck' = 0
  /\ rdata' = Unpack(sreg, data_bits)
  /\ ready' = TRUE
  /\ state' = "POST"
  /\ UNCHANGED <<mosi, sreg, nbits_total, bits_done, data_bits>>

\* One cycle in which `ready` is seen before IDLE looks at `valid` again.
Post ==
  /\ state = "POST"
  /\ state' = "IDLE"
  /\ ready' = FALSE
  /\ UNCHANGED <<cs, sck, mosi, rdata, sreg, nbits_total, bits_done, data_bits>>

\* Mutant: the chip selects are left out of the reset.
EngineResetKeepsCs ==
  /\ state' = "IDLE"
  /\ sck' = 0
  /\ mosi' = 1
  /\ ready' = FALSE
  /\ rdata' = Zeros(32)
  /\ sreg' = Zeros(64)
  /\ UNCHANGED <<cs, nbits_total, bits_done, data_bits>>

\* rst_n falls.  nbits_total, bits_done and data_bits keep what they held.
EngineReset ==
  /\ state' = "IDLE"
  /\ cs' = AllHigh
  /\ sck' = 0
  /\ mosi' = 1
  /\ ready' = FALSE
  /\ rdata' = Zeros(32)
  /\ sreg' = Zeros(64)
  /\ UNCHANGED <<nbits_total, bits_done, data_bits>>

-----------------------------------------------------------------------------
Busy == state \in {"SHIFT_LO", "SHIFT_HI", "DONE"}

\* Rising edges of SCK in the present transaction.
RisesSoFar == bits_done + (IF state = "DONE" THEN 1 ELSE 0)

\* The bytes of data they have moved, as ExtPort counts them.
BytesMoved ==
  IF Busy /\ RisesSoFar >= 32 THEN (RisesSoFar - 32) \div 8 ELSE 0

=============================================================================
