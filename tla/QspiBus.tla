------------------------------- MODULE QspiBus ------------------------------
(***************************************************************************)
(* The external port as it is built: mem.v's request wires, the engine and *)
(* the two serial memories on one clock.  A step is a rising edge of clk   *)
(* (every register at once, then the edges it causes on the devices' pins) *)
(* or the asynchronous reset, which may come between any two of them.      *)
(***************************************************************************)
EXTENDS SpiRam

CONSTANTS
  MaxAccess,    \* bound: accesses in a behaviour
  MaxResets     \* bound: resets in a behaviour

ASSUME BoundAssumption == MaxAccess \in Nat /\ MaxResets \in Nat

VARIABLES issued, resets        \* counters of the two bounds

busVars == <<valid, acc, engineVars, deviceVars, issued, resets>>

Init ==
  /\ valid = FALSE
  /\ acc \in Access
  /\ EngineInit
  /\ DeviceInit
  /\ issued = 0
  /\ resets = 0

\* The core holds `valid` and the access until the edge at which it sees
\* `ready`, and drops it there; it may raise it again at any later edge.
Requester ==
  \/ /\ valid
     /\ valid' = ~ready
     /\ UNCHANGED <<acc, issued>>
  \/ /\ ~valid
     /\ UNCHANGED <<valid, acc, issued>>
  \/ /\ ~valid
     /\ issued < MaxAccess
     /\ issued' = issued + 1
     /\ valid' = TRUE
     /\ acc' \in Access

Clocked(engineStep) ==
  engineStep /\ DeviceReact /\ Requester /\ UNCHANGED resets

TickIdle    == Clocked(Idle)
TickAccept  == Clocked(Accept)
TickShiftLo == Clocked(ShiftLo)
TickShiftHi == Clocked(ShiftHi(Miso))
TickDone    == Clocked(Done)
TickPost    == Clocked(Post)

Tick == TickIdle \/ TickAccept \/ TickShiftLo \/ TickShiftHi \/ TickDone \/ TickPost

\* rst_n also resets the core, which owns `valid`.
Reset ==
  /\ resets < MaxResets
  /\ resets' = resets + 1
  /\ EngineReset
  /\ DeviceReact
  /\ valid' = FALSE /\ acc' = acc
  /\ UNCHANGED issued

Next == Tick \/ Reset

Spec == Init /\ [][Next]_busVars

\* clk never stops, so a clock edge that would change something happens.
FairSpec == Spec /\ WF_busVars(Tick)

-----------------------------------------------------------------------------
TypeOK ==
  /\ valid \in BOOLEAN
  /\ acc \in Access
  /\ state \in EngineState
  /\ cs \in [Dev -> BIT]
  /\ sck \in BIT /\ mosi \in BIT
  /\ ready \in BOOLEAN
  /\ rdata \in Word
  /\ sreg \in Bits(64)
  /\ nbits_total \in {0, 40, 48, 64}
  /\ data_bits \in {0, 8, 16, 32}
  /\ bits_done \in 0 .. 63
  /\ spi \in [Dev -> DeviceState]
  /\ store \in Store
  /\ issued \in 0 .. MaxAccess
  /\ resets \in 0 .. MaxResets

\* The chip selects follow the access: a device is selected exactly while the
\* engine works for an access that is still asked for, on the device it names,
\* so the two are never selected together, and a transaction nobody asked for
\* (the re-trigger that ST_POST prevents) never begins.
SelectFollowsAccess ==
  \A d \in Dev :
    (cs[d] = 0) <=> (Busy /\ valid /\ acc.dev = d)

\* The inductive form of the handshake between core, engine and bus clock.
HandshakeInv ==
  /\ state = "IDLE" => cs = AllHigh /\ sck = 0 /\ ~ready
  /\ Busy => /\ valid /\ ~ready
             /\ cs = Select(acc.dev)
             /\ data_bits = DataBits(acc.size)
             /\ nbits_total = 32 + data_bits
             /\ bits_done < nbits_total
  /\ state = "SHIFT_LO" => (sck = 1 <=> bits_done > 0)
  /\ state = "SHIFT_HI" => sck = 0
  /\ state = "DONE" => sck = 1 /\ bits_done = nbits_total - 1
  /\ state = "POST" => cs = AllHigh /\ sck = 0 /\ ready /\ valid

\* A device that n rising edges of SCK have reached since it was selected.
AtBit(s, n) ==
  /\ s.bitcnt = n % 8
  /\ s.phase = IF n < 8 THEN "CMD" ELSE IF n < 32 THEN "ADDR" ELSE "DATA"
  /\ s.addr_byte = IF n < 8 THEN 0 ELSE IF n < 32 THEN (n \div 8) - 1 ELSE 3

\* The selected device's own counters agree with the engine's bit count at
\* every bit of the transaction, and the other device stays at rest.
DevicesInStep ==
  \A d \in Dev : AtBit(spi[d], IF cs[d] = 0 THEN RisesSoFar ELSE 0)

\* Once a device has its command and address they are those of the access, and
\* its address has advanced by the data bytes transferred.
DeviceHasAccess ==
  \A d \in Dev :
    cs[d] = 0 /\ spi[d].phase = "DATA" =>
      /\ spi[d].we = acc.we
      /\ spi[d].addr = LET k == (RisesSoFar - 32) \div 8
                       IN  IF k < 4 THEN Plus(acc.addr, 24, k)
                           ELSE Increment(Plus(acc.addr, 24, 3), 24)

\* MOSI never moves on the edge on which SCK rises, nor while SCK stays high,
\* and the select lines move only with SCK low before or after: what the
\* device samples was set up half a bit earlier (SPI mode 0).
MosiSetUp ==
  [][ /\ (sck' = 1 => mosi' = mosi /\ cs' = cs)
      /\ (cs' # cs => sck' = 0) ]_busVars

\* The word an access returned stays on rdata until the next answer, which is
\* when the core has long left the state in which it reads it.
RdataHeld ==
  [][ rdata' # rdata => ready' \/ resets' # resets ]_busVars

\* An access is answered or abandoned by a reset: it never waits for ever.
AccessAnswered == valid ~> ~valid

Port == INSTANCE ExtPort WITH moved <- BytesMoved

\* The bus implements the external port mem.v relies on.
ImplementsPort == Port!Spec

=============================================================================
