------------------------------- MODULE SpiRam -------------------------------
(***************************************************************************)
(* src/test/spi_ram_model.v: a serial memory that understands the two      *)
(* commands the engine sends (0x03 read, 0x02 write) and auto-increments   *)
(* its address.  One device per chip select.  It has no clock of its own:  *)
(* it reacts to the edges that one step of the engine puts on its pins,    *)
(* which are read off cs, cs', sck and sck'.                               *)
(***************************************************************************)
EXTENDS QspiEngine

VARIABLES
  spi,                 \* the registers of each device
  store                \* `mem`, the bytes each device holds

deviceVars == <<spi, store>>

Phase == {"CMD", "ADDR", "DATA"}

DeviceState ==
  [phase : Phase, bitcnt : 0 .. 7, addr_byte : 0 .. 3, addr : Addr24,
   we : BOOLEAN, shift_in : Byte, cur_out : Byte, miso : BIT]

Rises(d)    == sck = 0 /\ sck' = 1 /\ cs'[d] = 0
Falls(d)    == sck = 1 /\ sck' = 0 /\ cs'[d] = 0
Deselect(d) == cs[d] = 0 /\ cs'[d] = 1

\* next_addr: {addr[15:0], shift_in[6:0], mosi}
NextAddr(a, byte) == [i \in 0 .. 23 |-> IF i < 8 THEN byte[i] ELSE a[i - 8]]

\* Mutant: the address is not advanced after a data byte.
SampleNoIncrement(s, bit, m) ==
  LET byte == ShiftIn(s.shift_in, bit, 8)
      next == NextAddr(s.addr, byte)
      got  == [s EXCEPT !.shift_in = byte, !.bitcnt = (s.bitcnt + 1) % 8]
  IN  CASE s.bitcnt < 7 -> got
        [] s.bitcnt = 7 /\ s.phase = "CMD" ->
             [got EXCEPT !.we = (byte = CMD_WRITE), !.phase = "ADDR"]
        [] s.bitcnt = 7 /\ s.phase = "ADDR" ->
             [got EXCEPT !.addr = next,
                         !.phase = IF s.addr_byte = 2 THEN "DATA" ELSE "ADDR",
                         !.cur_out = IF s.addr_byte = 2 THEN m[Idx(next)] ELSE @,
                         !.addr_byte = (s.addr_byte + 1) % 4]
        [] OTHER -> got

\* The registers after a rising SCK with `bit` on MOSI, over memory m.
Sample(s, bit, m) ==
  LET byte == ShiftIn(s.shift_in, bit, 8)
      next == NextAddr(s.addr, byte)
      succ == Increment(s.addr, 24)
      got  == [s EXCEPT !.shift_in = byte, !.bitcnt = (s.bitcnt + 1) % 8]
  IN  CASE s.bitcnt < 7 -> got
        [] s.bitcnt = 7 /\ s.phase = "CMD" ->
             [got EXCEPT !.we = (byte = CMD_WRITE), !.phase = "ADDR"]
        [] s.bitcnt = 7 /\ s.phase = "ADDR" ->
             [got EXCEPT !.addr = next,
                         !.phase = IF s.addr_byte = 2 THEN "DATA" ELSE "ADDR",
                         !.cur_out = IF s.addr_byte = 2 THEN m[Idx(next)] ELSE @,
                         !.addr_byte = (s.addr_byte + 1) % 4]
        [] OTHER ->
             [got EXCEPT !.addr = succ, !.cur_out = m[Idx(succ)]]

\* The memory after that edge: the eighth bit of a data byte of a write.
Commit(s, bit, m) ==
  IF s.bitcnt = 7 /\ s.phase = "DATA" /\ s.we
    THEN [m EXCEPT ![Idx(s.addr)] = ShiftIn(s.shift_in, bit, 8)]
    ELSE m

\* A falling SCK puts the next bit of cur_out on MISO during a read's data.
Drive(s) ==
  [s EXCEPT !.miso = IF s.phase = "DATA" /\ ~s.we
                       THEN s.cur_out[7 - s.bitcnt] ELSE 0]

\* Mutant: the bit counter survives the release of the chip select.
ReleaseKeepsCount(s) == [s EXCEPT !.phase = "CMD", !.addr_byte = 0, !.miso = 0]

\* CS rises: the device forgets the command in progress.
Release(s) ==
  [s EXCEPT !.phase = "CMD", !.bitcnt = 0, !.addr_byte = 0, !.miso = 0]

DeviceInit ==
  /\ spi \in [Dev -> {[phase |-> "CMD", bitcnt |-> 0, addr_byte |-> 0,
                       addr |-> Zeros(24), we |-> w, shift_in |-> Zeros(8),
                       cur_out |-> Zeros(8), miso |-> 0] : w \in BOOLEAN}]
  /\ store \in InitStore

\* What the edges of this step do to both devices.
DeviceReact ==
  /\ spi' = [d \in Dev |->
               IF Rises(d) THEN Sample(spi[d], mosi', store[d])
               ELSE IF Falls(d) THEN Drive(spi[d])
               ELSE IF Deselect(d) THEN Release(spi[d])
               ELSE spi[d]]
  /\ store' = [d \in Dev |->
                 IF Rises(d) THEN Commit(spi[d], mosi', store[d]) ELSE store[d]]

\* The shared MISO line: driven by the selected device, low when there is none.
Miso ==
  IF cs["flash"] = 0 THEN spi["flash"].miso
  ELSE IF cs["psram"] = 0 THEN spi["psram"].miso
  ELSE 0

=============================================================================
