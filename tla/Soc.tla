-------------------------------- MODULE Soc ---------------------------------
(***************************************************************************)
(* The computer: the state machine of src/src/rv32i_core.v, the registers  *)
(* and the RAM of src/src/mem.v, and the external port as ExtPort promises *)
(* it (QspiBus implements that).  A step is a rising edge of clk, at which *)
(* core, memory and port move together, a change of the input pins, or the *)
(* asynchronous reset.  How many clocks a byte takes on the serial bus is  *)
(* abstracted: the port moves one byte per step.                           *)
(***************************************************************************)
EXTENDS ByteMem, Rv32

CONSTANTS
  Roms,         \* boot ROM images
  InitRegs,     \* contents of the register file at power-on
  InitWords,    \* contents of ram_words at power-on
  GpioIn,       \* values the input pins may have
  Garbage,      \* what a read of a word that is not there may return
  MaxResets     \* bound: resets in a behaviour

VARIABLES
  \* rv32i_core
  state, pc, ir, alu_result, next_pc, regs,
  mem_addr, mem_wdata, mem_size, mem_we, mem_valid,
  \* mem
  rom, ram_words, flash_mode, flash_page, gpio_out, gpio_in,
  \* the external port: ext_ready and ext_rdata, the bytes of the present
  \* access carried out so far, and the devices
  ready, rdata, moved, store,
  \* history: the devices as the last completed instruction left them
  settled,
  resets

ctrlVars == <<state, pc, ir, alu_result, next_pc, regs>>
reqVars  == <<mem_addr, mem_wdata, mem_size, mem_we, mem_valid>>
memVars  == <<ram_words, flash_mode, flash_page, gpio_out>>
portVars == <<ready, rdata, moved, store>>
vars     == <<ctrlVars, reqVars, memVars, portVars, rom, gpio_in, settled, resets>>

ASSUME SocAssumption ==
  /\ Roms \subseteq RomWords
  /\ InitRegs \subseteq [1 .. 31 -> Word]
  /\ InitWords \subseteq RamWords
  /\ GpioIn \subseteq Byte
  /\ Garbage \subseteq Word
  /\ MaxResets \in Nat

CoreState == {"FETCH", "FETCH_WAIT", "DECODE", "EXEC", "MEM", "MEM_WAIT", "WB"}

-----------------------------------------------------------------------------
\* Wires.

ext_req_valid == mem_valid /\ in_ext(mem_addr, flash_mode)

\* The access on the request wires of the engine.
ext_acc ==
  [we    |-> mem_we /\ ~in_ext_flash(mem_addr, flash_mode),
   dev   |-> req_dev(mem_addr, flash_mode),
   addr  |-> ext_addr(mem_addr, flash_mode, flash_page),
   wdata |-> mem_wdata,
   size  |-> mem_size]

\* Mutant: the answer of the port alone, so that an on-chip access waits for it.
MemReadyFromPort == ready

\* Mutant: an external access is not waited for.
MemReadyAlways == TRUE

mem_ready == ext_req_valid => ready

\* The read path; u stands for a word past the end of the RAM.
mem_rdata(u) ==
  CASE in_rom(mem_addr)             -> rom_word(rom, mem_addr)
    [] in_ram(mem_addr, flash_mode) -> ram_word(ram_words, mem_addr, u)
    [] in_ext(mem_addr, flash_mode) -> rdata
    [] mem_addr = LED_OUT           -> Wide(gpio_out)
    [] mem_addr = SW_IN             -> Wide(gpio_in)
    [] mem_addr = FLASH_PAGE        -> ToBits(flash_page, 32)
    [] OTHER                        -> Zeros(32)

-----------------------------------------------------------------------------
\* The memory and the port on a clock edge.

\* The write path is open at every edge that finds mem_we up.
MemClock ==
  IF mem_we /\ in_ram(mem_addr, flash_mode)
    THEN /\ ram_words' = WriteRam(ram_words, mem_addr, mem_size, mem_wdata)
         /\ UNCHANGED <<gpio_out, flash_mode, flash_page>>
    ELSE /\ gpio_out' = IF mem_we /\ mem_addr = LED_OUT
                          THEN Lane(mem_wdata, 0) ELSE gpio_out
         /\ flash_mode' = (flash_mode \/ (mem_we /\ mem_addr = FLASH_MODE))
         /\ flash_page' = IF mem_we /\ mem_addr = FLASH_PAGE
                            THEN Addr8(mem_wdata) ELSE flash_page
         /\ UNCHANGED ram_words

PortClock ==
  LET a == ext_acc
      n == Bytes(mem_size)
  IN  \/ /\ ~ext_req_valid
         /\ UNCHANGED portVars
      \/ /\ ext_req_valid /\ ~ready /\ moved < n
         /\ moved' = moved + 1
         /\ store' = IF a.we
                       THEN [store EXCEPT ![a.dev][Idx(Plus(a.addr, 24, moved))] =
                               Lane(a.wdata, moved)]
                       ELSE store
         /\ UNCHANGED <<ready, rdata>>
      \/ /\ ext_req_valid /\ ~ready /\ moved = n
         /\ moved' = 0
         /\ ready' = TRUE
         /\ rdata' = IF a.we THEN Zeros(32)
                     ELSE [i \in 0 .. 31 |->
                             IF i < 8 * n
                               THEN store[a.dev][Idx(Plus(a.addr, 24, i \div 8))][i % 8]
                               ELSE 0]
         /\ UNCHANGED store
      \/ /\ ext_req_valid /\ ready
         /\ ready' = FALSE
         /\ UNCHANGED <<rdata, moved, store>>

Clocked(coreStep) ==
  /\ coreStep
  /\ MemClock
  /\ PortClock
  /\ UNCHANGED <<rom, gpio_in, resets>>

-----------------------------------------------------------------------------
\* The core on a clock edge, one action per state.

Fetch ==
  /\ state = "FETCH"
  /\ mem_addr' = pc
  /\ mem_we' = FALSE
  /\ mem_size' = 2
  /\ mem_valid' = TRUE
  /\ state' = "FETCH_WAIT"
  /\ UNCHANGED <<pc, ir, alu_result, next_pc, regs, mem_wdata, settled>>

FetchWait ==
  /\ state = "FETCH_WAIT"
  /\ IF mem_ready
       THEN /\ mem_valid' = FALSE
            /\ state' = "DECODE"
       ELSE UNCHANGED <<mem_valid, state>>
  /\ UNCHANGED <<pc, ir, alu_result, next_pc, regs,
                 mem_addr, mem_wdata, mem_size, mem_we, settled>>

Decode ==
  /\ state = "DECODE"
  /\ \E u \in Garbage : ir' = mem_rdata(u)
  /\ state' = "EXEC"
  /\ UNCHANGED <<pc, alu_result, next_pc, regs, reqVars, settled>>

Exec ==
  /\ state = "EXEC"
  /\ alu_result' = AluY(ir, regs)
  /\ next_pc' = NextPc(ir, regs, pc)
  /\ state' = "MEM"
  /\ UNCHANGED <<pc, ir, regs, reqVars, settled>>

Mem ==
  /\ state = "MEM"
  /\ IF Opcode(ir) \in {OP_LOAD, OP_STORE}
       THEN /\ mem_addr' = Addr8(AluY(ir, regs))
            /\ mem_size' = AccessSize(ir)
            /\ mem_we' = (Opcode(ir) = OP_STORE)
            /\ mem_wdata' = IF Opcode(ir) = OP_STORE THEN Reg(regs, Rs2(ir))
                            ELSE mem_wdata
            /\ mem_valid' = TRUE
       ELSE /\ mem_we' = FALSE
            /\ mem_valid' = FALSE
            /\ UNCHANGED <<mem_addr, mem_size, mem_wdata>>
  /\ state' = "MEM_WAIT"
  /\ UNCHANGED <<pc, ir, alu_result, next_pc, regs, settled>>

\* Mutant: the write strobe is left up when the access is over.
MemWaitKeepsWe ==
  /\ state = "MEM_WAIT"
  /\ IF mem_ready
       THEN /\ mem_valid' = FALSE
            /\ state' = "WB"
            /\ settled' = store
       ELSE UNCHANGED <<mem_valid, state, settled>>
  /\ UNCHANGED <<pc, ir, alu_result, next_pc, regs, mem_addr, mem_wdata,
                 mem_size, mem_we>>

MemWait ==
  /\ state = "MEM_WAIT"
  /\ IF mem_ready
       THEN /\ mem_valid' = FALSE
            /\ mem_we' = FALSE
            /\ state' = "WB"
            /\ settled' = store
       ELSE UNCHANGED <<mem_valid, mem_we, state, settled>>
  /\ UNCHANGED <<pc, ir, alu_result, next_pc, regs, mem_addr, mem_wdata, mem_size>>

Wb ==
  /\ state = "WB"
  /\ mem_we' = FALSE
  /\ \E u \in Garbage : regs' = WriteBack(ir, regs, pc, alu_result, mem_rdata(u))
  /\ pc' = next_pc
  /\ state' = "FETCH"
  /\ UNCHANGED <<ir, alu_result, next_pc, mem_addr, mem_wdata, mem_size,
                 mem_valid, settled>>

TickFetch     == Clocked(Fetch)
TickFetchWait == Clocked(FetchWait)
TickDecode    == Clocked(Decode)
TickExec      == Clocked(Exec)
TickMem       == Clocked(Mem)
TickMemWait   == Clocked(MemWait)
TickWb        == Clocked(Wb)

Tick == \/ TickFetch \/ TickFetchWait \/ TickDecode \/ TickExec
        \/ TickMem \/ TickMemWait \/ TickWb

-----------------------------------------------------------------------------
\* The input pins change at any time.
Pins ==
  /\ gpio_in' \in GpioIn
  /\ UNCHANGED <<ctrlVars, reqVars, memVars, portVars, rom, settled, resets>>

\* rst_n falls.  The register file, the RAM, the devices, alu_result and
\* next_pc keep what they held; the port abandons its access.
Reset ==
  /\ resets < MaxResets
  /\ resets' = resets + 1
  /\ state' = "FETCH"
  /\ pc' = 0
  /\ ir' = Zeros(32)
  /\ mem_we' = FALSE
  /\ mem_addr' = 0
  /\ mem_size' = 2
  /\ mem_wdata' = Zeros(32)
  /\ mem_valid' = FALSE
  /\ gpio_out' = Zeros(8)
  /\ flash_mode' = FALSE
  /\ flash_page' = 0
  /\ ready' = FALSE
  /\ rdata' = Zeros(32)
  /\ moved' = 0
  /\ settled' = store
  /\ UNCHANGED <<alu_result, next_pc, regs, ram_words, store, rom, gpio_in>>

Init ==
  /\ state = "FETCH"
  /\ pc = 0
  /\ ir = Zeros(32)
  \* not reset, and written in EXEC before any read
  /\ alu_result = Zeros(32)
  /\ next_pc = 0
  /\ regs \in InitRegs
  /\ mem_addr = 0 /\ mem_wdata = Zeros(32) /\ mem_size = 2
  /\ mem_we = FALSE /\ mem_valid = FALSE
  /\ rom \in Roms
  /\ ram_words \in InitWords
  /\ flash_mode = FALSE /\ flash_page = 0 /\ gpio_out = Zeros(8)
  /\ gpio_in \in GpioIn
  /\ ready = FALSE /\ rdata = Zeros(32) /\ moved = 0
  /\ store \in InitStore
  /\ settled = store
  /\ resets = 0

Next == Tick \/ Pins \/ Reset

Spec == Init /\ [][Next]_vars

\* clk never stops.
FairSpec == Spec /\ WF_vars(Tick)

-----------------------------------------------------------------------------
TypeOK ==
  /\ state \in CoreState
  /\ pc \in BusAddr /\ next_pc \in BusAddr
  /\ ir \in Word /\ alu_result \in Word
  /\ regs \in [1 .. 31 -> Word]
  /\ mem_addr \in BusAddr /\ mem_wdata \in Word /\ mem_size \in Size
  /\ mem_we \in BOOLEAN /\ mem_valid \in BOOLEAN
  /\ rom \in Roms
  /\ ram_words \in RamWords
  /\ flash_mode \in BOOLEAN /\ flash_page \in BusAddr
  /\ gpio_out \in Byte /\ gpio_in \in GpioIn
  /\ ready \in BOOLEAN /\ rdata \in Word /\ moved \in 0 .. 4
  /\ store \in Store /\ settled \in Store
  /\ resets \in 0 .. MaxResets

\* The write path of mem.v is not gated by `valid`: whatever mem_we meets at a
\* clock edge is written.  It is up only while a store waits for its access,
\* at that store's own address and data.
WritesAreStores ==
  mem_we =>
    /\ state = "MEM_WAIT" /\ mem_valid
    /\ Opcode(ir) = OP_STORE
    /\ mem_addr = Addr8(AluY(ir, regs))
    /\ mem_wdata = Reg(regs, Rs2(ir))

\* The core never stops completing instructions, however long the port takes.
Retires == []<>(state = "WB")

Ram == RamAsBytes(ram_words)

\* A store has had its effect when its access is over, one clock before pc
\* moves; every other instruction has it when pc moves.
IsaPc == IF state = "WB" /\ Opcode(ir) = OP_STORE THEN next_pc ELSE pc

Program == INSTANCE Isa WITH pc <- IsaPc, ram <- Ram, store <- settled,
             InitRam <- {RamAsBytes(w) : w \in InitWords}

\* The seven clocks of an instruction, or the hundreds of one that waits for
\* the serial bus, amount to the one step the instruction set promises.
ImplementsIsa == Program!Spec

\* The access asked for, the data of a read left out; any one when none is.
AskedAcc ==
  IF ext_req_valid
    THEN [ext_acc EXCEPT !.wdata = IF ext_acc.we THEN @ ELSE Zeros(32)]
    ELSE CHOOSE a \in Access : TRUE

Port == INSTANCE ExtPort WITH valid <- ext_req_valid, acc <- AskedAcc

\* Core and memory keep their side of the external port: the access never
\* changes while it is asked for, it is withdrawn exactly when it is answered,
\* and it is one that the port was checked with.
KeepsPortContract == Port!Spec

=============================================================================
