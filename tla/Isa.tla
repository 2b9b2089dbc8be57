-------------------------------- MODULE Isa ---------------------------------
(***************************************************************************)
(* What the computer promises a program: one instruction after another,    *)
(* each of them a single step on registers, byte-addressed memory and      *)
(* output pins, whatever region it is fetched from and however long its    *)
(* access takes.  A reset comes between two instructions, except that it   *)
(* may leave a store to the PSRAM with only the first of its bytes moved.  *)
(* An access outside the contract of ByteMem may do anything.              *)
(***************************************************************************)
EXTENDS ByteMem, Rv32

CONSTANTS
  Roms,         \* boot ROM images
  InitRegs,     \* contents of the register file at power-on
  InitRam,      \* contents of the RAM at power-on, as bytes
  GpioIn        \* values the input pins may have

VARIABLES rom, pc, regs, ram, flash_mode, flash_page, gpio_out, store

isaVars == <<rom, pc, regs, ram, flash_mode, flash_page, gpio_out, store>>

RegFile == [1 .. 31 -> Word]

Init ==
  /\ rom \in Roms
  /\ pc = 0
  /\ regs \in InitRegs
  /\ ram \in InitRam
  /\ flash_mode = FALSE
  /\ flash_page = 0
  /\ gpio_out = Zeros(8)
  /\ store \in InitStore

Load(a, n, pins) ==
  LoadAt(rom, ram, store, flash_mode, flash_page, gpio_out, pins, a, n)

IsAccess(ir) == Opcode(ir) \in {OP_LOAD, OP_STORE}

\* The instruction at pc, when the pins show `pins`.
Fetched(pins) == Load(pc, 4, pins)

Accessed(ir) == Addr8(AluY(ir, regs))
Length(ir)   == Bytes(AccessSize(ir))

Proper(ir) ==
  /\ InContract(pc, 4, flash_mode)
  /\ IsAccess(ir) => \E a \in {Accessed(ir)} : InContract(a, Length(ir), flash_mode)

\* The instruction ir, a load seeing `pins` on the input pins.
Execute(ir, pins) ==
  \E a \in {Accessed(ir)}, wd \in {Reg(regs, Rs2(ir))} :
      /\ Proper(ir)
      /\ pc' = NextPc(ir, regs, pc)
      /\ regs' = WriteBack(ir, regs, pc, AluY(ir, regs),
                           IF Opcode(ir) = OP_LOAD THEN Load(a, Length(ir), pins)
                           ELSE Zeros(32))
      /\ IF Opcode(ir) = OP_STORE
           THEN /\ ram' = StoreRam(ram, flash_mode, a, Length(ir), wd)
                /\ store' = StorePsram(store, flash_mode, a, Length(ir), wd)
                /\ gpio_out' = IF a = LED_OUT THEN Lane(wd, 0) ELSE gpio_out
                /\ flash_mode' = (flash_mode \/ a = FLASH_MODE)
                /\ flash_page' = IF a = FLASH_PAGE THEN Addr8(wd) ELSE flash_page
           ELSE UNCHANGED <<ram, store, gpio_out, flash_mode, flash_page>>
      /\ UNCHANGED rom

Step == \E ir \in {Fetched(now) : now \in GpioIn}, later \in GpioIn : Execute(ir, later)

\* Outside the contract.
Stray ==
  /\ \E pins \in GpioIn : ~Proper(Fetched(pins))
  /\ pc' \in BusAddr
  /\ regs' \in RegFile
  /\ ram' \in RamBytes
  /\ store' \in Store
  /\ gpio_out' \in Byte
  /\ flash_mode' \in BOOLEAN
  /\ flash_page' \in BusAddr
  /\ UNCHANGED rom

\* The registers and the RAM are not reset.
Reset ==
  /\ pc' = 0
  /\ flash_mode' = FALSE
  /\ flash_page' = 0
  /\ gpio_out' = Zeros(8)
  /\ \/ UNCHANGED store
     \/ \E pins \in GpioIn :
          LET ir == Fetched(pins)
          IN  /\ Opcode(ir) = OP_STORE
              /\ \E n \in 1 .. Length(ir) :
                   store' = StorePsram(store, flash_mode, Accessed(ir), n,
                                       Reg(regs, Rs2(ir)))
  /\ UNCHANGED <<rom, regs, ram>>

Next == Step \/ Stray \/ Reset

Spec == Init /\ [][Next]_isaVars

=============================================================================
