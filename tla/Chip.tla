-------------------------------- MODULE Chip --------------------------------
(***************************************************************************)
(* src/src/tt_um_pineapple_one.v with the flash and the PSRAM of the board *)
(* on its pins: the core and the memory of Soc, and in the place of the    *)
(* abstract port the serial engine and both devices, bit by bit.  One step *)
(* is a rising edge of clk for all of them, a change of ui_in, or the      *)
(* asynchronous reset, which may fall between any two bits of an access.   *)
(***************************************************************************)
EXTENDS Soc

VARIABLES
  \* qspi_shared_engine, less `ready`, `rdata`
  eng, cs, sck, mosi, sreg, nbits_total, bits_done, data_bits,
  \* the registers of the devices, less `store`
  spi

busVars  == <<eng, cs, sck, mosi, sreg, nbits_total, bits_done, data_bits, spi>>
chipVars == <<vars, busVars>>

\* The engine's request wires are mem.v's, and its MISO is uio_in[2].
Bus == INSTANCE SpiRam WITH valid <- ext_req_valid, acc <- ext_acc, state <- eng

\* The engine on a clock edge, in whichever state it is.
EngineClock ==
  \/ Bus!Idle \/ Bus!Accept \/ Bus!ShiftLo \/ Bus!ShiftHi(Bus!Miso)
  \/ Bus!Done \/ Bus!Post

\* `moved` is no register of the chip: it counts what the bus has done.
ChipClocked(coreStep) ==
  /\ coreStep
  /\ MemClock
  /\ EngineClock
  /\ Bus!DeviceReact
  /\ moved' = Bus!BytesMoved'
  /\ UNCHANGED <<rom, gpio_in, resets>>

ChipFetch     == ChipClocked(Fetch)
ChipFetchWait == ChipClocked(FetchWait)
ChipDecode    == ChipClocked(Decode)
ChipExec      == ChipClocked(Exec)
ChipMem       == ChipClocked(Mem)
ChipMemWait   == ChipClocked(MemWait)
ChipWb        == ChipClocked(Wb)

ChipTick == \/ ChipFetch \/ ChipFetchWait \/ ChipDecode \/ ChipExec
            \/ ChipMem \/ ChipMemWait \/ ChipWb

ChipPins == Pins /\ UNCHANGED busVars

\* rst_n reaches core, memory and engine at once.  The devices have no reset:
\* they see their select rise, with SCK low.
ChipReset == Reset /\ Bus!EngineReset /\ Bus!DeviceReact

ChipInit == Init /\ Bus!EngineInit /\ Bus!DeviceInit

ChipNext == ChipTick \/ ChipPins \/ ChipReset

ChipSpec == ChipInit /\ [][ChipNext]_chipVars

\* clk never stops.
FairChip == ChipSpec /\ WF_chipVars(ChipTick)

-----------------------------------------------------------------------------
ChipTypeOK ==
  /\ TypeOK
  /\ eng \in Bus!EngineState
  /\ cs \in [Dev -> BIT]
  /\ sck \in BIT /\ mosi \in BIT
  /\ sreg \in Bits(64)
  /\ nbits_total \in {0, 40, 48, 64}
  /\ data_bits \in {0, 8, 16, 32}
  /\ bits_done \in 0 .. 63
  /\ spi \in [Dev -> Bus!DeviceState]

\* uio[0], the select of the flash, is low only while an access to the window
\* waits, with the window handed over to the flash: never in the boot ROM, and
\* not for a moment after a reset.  No write to the flash is under way: a store
\* to the window is a read on the bus, whose data nobody takes.
FlashOnlyWhenHandedOver ==
  cs["flash"] = 0 =>
    /\ flash_mode
    /\ in_load_range(mem_addr)
    /\ cs["psram"] = 1
    /\ spi["flash"].phase = "DATA" => ~spi["flash"].we

\* The chip with the serial bus is the computer with the abstract port: bits of
\* a transfer are stutters, and whatever Soc is proved to do the chip does.
ImplementsSoc == Spec

=============================================================================
