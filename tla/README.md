# Pineapple-TT: a verification project

Pineapple-TT is a small computer for a Tiny Tapeout chip: a multi-cycle RV32I
core, a memory with a boot ROM and 48 bytes of RAM, and one serial engine that
reaches a flash and a PSRAM over a shared SPI bus. Programs come over GPIO (the
bootload protocol), are executed from the RAM or the PSRAM, or page by page out
of the flash through a 44-byte window. The Verilog is in `src/src/`, the device
model and the test benches in `src/test/`, the programs and their assembler in
`src/tools/`.

This directory holds TLA+ models of that system, TLC runs on small instances of
them, and TLAPS proofs for every value of their constants.

## 1. Inventory

### Serial engine: `src/src/qspi_shared_engine.v`
*State*: the FSM (`IDLE`, `SHIFT_LO`, `SHIFT_HI`, `DONE`, `POST`), the shift
register `sreg`, `nbits_total`, `data_bits`, `bits_done`, the pins `cs`, `sck`,
`mosi`, the answer `ready`/`rdata`.
*Operations*: accept a request; drive a bit while SCK is low; sample a bit while
it rises; publish the answer; rest one clock; asynchronous reset.
*Interaction*: request wires from `mem.v`, pins to both devices.
*Correct when*: one transaction per request, on the device it names; the devices
see stable data at every rising edge; the answer is the word at the address in
little-endian byte order and stays put until the core has read it; it always comes.

### Serial memories: `src/test/spi_ram_model.v`
*State*: bit counter, phase (command, address, data), address, one shift
register, the array. The real devices are outside the chip; this is the model
the repository's own benches use. *Operations*: react to an edge of CS or SCK.
*Correct when*: their count never departs from the engine's, also after a
transaction cut short by a reset, and a byte is stored whole or not at all.

### Memory: `src/src/mem.v`
*State*: the boot ROM (fixed), `ram_words`, `gpio_out`, `flash_mode`,
`flash_page`. *Operations*: the address decode; the read path; the write path at
every clock edge with `we` up; the request wires to the engine; `mem_ready`.
*Correct when*: bytes, halves and words of any alignment the header allows
behave as bytes; only stores write; the request to the engine never moves while
it is being served; an on-chip access never waits for the engine.

### Core: `src/src/rv32i_core.v`
*State*: seven-state FSM, `pc`, `ir`, `alu_result`, `next_pc`, the register
file, the request registers `mem_addr`, `mem_wdata`, `mem_size`, `mem_we`,
`mem_valid`. *Operations*: one per state. *Correct when*: however long memory
takes, each instruction has exactly the effect the instruction set gives it, once.

### Assembler: `src/tools/asm_pineapple.py`
*State*: words emitted, labels, fixups; `PagedAsm` the current page besides.
*Operations*: an encoder per mnemonic; labels; in `PagedAsm` the two ways to end a
page (`switch_to`, `switch_to_computed`), its padding, the trampoline, the image.
*Correct when*: what a page says is what the core does that runs the image
through the window, although the store that switches pages changes the code
under the pc.

### Boot ROM program and bootload: `src/tools/build_boot_rom.py`
*State*: seven registers of the core, the memory behind the window, the pins;
the host's bit, phase and speed. *Operations*: PSRAM self-test, listen loop,
bit-banged length and data bytes, run; the host raises, lowers, gives up.
*Correct when*: no bit is missed or taken twice, what runs is what was sent, and
a load that was begun is run. There is no acknowledgement: it is a matter of time.

### PS/2 programs: `src/tools/build_ps2_reader.py`, `build_ps2_ascii.py`
*State*: `FLASH_PAGE`, the accumulator, the two prefix flags, the letter, the
pins; the keyboard's bit and clock. *Operations*: one per page. *Correct when*:
no edge of the keyboard is missed; a code is whole; prefixes apply to the next
code and to no other; a code never selects a page that is not its own.

### Display driver: `src/tools/build_st7789_flash_image.py`
*State*: `FLASH_PAGE` and the place in the page, x2 (pins, delay counter), x5
(pixels left), the output pins; the panel's bit counter and shift register.
*Operations*: a page per bit, in two stores; two
delay loops; the ring of the fill colour and its control page. *Interaction*: the
panel is not reset with the chip, and the boot ROM counts on the same four pins.
A reset drives the pins to 0, which selects the panel.
*Correct when*: the panel gets each command, parameter and pixel whole, once, in
order, with DC and MOSI steady at the rise of SCK, and the pauses are kept.

### Test images: `build_flash_handoff_stub.py`, `build_flash_canary.py`, `build_flash_pagetest.py`
*State*: the registers of the core, the window. *Operations*: one word that hands
the window to the flash; a page that shows 42; four pages that show 17, 34, 34,
51, 68, one of them by a computed switch to itself. *Correct when*: bootloaded
through the words of the boot ROM they show their values, in order, and all.

### Other programs
`build_alu_test.py`: a straight line of ALU instructions on a memory of its own.

### Top level: `src/src/tt_um_pineapple_one.v`
No state of its own: core, memory and engine on one clock and one reset, the pins.
*Interaction*: a reset reaches all three at once and the devices not at all.
*Correct when*: engine and core, each right by itself, are right together; the
flash is not selected before a program hands the window over. `src/src/project.v`
is the template's unused example.

### What is hard here
- The handshake is a level, not a pulse: `ready` and `valid` overlap for a clock,
  and an engine that looks too soon sees a second request (`ST_POST`).
- The request wires are combinational over registers of the core *and* of
  `mem.v`, some of which stores change.
- The write path ignores `valid`.
- Reads are consumed one clock after the handshake is over.
- Every memory word is really a pair of words and a shift.
- A reset comes between any two clocks, the devices do not see it, and RAM,
  registers and PSRAM survive it.
- A page switch changes the code under the pc.
- Programs poll pins that a host or a keyboard moves at its own pace, and nothing
  they do tells the other side that an edge was seen.
- A panel keeps the bits it took before the program that talks to it started.
- The encoders cut what does not fit, and say nothing.

`PROJECT.json` lists each such hazard at its line, and the properties against it.

## 2. Modules

| module | models | extends |
|---|---|---|
| `BitVec` | bits, concatenation of the widths in use, `+ 1` | - |
| `Serial` | widths, sizes and bytes of an access; the constants both devices share | `BitVec` |
| `QspiEngine` | `qspi_shared_engine.v`, one action per FSM state, and the reset | `Serial` |
| `SpiRam` | `spi_ram_model.v`, as a reaction to the edges a step makes | `QspiEngine` |
| `QspiBus` | engine, both devices and the requester on one clock | `SpiRam` |
| `ExtPort` | the abstract port: an access moves one byte per step, then is answered | `Serial` |
| `Rv32` | decode, immediates, ALU, branches, write-back, next pc | `Serial` |
| `Asm` | the encoders of class `Asm` | `Rv32` |
| `MemMap` | address decode, word pairs, RAM writes, window address of `mem.v` | `Serial` |
| `ByteMem` | the header comment's promise: regions of bytes and four registers | `MemMap` |
| `MemContract` | on-chip `mem.v` under every store, at every address and size | `ByteMem` |
| `Soc` | core FSM, registers of `mem.v`, the external port; one step per clock | `ByteMem`, `Rv32` |
| `Isa` | the abstract computer: one step per instruction on `ByteMem` | `ByteMem`, `Rv32` |
| `Chip` | the top level: core and memory of `Soc` with the engine and both devices in the place of the port | `Soc`, `SpiRam` |
| `BootRom` | the boot ROM program and its host, in time | `MemMap` |
| `Loader` | the bootload protocol: bytes, no pins and no time | - |
| `PagedFlash` | layout of `PagedAsm`, and the core that runs it through the window | - |
| `Pages` | the paged program as its author wrote it | - |
| `Ps2` | both PS/2 programs page by page, and a keyboard, in time | - |
| `Keys` | what a keyboard program promises about the codes sent | - |
| `St7789` | the display driver page by page, the panel, the boot ROM's counter before | - |
| `Display` | what the driver promises: commands, pauses, pixels | - |
| `Programs` | boot ROM, stub, canary and page test, instruction by instruction | `Asm`, `MemMap` |
| `Bench` | `tb_flash_handoff.v` and `tb_flash_paging.v`: those words on `Isa`, in step with the blocks of `BootRom` | `BootRom`, `Programs` |

An `MC` module gives a module's constants their small values, a `_proofs` module
holds its theorems (`Words_proofs`: what is proved of bit vectors, bytes of memory and
encoded instructions, which three of the others use).

The hardware is two refinements on top of each other: `QspiBus` implements
`ExtPort`, and `Soc`, which uses that port, implements `Isa`. `KeepsPortContract`
says that core and `mem.v` drive the port exactly as `ExtPort` allows, and `Chip`
puts the detailed halves together:

```
   Isa          one step per instruction
    ^  ImplementsIsa
   Soc          one step per clock, the port one byte per step
    |  KeepsPortContract (Soc is a client ExtPort allows)    <--.
  ExtPort       access, bytes, answer                           | ImplementsSoc
    ^  ImplementsPort                                           |
  QspiBus       one step per clock, every pin and register   <- Chip
```

`Soc` does not contain the port's bus: the number of clocks a byte takes there is
abstracted. In `Chip` it is the engine's, and `ImplementsSoc` needs no refinement
mapping but the names: `Chip` has all variables of `Soc` and nine more, and a clock
in which the engine shifts a bit while the core waits is a stutter of `Soc` or its
move of a byte.

The programs are four refinements beside it, each of one program and its world
against a module without its mechanism:

```
  Loader               Pages               Keys               Display
    ^ ImplementsLoader   ^ ImplementsPages   ^ ImplementsKeys   ^ ImplementsDisplay
  BootRom              PagedFlash          Ps2                St7789
```

They take from the hardware what `Soc` and `Isa` establish: an instruction has its
effect once, whatever its fetch costs. `BootRom` uses the address map of `MemMap`.
`Ps2` and `St7789` take from `PagedFlash` that a page does what its code says; how
many instructions each path through a page takes, padding and reserved words
included, `Ps2` counts from the layout.

`Bench` ties the two sides together: it composes `BootRom` with an `Isa` whose ROM
holds the words of `Programs`. Host, blocks and words see the same pins and the
same clock, and `CodeFollowsBlocks` compares them at every read of a pin. The blocks
of `BootRom`, which its proofs are about, are thus what the words in the ROM do: for
every program that starts with the stub, by the theorem `BenchFollows`; and what the
images in the flash show once the stub has run is the theorem `BenchShows`.

### How state and actions correspond to the code
- A step of `QspiBus`, `Soc` and `Chip` is one rising edge of `clk` at which every
  register moves (`Clocked(...)`), or the asynchronous reset. There is an action
  per FSM state: `Accept` and `Idle` for `ST_IDLE`, `ShiftLo`, `ShiftHi`, `Done`,
  `Post`; `Fetch`, `FetchWait`, `Decode`, `Exec`, `Mem`, `MemWait`, `Wb`.
  `MemClock` and `PortClock` are the other always-blocks at that edge; in `Chip`,
  `EngineClock` and the devices' `DeviceReact` take the place of `PortClock`, and
  `moved`, no register, counts the bytes they have moved (`BytesMoved`).
- Verilog vectors are functions from bit positions to bits where bits matter
  (data, addresses on the wire), and numbers where arithmetic does (pc and bus
  addresses, 0..255, always reduced modulo 256).
- `SpiRam` has no clock of its own: its always-blocks hang on edges of `SCK` and
  `CS`, so `DeviceReact` compares those pins before and after the step.
  `DeviceInit` leaves what the devices do not reset open.
- In `QspiBus` the requester keeps `valid` and the access until the edge at
  which it sees `ready`. The core does exactly that; `KeepsPortContract` says so.
- `Soc` chooses the value of a read past the last RAM word from `Garbage`: the
  array has no such word.
- The data of a read request is left out of what the port is asked (`AskedAcc`):
  `sreg` carries it, but the device does not look at it.
- `settled` in `Soc` is a history variable: the devices as the last completed
  instruction left them. `ImplementsIsa` needs it because the bytes of a store
  reach the PSRAM before the instruction is over; a reset in between is `Isa`'s
  reset that keeps a prefix of the store.
- `Isa` has an action `Stray`: an instruction fetched or accessing outside the
  contract of `ByteMem` (a word that is not aligned, an access over the end of a
  region) may do anything. What the code does there is in the findings.
- `BootRom` and `Ps2` count time in instructions, since the programs read pins at
  instructions and not between. An action of the chip runs the code from one
  read of the pins to the next; its effect is at the first of its instructions,
  and `busy` counts the others, while the other side may move. `at` and `page` say
  where the next read is. In `BootRom` an instruction is 7 clocks, and the store
  to the PSRAM stalls for `PsramTime` of them; in `Ps2` every instruction is a
  fetch from the flash. `held` is how long the other side has left its pins
  alone: it never moves sooner than `Hold`, and later if it likes.
- A program of `PagedFlash` is a function from page numbers to pages: code, the
  way the page ends, the next page. Instructions are what they do to the pc, to
  x30 and to the window; a branch goes either way. `Image` lays the words out as
  `PagedAsm` does, `Fetch` takes them back through the window.
- `waiting` in `Ps2` is a history variable, the codes sent and not yet taken.
- In `St7789` an action goes from one store to the pins to the next: nobody looks at
  them in between, and the panel has no clock of its own, so time is left out and
  `Drives` is the store together with what the panel does about it. Selected, it
  takes bits as the bench captures them (`Captures`). Not selected, it drops the byte
  it was taking (`Unselected`), and it has no part in a reset of the chip: so real
  panels do. The bench, which knows of one load after one reset, has neither: it keeps
  its count while CS is high, clears it with `rst_n`, and captures only from START on.
  `count`, `last` and `rested` record what the panel took since the driver was
  started. Registers are signed numbers of 32 bits; `Immediate` and `load_const32` are
  what the encoders leave of a constant.
- `Programs` writes the scripts' words with the encoders of `Asm` and labels as bus
  addresses. Its boot ROM is `src/src/boot_rom_body.vh`, its images are the
  `src/test/flash_*.hex` files, and the sequence of `Display` is
  `src/test/st7789_expected_seq.hex`; the values were compared word by word when the
  modules were written.
- Names are the source's; the operators called Mutant in comments are not part
  of the model: they are plausible mistakes, and replacing the real definition by one
  makes a named property fail.

## 3. What the runs check

### `qspi_bus`: `MCQspiBus.cfg`, 166,809 states
`TypeOK`, and
- `SelectFollowsAccess`: a device is selected exactly while the engine works for
  an access still asked for, so never both, and never for a stale request;
- `HandshakeInv`: what each FSM state implies of pins, counters and handshake;
- `DevicesInStep`: the device's counters are the engine's bit count;
- `DeviceHasAccess`: past the address phase, the device holds the command and
  address of the access, advanced by the bytes moved;
- `MosiSetUp`: SPI mode 0 set-up, on every step;
- `RdataHeld`: `rdata` moves only with an answer or a reset;
- `AccessAnswered`: no access waits for ever;
- `ImplementsPort`: the bus is an `ExtPort`.

*Bounds.* Registers keep their real widths (40, 48 or 64 bits per transaction);
only the device arrays are small, 8 bytes (`IdxBits = 3`), with addresses such
that a transfer wraps at the end and reads what another wrote. `MaxAccess = 2`:
every register that survives a transaction is rewritten by the next, so the
second access already starts from every state a longer history leads to.
`MaxResets = 1`, at any clock of either access, including before the second.
Reads of the flash and reads and writes of the PSRAM, all three sizes; no write
of the flash because `mem.v` never asks for one (`AccessAssumption`).

### `soc`: `MCSoc.cfg`, 4,656 distinct states
`TypeOK`, and
- `WritesAreStores`: `mem_we` is up only for a store waiting in `MEM_WAIT`, with
  that store's address and data. The ungated write path depends on it;
- `ImplementsIsa`: the seven or more clocks of an instruction are one step of `Isa`;
- `KeepsPortContract`: the request wires obey `ExtPort`;
- `Retires`: instructions keep completing.

*Bounds.* The chip's address map, the full register file, 64-byte devices so
that no two window offsets of the two pages alias (`IdxBits = 6`), a reset at
any clock, pins that change between any two clocks over two values (only one
bit is tested). Eight programs, one behaviour each: halves across RAM words and
at the last byte; all sizes on the PSRAM; self-written code in the RAM; the same
in the PSRAM; handing the window to the flash and switching a page under the pc;
polling pins, then executing the pins and the end of the bus; signed and
unsigned branches and an odd jump target; a load past the RAM.
The programs are a sample; all four safety properties are proved for every program
(below).

### `chip`: `MCChip.cfg`, 39,454 distinct states
`ChipTypeOK`, and
- `FlashOnlyWhenHandedOver`: the select of the flash is low only while an access to
  the window waits with the window handed over, the other select high, and no write
  under way (`tt_um_pineapple_one.v:6-8`). It relates a pin of the engine to registers
  of core and memory that move at other clocks, and at a reset;
- `ImplementsSoc`: the chip, bit by bit, is the computer with the abstract port;
- `Retires`: instructions keep completing, with the engine's real number of clocks.

*Bounds.* The chip's address map and the devices of the `soc` run. Two programs, for
each way to use the bus: a half stored in the PSRAM and its bytes loaded back; the
window handed over to the flash, a half loaded from it, and a jump there. A reset at
any clock (`MaxResets = 1`), so between any two bits of any of them. The pins do not
move (no program here reads them; `soc` has pins that do). What core and memory may
do is the `soc` run's question; here it is what they and the engine do together, and
the theorems below are for every program.

### `mem_contract`: `MCMemContract.cfg`, 430 distinct states
`LoadsAreBytes`, `StoresAreBytes`: in every state that one store of any size, at
any of the 256 addresses, can lead to, with or without `FLASH_MODE`, every load
and every store inside the contract behaves as bytes do. All bytes differ, so a
wrong lane shows. One store suffices because both properties quantify over a
further access; `MaxStores` bounds stores to the RAM only. The theorems below
remove the bound.

### `bootload`: `MCBootRom.cfg`, 1,514,630 distinct states
`TypeOK`, and
- `BitsInStep`: whenever the chip reads the clock or the data, host and chip are
  at the same bit of the same byte;
- `ImplementsLoader`: the pins and the memory carry out the protocol of `Loader`;
- `LoadRuns`: a load begun is run, unless the host resets the chip.

*Bounds.* `Hold = 13` is the fastest host that is always understood: 39
instructions for the three levels of a bit, as many as the self-test and the code
after it take. `PsramTime = 13`: a byte to the PSRAM is 40 bits of two clocks and 3
clocks of the engine, 83 clocks, and with the 7 of the instruction itself 13
instructions. `LOAD_BASE = 220` leaves four bytes of RAM behind the window, so that
an image of five bytes ends in the PSRAM; the others are of no byte and of one. A
PSRAM that is there or not; a reset between any two instructions (`MaxResets = 1`;
a further load starts from the same registers a first one may leave).

### `paged_flash`: `MCPagedFlash.cfg`, 291,516 distinct states
`TypeOK`, and
- `StoreAims`: no way through a page reaches its store without the page number;
- `ImplementsPages`: the program runs as written;
- `PagesGoOn`: and does not stop in padding or reserved words.

*Bounds.* Every program of two pages (`PageLimit = 2`) of at most two words each,
with every label, both ways to end a page, equal and unequal arms, in a window of
five words: one word of room, two at most, and the dead word of page 0 and a page
filled to the brim both occur. `InitAim`: x30 holds any page at the start. The
theorem removes all of these bounds.

### `ps2`: `MCPs2.cfg`, 439,322 distinct states
`TypeOK`, and
- `InStep`: a page that waits for a level has it before it or has just got it; the
  other pages run between two frames;
- `ImplementsKeys`: what the pins show follows from the codes, whole and in order;
- `CodesTaken`: a code sent is taken, so the program never waits for an edge that
  has gone.

*Bounds.* The codes are one of each kind: a letter, both prefixes, a key without a
letter, and 255, whose page number would wrap to `EMIT_PAGE`, so the program must
see that it is above the table. The key without a letter (126, Scroll Lock) has as
many ones as any key, six; a one may cost an instruction more than a zero. The
keyboard may send any of them at any time. `Hold = 11`, a page of words, is the least level with which
the properties hold; with 10 an edge is missed. `Gap = 70`, from the rise of the stop
bit to the next start bit, is the least for these codes; with 69 the start bit is
missed after the longest chain of pages, six of them. A code of the table with
seven ones (127) needs 71; the theorem has 72, for every code. The benches use 29
and about 290 (4,000 and 40,000 clocks of about 138 per instruction).

### `st7789`: `MCSt7789.cfg`, 273,447 distinct states
`TypeOK`, and
- `PanelInStep`: panel and program are at the same bit of the same byte, whatever
  was on the pins before the start and wherever a reset came;
- `SteadyAtRise`: DC and MOSI do not move when SCK rises;
- `ImplementsDisplay`: the bytes the panel takes are those of `Display`, and each
  pause is kept;
- `AllFilled`: every pixel is sent in the end.

*Bounds.* A panel of 240x320, with a colour and a MADCTL that make the bytes of a
parameter differ, which those of the script (240x240, 0xF800, 0) do not all. One
pixel, the three of its simulation, and 4097, the least number of which
`load_const32` uses both halves. A delay of 20 rounds, that of the simulation.
`StartAt = 8..15`: the boot ROM's counter has CS high when the host starts the
program. What happens otherwise is a finding. A reset at any step (`MaxResets = 1`;
panel and pins after a second are among those after a first).

### `flash_tests`: `MCBench.cfg`, 6,946 distinct states
- `CodeFollowsBlocks`: at each read of a pin, the words of the ROM are at the label,
  with the registers, memory and pins, of the block of `BootRom`;
- `ShowsInOrder`, `ShowsAll`: the images show their values, each once, and all.

*Bounds.* The two images of the benches, the stub, and a host at the pace of the
`bootload` run (`Hold = 13`, `PsramTime = 13`) that starts in the self-test or in the
demo loop (`StartTimes = {0, 37}`). A bench has one host that waits a fixed time, so
its behaviours are few; `bootload` is where the host is free.

### Findings
Three runs each show that the code does not do what a doc or a comment says.
- `bootload_fast` (`BitsInStep` violated). `src/docs/info.md:100-101` calls the
  receive "a full handshake, no baud-rate matching needed", but the chip answers
  nothing: with levels of 12 instructions, and a host that starts during the
  self-test as the docs allow, the first pulse is missed.
- `st7789_shift` (`PanelInStep` violated). The boot ROM counts on the panel's pins.
  A host that starts the driver when they show 1 leaves one bit in the panel, and
  every byte after it is shifted. The bench captures only after START.
- `st7789_delay` (`DelaysKept` violated). Both pauses load `delay_count` with one
  ADDI, which keeps 12 bits: 2,000,000 becomes 1,152
  (`src/tools/build_st7789_flash_image.py:182-184,209`).

Other disagreements met, with no run of their own:
- At the configured 1 MHz (`src/info.yaml:8`) an instruction from the flash takes about
  138 microseconds, a level of a PS/2 clock 30 to 50: the chip would need more than 50
  MHz for the 11 instructions a level of the `ps2` run. With `Hold = 1` there, levels of
  one whole instruction, TLC finds `InStep` violated at the first edge, for "good enough
  to stay in sync with a well-behaved PS/2 device"
  (`src/tools/build_ps2_reader.py:66-68`). The benches hold each level 4000 clocks.
- `load_const32` "loads an arbitrary (<2**24) 32-bit constant"
  (`build_st7789_flash_image.py:180`), but adds a sign-extended low part without
  correcting the upper one, so it is wrong whenever bit 11 of the value is set (76,800,
  a panel of 240x320, becomes 72,704: 4096 pixels too few) or its upper part is 0x800 or
  more. The 57,600 of the script and the counts of the `st7789` run are loaded right;
  `Loaded` in `St7789_proofs` is the condition.
- A pixel count of 0, which the assertion of `load_const32` allows, runs 2^32 turns of
  the ring.
- A chip with a flash can be set up "to boot straight from flash on every subsequent
  power-cycle, without the host re-pushing anything" (`src/docs/info.md:111-115`;
  the same at `build_boot_rom.py:48-50` and `src/src/mem.v:83-86`). A reset clears
  `FLASH_MODE` (`mem.v:393`) and starts the boot ROM, which waits for a host and never
  sets it: after each power-cycle a host must send the stub. `Init` and `Reset` of
  `Soc`, `Isa`, `BootRom` and `PagedFlash` do what the code does.
- The length byte of a bootload is not checked: the 69th byte of an image goes to
  0xF8 and sets `FLASH_MODE`, which `build_boot_rom.py:50-51` says the boot ROM never
  touches. `BootRom` and its theorems are for images that fit.
- `switch_to(256)` goes to page 0, with no assertion, for "a page can jump to any
  page number" (`asm_pineapple.py:274`). With `PageLimit = 256` and a page 0 of one word
  that switches to page 256, TLC finds `ImplementsPages` violated at the store; `Numbered`
  in `PagedFlash_proofs` is the condition.
- `src/src/mem.v:225-227` says the word index never passes 11 "in practice"; any
  access to the last RAM word computes and reads index 12. Harmless inside the
  contract: `LoadsAreBytes` holds whatever that word reads as.
- `src/src/mem.v:25-26` says writes to the load window are dropped in `FLASH_MODE`. A
  half stored at 0xB3 (scratch, not window) writes its second byte at 0xB4.
- `build_ps2_ascii.py:121-124` calls the latency of a page switch "completely
  irrelevant", but two frames without a pause (`Gap = Hold`) get out of step at the
  benches' 29 instructions a level.
- `switch_to_computed` (`asm_pineapple.py:321-325`) asks for arms of equal length,
  which the layout does not need and its own example does not have.

## 4. Fairness
- `QspiBus`, `Soc`, `Chip`: `WF` of the clock tick; `clk` never stops. The requester, the
  pins and the reset have none. `AccessAnswered` and `Retires` hold with resets at
  any time but finitely often (`MaxResets`); a machine held in reset for ever does
  nothing. The ticks of a stuck device are ticks still: the engine counts clocks
  and does not listen for a device, so an absent device delays nothing.
- `BootRom`: `WF(Chip)`, and `WF` of the host's moves once it has begun a load: a
  host that stops in the middle leaves the chip waiting, in the code too.
- `PagedFlash`: `WF(Core)`; a reset needs none.
- `Ps2`: `WF(Chip)`, and `WF(KeyRise \/ KeyFall)`: a keyboard finishes the frame it
  has begun. No fairness for `KeyPress`.
- `St7789`: `WF(Program)`. The start by the host and the reset need none:
  `AllFilled` is about a driver that runs.
- `Bench`: `WF` of the next step; clock and host both go on, as in the benches.

## 5. What is proved
Every theorem is for all values of the constants satisfying the named
assumptions: address width, initial contents, sets of accesses, programs, images,
times and bounds (`IdxBitsAssumption`, `StoreAssumption`, `AccessAssumption` of
`Serial`, `MapAssumption`, `MemAssumption`, `SocAssumption`, `BoundAssumption` of
`QspiBus`, `BootAssumption`, `PagedAssumption`, `Ps2Assumption`, `PanelAssumption`,
`ColorAssumption`, `DriverAssumption`, `BenchAssumption`). TLC evaluates the
assumptions in the passing runs. Conditions that a run may break on purpose are
hypotheses of the theorems instead: `EveryAccess`, `EnoughTime`, `Numbered`,
`Deselected`, `Loaded`; and so are `Fitting` and `SendsStub`, which only `BenchFollows`
and `BenchShows` need, and `OurTests` and `PagesFit`, which only `BenchShows` does.

`QspiBus_proofs`
- `Handshake`, `SelectSafety`, `MosiSafety`, `RdataSafety`: `HandshakeInv` is
  inductive with the types it reads (`HandshakeIInv`); the other three follow
  from it. `POST` is in the invariant with `ready /\ valid`: it is the clock in
  which the stale request is still visible, and without it `SHIFT_LO => valid`
  is not preserved.
- `TypeCorrect`, `DevicesInStepAlways`: `BusIInv` adds the types and
  `DevicesInStep`. `bits_done < 64` needs the handshake (`bits_done <
  nbits_total`); the counters of the device need the count of rising edges in
  `SHIFT_LO`, `SHIFT_HI` and `DONE`, three cases because the device moves on the
  edge and the engine counts on the next.
- `DeviceHasAccessAlways`, `BusImplementsPort`: what the port promises, `Spec =>
  ImplementsPort`. `WireIInv` adds to `BusIInv` where the bits of the access are:
  `Sends`, which of its bits are still in `sreg`, and which is on MOSI; `Takes`, how much the
  selected device has, with the address advanced by the bytes moved; `Returns`, how
  much of the word has come back. A clock at which the device's eighth data bit is
  in is the port's move of a byte, `DONE` its answer, every other clock a stutter.

`Soc_proofs`
- `SocTypes`: `TypeOK` for every program; `MemClock` and `PortClock` are typed
  once and cited by the seven core steps.
- `WritesSafety`: `WritesAreStores` is inductive with `TypeOK`.
- `PortContract`: `Spec => KeepsPortContract`, a refinement. Its inductive
  invariant is `PortIInv`: types, `WritesAreStores` (so that `flash_mode` and
  `flash_page`, which the request wires depend on, do not change under a
  waiting access), `Waiting` (an access is asked for only in the two wait
  states) and that the access asked for is one of `Access`. The hypothesis
  `EveryAccess` says that `Access` holds every read, and every write of the
  PSRAM: a program may ask for any of them.
- `SocImplementsIsa`: `Spec => ImplementsIsa`, the refinement of the instruction set,
  for every program, with no hypothesis. Its inductive invariant `IsaIInv` says of
  everything that is set in one clock and used in a later one that it is still true
  of the memory then. `FetchAsked` and `AccessAsked`: the request wires are those of
  the fetch, or of the instruction. `StoreMoved`: the devices are those the last
  instruction left, with the first `moved` bytes of the store that waits.
  `AnswerHeld`: `rdata` is the word at the address until the core has taken it.
  `IrIsFetched`: the instruction held is still the one at `pc`. `ResultsHeld`:
  `alu_result` and `next_pc` are still those of the registers. `Steps` sorts the
  steps by what they leave alone, and `StepMaps` maps each: a store is `Isa`'s step
  when its access ends, every other instruction when `pc` moves, a reset is
  `Isa`'s with the bytes moved so far, every other clock a stutter. An instruction
  outside the memory contract is `Stray`, which promises nothing but the ROM.
- `ChipImplementsSoc`, `ChipImplementsIsa`, `FlashSafety`, `ChipTypes`: the top level.
  `QspiBus_proofs` does not fix who asks: `Holds` is all it relies on (while an access
  is asked for and not answered it stays as it is, and an edge with `ready` ends it),
  and `WireNext` is a clock or a reset of engine and devices under any such requester.
  `Soc_proofs` takes an instance of it with the request wires of `mem.v` in the place
  of the requester. `ChipHolds` shows that these wires keep `Holds`: they are
  combinational over registers of core and memory, so this needs the core to wait,
  and `WritesAreStores`, by which nothing writes the mode registers meanwhile.
  `ChipIInv` joins the two invariants, each of which needs the other: the wires'
  steadiness keeps the engine in step, and the engine's `ready` is what moves the
  core. In it `moved` is `BytesMoved`. A
  step is then `Soc`'s step with one of the port's (`Still`, `Moves`, `Answers`,
  `Ends`), or a stutter of `Soc` while the core waits (`CoreWaits`). `FlashSafety` follows:
  the selected device is the one asked for, and `mem.v` asks for the flash only in
  the window. `ChipImplementsIsa` is `SocImplementsIsa` after that.
- The lemmas it needs about data are in `Words_proofs`: `PlusToBits` (the devices,
  counting bit by bit, reach the address of the k-th byte), `RegionFacts`,
  `DeviceAddress`, `RamStore`, `PutNext`.

`Words_proofs`
- `RegistersMean`, `ImmediatesMean`, `ShiftsMean`, `AccessesMean`, `BranchesMean`,
  `JumpsMean`: every mnemonic of `Asm`, for all registers, immediates (any integer)
  and register contents, for every pair of labels on the bus: the word it emits,
  given to the decoder of `Rv32`, names its registers and does its operation with the
  immediate modulo its width, sign-extended. Three layers: what the fields of a word
  are, for each format (`Field` of a joined word, `Signed12`, the scrambled offsets
  of branches and jumps put together again); what the formats do on the core
  (`RegisterFormat`, `ImmediateFormat`, `LoadFormat`, `BranchFormat`, ...), by opcode
  and funct3; the mnemonics. `Sets`, `LoadsFrom`, `StoresTo`, `GoesTo`, `JumpsTo` say
  what one instruction changes and that it changes nothing else.
- Besides the lemmas on bit vectors and memories, what adder, mask, shift and comparison
  do to numbers of eight bits in a word of 32 (`AddNums`, by the carry into bit 8,
  `AndNums`, `OtherNums`).

`MemContract_proofs`
- `MemTypeOK`, `LoadsSafe`, `StoresSafe`: for every ROM, RAM content, data,
  history of stores and address map satisfying `MapAssumption`. The argument is
  per byte: `Words_proofs` shows which lane of which word a part-select of the
  pair yields (`PairLane`, `RamIndex`), that inside the contract the lane
  reached is never in the word that does not exist (`RamLoadBytes`), and that
  replacing a lane changes that byte and no other (`PutLaneLanes`, `ByteOfWord`,
  `StoreByte`, `RamStore`).

`BootRom_proofs`
- `BootImplementsLoader`, `BootBitsInStep`, `BootTypes`, `BootKeepsFlashMode`, under
  `EnoughTime`: images fit (`Careful`), three levels of a bit are no shorter than the
  self-test (`3 * Hold >= 2 * PsramTime + 13`) and than a store with the code around
  it (`3 * Hold >= PsramTime + 22`), and a level than a poll (`Hold >= 8`). With
  `PsramTime = 13` that is `Hold >= 13`, which is exactly where TLC finds the limit.
- The invariant `BootIInv` is `TypeOK`, `BitsInStep` and three more. `BitsInStep`
  alone is not inductive: `Pace` bounds `busy` by what is left of the host's bit,
  so the next read comes before the host is past it. `Place` ties pointer, count
  and bit to one another. `Content` says that the bits received so far are those
  of the image, in the memory and in the accumulator.
- An image may end in the PSRAM: the argument needs that RAM and PSRAM are
  contiguous (`BootAssumption`), as they are on the chip.

- `BenchFollows`: `BenchSpec => []CodeFollowsBlocks`, under `EnoughTime`, `Fitting` (the
  code is no longer than the ROM, and the PSRAM window no larger than the device) and
  `SendsStub` (every image begins with the hand-off stub; what comes after it is
  free). The constants of `MCBench.cfg` satisfy the three. Contents of memory, the
  rest of the image, `Hold`, `PsramTime`, the times of START and the flash images are
  any.
  - The invariant is `BootIInv` and `Follow`: until the stub has run, words and blocks
    are `InPlace`. At a read they agree (`AtRead`). Between two reads the block has
    already done all it does and the words have not, so `Between` says for each block
    which word is next, that `busy` counts the instructions up to the read (with the
    wait of an access that is under way, `stall`), which registers the words have set,
    and what is left to be done to the others.
  - `BootIInv` is needed twice: at `RUN`, that the stub is in the memory
    (`LoadedStarts`), and where a byte is stored, that its address is in RAM or PSRAM.
  - From the bottom up: the instance of the core in `Bench` is `Rv32`'s
    (`InstructionIs`); which word of the ROM is at each pc (`RomLine`, `Fetch`); what the
    core does to small numbers (`AddNums`, `AndNums`, `OtherNums`); where a byte of RAM or
    of the PSRAM is in the devices, and that no two share a place (`PlaceNumber`,
    `PlacesDiffer`); one lemma for each mnemonic the program uses, from the encoder
    theorems (`AddsLine` to `StubLine`); the program, line by line (`SelfTestListing`,
    `MainLoopListing`, `BootloadListing`, `RecvByteListing`); then for each block that
    its read starts it (`SelfTestStarts`, `GotByteStarts`, ...) and that each of its
    instructions goes on with it (`InSelfTestGoes`, `InGotByteGoes`, ...).
- `BenchShows`: `BenchSpec => []ShowsInOrder`, under the same three and two more.
  `OurTests`: the images are the canary and the page test, with the values their benches
  expect. `PagesFit`: the window has room for the longest page, nine words with the
  reserved ones, and the device for four windows. Any such window, not only the 44
  bytes of the run; `MCBench.cfg` satisfies both.
  - `ShowsInOrder` says nothing about where the program is, so the invariant
    `BenchIInv` has a row for every word of the images (`InCanary`, `InFirstPage` to
    `InLastPage`): at this word of this page, this has been shown and these registers
    hold these numbers. Page 1 runs twice, and its rows are in terms of x5, which is all
    that tells the two apart. The padding of a page, as long as the window makes it, is
    one row with a bound place. Before the stub has run the row is `InPlace` of
    `BenchFollows`, with nothing shown yet; `PlaceGoes` and `HandsOn` join the two at the
    second word of the image, where the core is when FLASH_MODE is set.
  - From the bottom up: a fetch in the window reads that word of the image, through the
    page register and the bytes of the device (`FlashLine`); what the pages are when
    they have been padded, for any window (`SwitchedPage`, `ComputedPage`,
    `PageTestWords`, `FirstListing` to `LastListing`); one lemma for each kind of
    instruction (`AtSets`, `AtShows`, `AtTurns`, `AtJumps`, `AtBranchesAway`, ...); then the
    rows, page by page (`FirstPageGoes`, ...). The store to FLASH_PAGE takes effect at
    the next fetch, at the last word of the new page, which jumps to its first:
    `Entering` is those two words.

`PagedFlash_proofs`
- `PagedRefines`, `PagedAims`, `PagedTypes`, under `Numbered` (page numbers fit
  `FLASH_PAGE`): every window of three words or more, every set of programs. The
  invariant is `TypeOK`, the assertion of `_pad_to`, and `StoreAims`; without it the
  step of the store has no page to go to. `FlatImage` takes the image apart into
  pages, `Regions` a page into dead word, code, padding and reserved words.

`Ps2_proofs`
- `Ps2Types`, `Ps2StaysInStep`, `Ps2Refines`, under `EnoughTime` (`Hold >= 11`,
  `Gap >= 72`): every set of codes. The invariant `Ps2IInv` is `Types`, and four
  more: `Pace` bounds what is left of a page's instructions by what is left of the
  keyboard's level, and in the pause between two frames by what the longest chain
  of pages ahead takes; `Bits` says what of the code is in the accumulator;
  `Pending` which codes are sent and not yet taken; `Found` what the pages of the
  chain have established about code, flags and letter. `InStep` follows from
  `Pace`; by itself it says nothing about the next edge.

`St7789_proofs`
- `PanelTypes`, `PanelStaysInStep`, `PinsSteady`, when the host starts the driver
  while the boot ROM shows 8 to 15, so with CS high (`Deselected`), and
  `DriverRefines` when also every constant is what the encoders leave of it
  (`Loaded`). `PanelIInv` adds `Pins`: what is on the pins and which half of a bit
  is next. `DisplayIInv` adds `Tally`: bytes taken against page, ring and pixels
  left. Without the two hypotheses the runs `st7789_shift` and `st7789_delay` are
  counterexamples.

### Model-checked only
The liveness properties (`AccessAnswered`, `Retires`,
`LoadRuns`, `PagesGoOn`, `CodesTaken`, `AllFilled`, `ShowsAll`): liveness under fairness
and ENABLED are outside what the prover supports. So is induction over data: what the
adder of the ALU computes as a number is proved for the numbers of eight bits of which
a boot consists (`AddNums`), where a carry can be followed bit by bit, and not for 32.
Elsewhere the theorems use only that results have the right width, and that core and
`Isa` compute the same one.

## 6. Not modelled
- ALU test program: a straight line of ALU instructions, on a harness memory that
  is not in the design.
- The labels and fixups of `Asm.finalize`: a program here is written with its labels
  resolved, as the arguments of branches and jumps.
- The delay of an instruction in `St7789`: the panel has no upper limit on time.
- A keyboard that is in the middle of a frame when a PS/2 program starts, and edges
  faster than `Hold`: the programs have no way to get in step again.
- Of the top level, the pins that are constants (`uio_oe`, `uio_out[4]`, `uio_out[5]`,
  `uio_out[7]`) and `ena`, which nothing reads.
- Template `project.v`: not part of the design.
- Metastability of the unsynchronised inputs: below a clock-level model. Pins
  here change between edges, and every load or fetch sees one value of each.
- Power-on contents of flip-flops without reset: `InitRegs` and `InitWords` are
  sets of any contents; `alu_result` and `next_pc` are written before they are read.
- Quad modes and a busy flash: neither the engine nor the device model has them.

## 7. Plan
Done, in this order: the serial bus and its abstract port; the memory map; the core
and `Isa`; `BootRom` over the memory map; `PagedFlash`; `Ps2`; `St7789`; `Bench`; the
top level; the theorems of section 5, for every invariant of the runs. To come: a keyboard
in the middle of a frame at the start, if the programs get a time-out.
