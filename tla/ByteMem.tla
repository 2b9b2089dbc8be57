------------------------------ MODULE ByteMem -------------------------------
(***************************************************************************)
(* The memory as the header of src/src/mem.v describes it to a programmer: *)
(* an array of bytes cut into regions, in which bytes and halves may be at *)
(* any address and words at multiples of four, as long as an access stays  *)
(* inside one region; and four registers at fixed addresses.               *)
(***************************************************************************)
EXTENDS MemMap

RamBytes == [RAM_BASE .. RAM_BASE + RAM_BYTES - 1 -> Byte]

\* ram_words as bytes, each at its bus address.
RamAsBytes(ram_words) ==
  [a \in RAM_BASE .. RAM_BASE + RAM_BYTES - 1 |->
     Lane(ram_words[(a - RAM_BASE) \div 4], (a - RAM_BASE) % 4)]

Region(a, fm) ==
  IF in_rom(a) THEN "rom"
  ELSE IF in_ram(a, fm) THEN "ram"
  ELSE IF in_ext_flash(a, fm) THEN "flash"
  ELSE IF in_ext_psram(a) THEN "psram"
  ELSE "register"

\* What the programmer may do: n bytes from address a.
InContract(a, n, fm) ==
  /\ n = 4 => a % 4 = 0
  /\ \A k \in 0 .. n - 1 :
       a + k \in BusAddr /\ Region(a + k, fm) = Region(a, fm)

\* The byte at address a of the rom, the RAM or the windows on the devices.
ByteAt(rom, ram, store, fm, page, a) ==
  CASE Region(a, fm) = "rom"   -> Lane(rom[a \div 4], a % 4)
    [] Region(a, fm) = "ram"   -> ram[a]
    [] Region(a, fm) = "flash" ->
         store["flash"][Idx(ToBits(page * WINDOW_BYTES + (a - LOAD_BASE), 24))]
    [] Region(a, fm) = "psram" -> store["psram"][Idx(ToBits(a - EXT_PSRAM_BASE, 24))]

\* A register reads the same at every size.
RegisterAt(gpio_out, page, pins, a) ==
  CASE a = LED_OUT    -> Wide(gpio_out)
    [] a = SW_IN      -> Wide(pins)
    [] a = FLASH_PAGE -> ToBits(page, 32)
    [] OTHER          -> Zeros(32)

\* What a load of n bytes at address a returns.
LoadAt(rom, ram, store, fm, page, gpio_out, pins, a, n) ==
  IF Region(a, fm) = "register"
    THEN RegisterAt(gpio_out, page, pins, a)
    ELSE [i \in 0 .. 31 |->
            IF i < 8 * n
              THEN ByteAt(rom, ram, store, fm, page, a + (i \div 8))[i % 8]
              ELSE 0]

\* The RAM after a store of n bytes of wd at address a.
StoreRam(ram, fm, a, n, wd) ==
  IF Region(a, fm) # "ram" THEN ram
  ELSE [b \in DOMAIN ram |->
          IF b - a \in 0 .. n - 1 THEN Lane(wd, b - a) ELSE ram[b]]

\* The PSRAM after the first n bytes of a store to it, n at most 4.
StorePsram(store, fm, a, n, wd) ==
  LET put(m, k) == [m EXCEPT ![Idx(ToBits(a - EXT_PSRAM_BASE + k, 24))] = Lane(wd, k)]
      one   == put(store["psram"], 0)
      two   == put(one, 1)
      three == put(two, 2)
  IN  IF Region(a, fm) # "psram" \/ n = 0 THEN store
      ELSE [store EXCEPT !["psram"] = CASE n = 1 -> one
                                        [] n = 2 -> two
                                        [] n = 3 -> three
                                        [] n = 4 -> put(three, 3)]

=============================================================================
