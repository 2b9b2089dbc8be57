------------------------------ MODULE MCQspiBus -----------------------------
(***************************************************************************)
(* A small instance of QspiBus at the real widths of its registers: every  *)
(* size of read and write on the devices, at addresses where a transfer    *)
(* runs over the end of the array or into bytes another access wrote.      *)
(***************************************************************************)
EXTENDS QspiBus

Num(bits) == LET v[i \in 0 .. IdxBits] ==
                   IF i = 0 THEN 0 ELSE v[i - 1] + bits[i - 1] * 2^(i - 1)
             IN  v[IdxBits]

\* Distinct bytes in every place of the two devices.
MCInitStore ==
  {[d \in Dev |->
      [x \in Index |-> ToBits((IF d = "flash" THEN 201 ELSE 58) + 37 * Num(x), 8)]]}

Cat(b0, b1, b2, b3) ==
  [i \in 0 .. 31 |-> ToBits(<<b0, b1, b2, b3>>[(i \div 8) + 1], 8)[i % 8]]

MCAccess ==
  [we : {FALSE}, dev : {"flash"}, addr : {ToBits(6, 24)},
   wdata : {Cat(0, 0, 0, 0)}, size : Size]
  \cup
  [we : {FALSE}, dev : {"psram"}, addr : {ToBits(1, 24)},
   wdata : {Cat(0, 0, 0, 0)}, size : Size]
  \cup
  [we : {TRUE}, dev : {"psram"}, addr : {ToBits(2, 24), ToBits(7, 24)},
   wdata : {Cat(17, 34, 68, 130)}, size : Size]

=============================================================================
