-------------------------------- MODULE Rv32 --------------------------------
(***************************************************************************)
(* src/src/rv32i_core.v, its combinational half: field extraction,         *)
(* immediates, the ALU and its operand selection, branch conditions, the   *)
(* next PC and the value written back.  Registers and instructions are 32  *)
(* bit vectors; the PC and bus addresses are numbers below 256, the width  *)
(* of `pc` and `mem_addr`.                                                 *)
(***************************************************************************)
EXTENDS BitVec

\* rv32i_defs.vh
OP_LUI    == 55
OP_AUIPC  == 23
OP_JAL    == 111
OP_JALR   == 103
OP_BRANCH == 99
OP_LOAD   == 3
OP_STORE  == 35
OP_IMM    == 19
OP_REG    == 51

Opcode(ir) == Val(Slice(ir, 6, 0), 7)
Rd(ir)     == Val(Slice(ir, 11, 7), 5)
Funct3(ir) == Val(Slice(ir, 14, 12), 3)
Rs1(ir)    == Val(Slice(ir, 19, 15), 5)
Rs2(ir)    == Val(Slice(ir, 24, 20), 5)

ImmI(ir) == [i \in 0 .. 31 |-> IF i < 11 THEN ir[20 + i] ELSE ir[31]]
ImmS(ir) == [i \in 0 .. 31 |-> IF i < 5 THEN ir[7 + i]
                               ELSE IF i < 11 THEN ir[20 + i] ELSE ir[31]]
ImmU(ir) == [i \in 0 .. 31 |-> IF i < 12 THEN 0 ELSE ir[i]]
\* Branch and jump offsets modulo 256: only their low eight bits are built.
ImmB(ir) == Val([i \in 0 .. 7 |-> IF i = 0 THEN 0
                                  ELSE IF i < 5 THEN ir[7 + i] ELSE ir[20 + i]], 8)
ImmJ(ir) == Val([i \in 0 .. 7 |-> IF i = 0 THEN 0 ELSE ir[20 + i]], 8)

Reg(regs, n) == IF n = 0 THEN Zeros(32) ELSE regs[n]

Addr8(v) == Val(v, 8)          \* v[7:0] as a bus address

-----------------------------------------------------------------------------
\* The carry into bit i of a + b + c: made at a lower bit, or c itself, and
\* passed on by every bit between.
Carry(a, b, c, i) ==
  LET passed(lo) == \A k \in lo .. i - 1 : a[k] + b[k] > 0
  IN  IF \/ c = 1 /\ passed(0)
         \/ \E j \in 0 .. i - 1 : a[j] + b[j] = 2 /\ passed(j + 1)
        THEN 1 ELSE 0

\* a + b + c, c the carry in.
AddC(a, b, c) == [i \in 0 .. 31 |-> (a[i] + b[i] + Carry(a, b, c, i)) % 2]

Add(a, b) == AddC(a, b, 0)
Sub(a, b) == AddC(a, [i \in 0 .. 31 |-> 1 - b[i]], 1)

LessU(a, b) == \E i \in 0 .. 31 : /\ a[i] < b[i]
                                  /\ \A j \in i + 1 .. 31 : a[j] = b[j]
LessS(a, b) == IF a[31] # b[31] THEN a[31] = 1 ELSE LessU(a, b)

Flag(p) == ToBits(IF p THEN 1 ELSE 0, 32)

Alu(op, a, b) ==
  LET s == Val(b, 5)
  IN  CASE op = "add"  -> Add(a, b)
        [] op = "sub"  -> Sub(a, b)
        [] op = "sll"  -> [i \in 0 .. 31 |-> IF i >= s THEN a[i - s] ELSE 0]
        [] op = "slt"  -> Flag(LessS(a, b))
        [] op = "sltu" -> Flag(LessU(a, b))
        [] op = "xor"  -> [i \in 0 .. 31 |-> (a[i] + b[i]) % 2]
        [] op = "srl"  -> [i \in 0 .. 31 |-> IF i + s < 32 THEN a[i + s] ELSE 0]
        [] op = "sra"  -> [i \in 0 .. 31 |-> IF i + s < 32 THEN a[i + s] ELSE a[31]]
        [] op = "or"   -> [i \in 0 .. 31 |-> IF a[i] + b[i] = 0 THEN 0 ELSE 1]
        [] op = "and"  -> [i \in 0 .. 31 |-> a[i] * b[i]]

\* alu_op: only ir[30] of funct7 is looked at, and not for SUB's immediate form.
AluOp(ir) ==
  LET f == Funct3(ir)
  IN  IF Opcode(ir) \notin {OP_IMM, OP_REG}
        THEN IF Opcode(ir) = OP_BRANCH THEN "sub" ELSE "add"
        ELSE CASE f = 0 -> IF Opcode(ir) = OP_REG /\ ir[30] = 1 THEN "sub" ELSE "add"
               [] f = 1 -> "sll"
               [] f = 2 -> "slt"
               [] f = 3 -> "sltu"
               [] f = 4 -> "xor"
               [] f = 5 -> IF ir[30] = 1 THEN "sra" ELSE "srl"
               [] f = 6 -> "or"
               [] f = 7 -> "and"

\* alu_y: loads and stores compute their address, everything else a result.
AluY(ir, regs) ==
  LET op == Opcode(ir)
  IN  Alu(AluOp(ir), Reg(regs, Rs1(ir)),
          CASE op \in {OP_IMM, OP_LOAD} -> ImmI(ir)
            [] op = OP_STORE            -> ImmS(ir)
            [] OTHER                    -> Reg(regs, Rs2(ir)))

BranchCond(ir, regs) ==
  LET f == Funct3(ir)
      a == Reg(regs, Rs1(ir))
      b == Reg(regs, Rs2(ir))
  IN  CASE f = 0 -> a = b
        [] f = 1 -> a # b
        [] f = 4 -> LessS(a, b)
        [] f = 5 -> ~LessS(a, b)
        [] f = 6 -> LessU(a, b)
        [] f = 7 -> ~LessU(a, b)
        [] OTHER -> FALSE

\* Mutant: the sequential pc one bit too wide.
NextPcWide(ir, regs, pc) ==
  LET op == Opcode(ir)
      t  == (Addr8(Reg(regs, Rs1(ir))) + Addr8(ImmI(ir))) % 256
  IN  CASE op = OP_JAL  -> (pc + ImmJ(ir)) % 256
        [] op = OP_JALR -> t - (t % 2)
        [] op = OP_BRANCH /\ BranchCond(ir, regs) -> (pc + ImmB(ir)) % 256
        [] OTHER -> pc + 4

NextPc(ir, regs, pc) ==
  LET op == Opcode(ir)
      t  == (Addr8(Reg(regs, Rs1(ir))) + Addr8(ImmI(ir))) % 256
  IN  CASE op = OP_JAL  -> (pc + ImmJ(ir)) % 256
        [] op = OP_JALR -> t - (t % 2)
        [] op = OP_BRANCH /\ BranchCond(ir, regs) -> (pc + ImmB(ir)) % 256
        [] OTHER -> (pc + 4) % 256

\* mem_size of a load or store
AccessSize(ir) ==
  LET f == Funct3(ir) % 4 IN IF f = 0 THEN 0 ELSE IF f = 1 THEN 1 ELSE 2

\* The bits above n are copies of `fill`.
Extend(v, n, fill) == [i \in 0 .. 31 |-> IF i < n THEN v[i] ELSE fill]

LoadValue(ir, rdata) ==
  LET f == Funct3(ir)
  IN  CASE f = 0 -> Extend(rdata, 8, rdata[7])
        [] f = 1 -> Extend(rdata, 16, rdata[15])
        [] f = 4 -> Extend(rdata, 8, 0)
        [] f = 5 -> Extend(rdata, 16, 0)
        [] OTHER -> rdata

\* The register file after write-back.
WriteBack(ir, regs, pc, alu_result, rdata) ==
  LET op == Opcode(ir)
      v  == CASE op = OP_LUI   -> ImmU(ir)
              [] op = OP_AUIPC -> Add(ToBits(pc, 32), ImmU(ir))
              [] op \in {OP_JAL, OP_JALR} -> Add(ToBits(pc, 32), ToBits(4, 32))
              [] op = OP_LOAD  -> LoadValue(ir, rdata)
              [] op \in {OP_IMM, OP_REG} -> alu_result
  IN  IF Rd(ir) = 0 \/ op \notin {OP_LUI, OP_AUIPC, OP_JAL, OP_JALR, OP_LOAD, OP_IMM, OP_REG}
        THEN regs
        ELSE [regs EXCEPT ![Rd(ir)] = v]

=============================================================================
