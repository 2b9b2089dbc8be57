-------------------------------- MODULE Asm ---------------------------------
(***************************************************************************)
(* src/tools/asm_pineapple.py, class Asm: the instruction encoders every   *)
(* program of the repository is built with.  Registers and immediates are  *)
(* numbers, negative ones included; an instruction is a 32 bit vector.     *)
(* A branch or jump takes its own address and its target's, which is what  *)
(* finalize() knows when it patches the label in.                          *)
(***************************************************************************)
EXTENDS Rv32

Bit(x, i) == (x \div 2^i) % 2

EncR(funct7, rs2, rs1, funct3, rd, opcode) ==
  [i \in 0 .. 31 |->
     CASE i < 7  -> Bit(opcode, i)
       [] i \in 7 .. 11  -> Bit(rd, i - 7)
       [] i \in 12 .. 14 -> Bit(funct3, i - 12)
       [] i \in 15 .. 19 -> Bit(rs1, i - 15)
       [] i \in 20 .. 24 -> Bit(rs2, i - 20)
       [] i >= 25 -> Bit(funct7, i - 25)]

EncI(imm, rs1, funct3, rd, opcode) ==
  EncR(imm \div 32, imm % 32, rs1, funct3, rd, opcode)

EncS(imm, rs2, rs1, funct3) ==
  EncR(imm \div 32, rs2, rs1, funct3, imm % 32, OP_STORE)

EncU(imm20, rd, opcode) ==
  [i \in 0 .. 31 |-> IF i < 12 THEN EncR(0, 0, 0, 0, rd, opcode)[i]
                     ELSE Bit(imm20, i - 12)]

Branch(funct3, rs1, rs2, at, target) ==
  LET off == target - at
  IN  EncR(64 * Bit(off, 12) + ((off \div 32) % 64), rs2, rs1, funct3,
           2 * ((off \div 2) % 16) + Bit(off, 11), OP_BRANCH)

JAL(rd, at, target) ==
  LET off == target - at
  IN  EncU(2^19 * Bit(off, 20) + 2^9 * ((off \div 2) % 1024)
             + 2^8 * Bit(off, 11) + ((off \div 4096) % 256), rd, OP_JAL)

ADD(rd, rs1, rs2) == EncR(0, rs2, rs1, 0, rd, OP_REG)
SUB(rd, rs1, rs2) == EncR(32, rs2, rs1, 0, rd, OP_REG)
SLL(rd, rs1, rs2) == EncR(0, rs2, rs1, 1, rd, OP_REG)
SLT(rd, rs1, rs2) == EncR(0, rs2, rs1, 2, rd, OP_REG)
SLTU(rd, rs1, rs2) == EncR(0, rs2, rs1, 3, rd, OP_REG)
XOR(rd, rs1, rs2) == EncR(0, rs2, rs1, 4, rd, OP_REG)
SRL(rd, rs1, rs2) == EncR(0, rs2, rs1, 5, rd, OP_REG)
SRA(rd, rs1, rs2) == EncR(32, rs2, rs1, 5, rd, OP_REG)
OR(rd, rs1, rs2)  == EncR(0, rs2, rs1, 6, rd, OP_REG)
AND(rd, rs1, rs2) == EncR(0, rs2, rs1, 7, rd, OP_REG)

ADDI(rd, rs1, imm)  == EncI(imm, rs1, 0, rd, OP_IMM)
SLTI(rd, rs1, imm)  == EncI(imm, rs1, 2, rd, OP_IMM)
SLTIU(rd, rs1, imm) == EncI(imm, rs1, 3, rd, OP_IMM)
XORI(rd, rs1, imm)  == EncI(imm, rs1, 4, rd, OP_IMM)
ORI(rd, rs1, imm)   == EncI(imm, rs1, 6, rd, OP_IMM)
ANDI(rd, rs1, imm)  == EncI(imm, rs1, 7, rd, OP_IMM)
SLLI(rd, rs1, sh)   == EncI(sh % 32, rs1, 1, rd, OP_IMM)
SRLI(rd, rs1, sh)   == EncI(sh % 32, rs1, 5, rd, OP_IMM)
SRAI(rd, rs1, sh)   == EncI(1024 + (sh % 32), rs1, 5, rd, OP_IMM)

LB(rd, rs1, imm)   == EncI(imm, rs1, 0, rd, OP_LOAD)
LH(rd, rs1, imm)   == EncI(imm, rs1, 1, rd, OP_LOAD)
LW(rd, rs1, imm)   == EncI(imm, rs1, 2, rd, OP_LOAD)
LBU(rd, rs1, imm)  == EncI(imm, rs1, 4, rd, OP_LOAD)
LHU(rd, rs1, imm)  == EncI(imm, rs1, 5, rd, OP_LOAD)
JALR(rd, rs1, imm) == EncI(imm, rs1, 0, rd, OP_JALR)
LUI(rd, imm20)     == EncU(imm20, rd, OP_LUI)
AUIPC(rd, imm20)   == EncU(imm20, rd, OP_AUIPC)
SB(rs2, rs1, imm)  == EncS(imm, rs2, rs1, 0)
SH(rs2, rs1, imm)  == EncS(imm, rs2, rs1, 1)
SW(rs2, rs1, imm)  == EncS(imm, rs2, rs1, 2)

BEQ(rs1, rs2, at, target)  == Branch(0, rs1, rs2, at, target)
BNE(rs1, rs2, at, target)  == Branch(1, rs1, rs2, at, target)
BLT(rs1, rs2, at, target)  == Branch(4, rs1, rs2, at, target)
BGE(rs1, rs2, at, target)  == Branch(5, rs1, rs2, at, target)
BLTU(rs1, rs2, at, target) == Branch(6, rs1, rs2, at, target)
BGEU(rs1, rs2, at, target) == Branch(7, rs1, rs2, at, target)

=============================================================================
