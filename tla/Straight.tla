------------------------------ MODULE Straight ------------------------------
(***************************************************************************)
(* The code of the statements CodeGen abstracts to one "straight"          *)
(* instruction, Assignment, Shorthand, Stdout, Push and Pop, of a string   *)
(* output and of a comparison: the instructions the Emit functions of      *)
(* compiler.cpp choose and encode, run one by one.  Words have WordBits    *)
(* bits instead of 64, the immediate fields of 32 and 8 bits have          *)
(* DwordBits and ByteBits.                                                 *)
(***************************************************************************)
EXTENDS Integers, Sequences, SequencesExt

CONSTANTS Regs,        \* the registers modelled, by their number in types.h
          Operands,    \* those of them that statements use
          WordBits, DwordBits, ByteBits,
          Operations,  \* the operations of the statements
          Forms        \* the forms below that statements may have

(* The statement forms the code computes wrongly.  A configuration admits  *)
(* none of them, or the one whose violation it shows:                      *)
(*   "signedDividend"   /= or %= with a negative destination: rdx is       *)
(*                      cleared, not sign-extended (compiler.cpp:581)      *)
(*   "divideByImm"      /= or %= with an immediate: it is taken for the    *)
(*                      number of a stack slot (compiler.cpp:604)          *)
(*   "multiplyByWide"   *= with an immediate of more than 32 bits: it      *)
(*                      overwrites the destination (compiler.cpp:343)      *)
AllForms == {"signedDividend", "divideByImm", "multiplyByWide"}

rax == 0
rcx == 1
rdx == 2
rbx == 3
rsp == 4
rbp == 5
rsi == 6
rdi == 7

(* The order of EmitPushAllRegs.                                           *)
Saved == <<rax, rbx, rcx, rdx, rsi, rdi, rbp, 8, 9, 10, 11, 12, 13, 14, 15>>

AluOperations == {"Add", "Sub", "And", "Or", "Xor"}
AllOperations ==
  AluOperations \cup {"Mov", "Mul", "Div", "Mod", "Cmp", "Out", "Text", "Push", "Pop"}

ASSUME StraightAssumption ==
  /\ {rax, rdx, rbx, rsi, rdi} \subseteq Regs /\ Regs \subseteq ToSet(Saved)
  /\ Operands \subseteq Regs
  /\ 0 < ByteBits /\ ByteBits < DwordBits /\ DwordBits < WordBits
  /\ Operations \subseteq AllOperations /\ Forms \subseteq AllForms

VARIABLES
  stmt,    \* the statement
  before,  \* the registers when it begins
  regs, flags, sp, mem, out,
  pc,      \* instructions executed
  status

vars == <<stmt, before, regs, flags, sp, mem, out, pc, status>>

----------------------------------------------------------------------------
(* Two's complement.                                                       *)
Ints(bits)      == -(2 ^ (bits - 1)) .. 2 ^ (bits - 1) - 1
Low(x, bits)    == x % 2 ^ bits
Signed(x, bits) == Low(x + 2 ^ (bits - 1), bits) - 2 ^ (bits - 1)
Word            == Ints(WordBits)
Wrap(x)         == Signed(x, WordBits)

Bit(x, k) == (x \div 2 ^ k) % 2
Bitwise(F(_, _), x, y) ==
  Wrap(FoldSet(+, 0, {2 ^ k : k \in {j \in 0 .. WordBits - 1 : F(Bit(x, j), Bit(y, j)) = 1}}))

(* The quotient truncated towards zero.                                    *)
Magnitude(x) == IF x < 0 THEN -x ELSE x
Quotient(x, y) ==
  LET q == Magnitude(x) \div Magnitude(y) IN IF (x < 0) = (y < 0) THEN q ELSE -q
Remainder(x, y) == x - y * Quotient(x, y)

Alu(op, x, y) ==
  CASE op = "Add" -> Wrap(x + y)
    [] op = "Sub" -> Wrap(x - y)
    [] op = "And" -> Bitwise(LAMBDA a, b : a * b, x, y)
    [] op = "Or"  -> Bitwise(LAMBDA a, b : a + b - a * b, x, y)
    [] op = "Xor" -> Bitwise(LAMBDA a, b : (a + b) % 2, x, y)

Relation(x, y) == IF x < y THEN "lt" ELSE IF x = y THEN "eq" ELSE "gt"

----------------------------------------------------------------------------
(* Instructions: the opcode, the two register fields of ModRM with the REX *)
(* bit that extends each, and the immediate or stack offset in words.      *)
Ins(opcode, reg, rm, imm) ==
  [opcode |-> opcode, rexR |-> reg \div 8, rexB |-> rm \div 8,
   reg |-> reg % 8, rm |-> rm % 8, imm |-> imm]

Mov(dest, source)     == Ins("mov", source, dest, 0)
MovImm(dest, value)   == Ins("movabs", 0, dest, value)
Load(dest, offset)    == Ins("load", dest, rsp, offset)
Store(offset, source) == Ins("store", source, rsp, offset)
Imul(dest, source)    == Ins("imul", dest, source, 0)
Idiv(divisor)         == Ins("idiv", 7, divisor, 0)
Push(reg)             == Ins("push", 0, reg, 0)
Pop(reg)              == Ins("pop", 0, reg, 0)
Call(reg)             == Ins("call", 2, reg, 0)
Lea(dest, distance)   == Ins("lea", dest, 5, distance)

(* The bytes of the instructions around a lea, whose address counts them.  *)
Size(i) ==
  CASE i.opcode = "lea"             -> 7
    [] i.opcode = "movabs"          -> 10
    [] i.opcode = "call"            -> 2 + i.rexB
    [] i.opcode \in {"push", "pop"} -> 1 + i.rexB
Bytes(code) == FoldLeft(LAMBDA n, i : n + Size(i), 0, code)

(* The opcode for two registers, and the field /digit of opcodes 83 and 81 *)
Opcode == [Add |-> "01", Or |-> "09", And |-> "21", Sub |-> "29",
           Xor |-> "31", Cmp |-> "39"]
Digit  == [Add |-> 0, Or |-> 1, And |-> 4, Sub |-> 5, Xor |-> 6, Cmp |-> 7]

AluReg(op, dest, source) == Ins(Opcode[op], source, dest, 0)

(* Mutant: a scratch register that may be the destination.                 *)
ScratchFixed(dest) == rax
Scratch(dest) == IF dest # rax THEN rax ELSE rbx

AluImm(op, dest, value) ==
  IF value \in Ints(ByteBits) THEN <<Ins("83", Digit[op], dest, Low(value, ByteBits))>>
  ELSE IF value \in Ints(DwordBits) THEN <<Ins("81", Digit[op], dest, Low(value, DwordBits))>>
  ELSE LET tmp == Scratch(dest)
       IN <<Store(-1, tmp), MovImm(tmp, value), AluReg(op, dest, tmp), Load(tmp, -1)>>

ImulImm(dest, source, value) ==
  IF value \in Ints(ByteBits) THEN <<Ins("6B", dest, source, Low(value, ByteBits))>>
  ELSE IF value \in Ints(DwordBits) THEN <<Ins("69", dest, source, Low(value, DwordBits))>>
  ELSE <<MovImm(dest, value), Imul(dest, source)>>

----------------------------------------------------------------------------
(* Statements and their code.                                              *)
Register(r)  == [tag |-> "Register", r |-> r, value |-> 0]
Immediate(v) == [tag |-> "Immediate", r |-> rax, value |-> v]
IsReg(s)     == s.tag = "Register"

Statements == [op : Operations, dest : Operands,
               source : {Register(r) : r \in Operands} \cup {Immediate(v) : v \in Word}]

(* Mutant: rdx still holds whatever it held.                               *)
ClearRdxForgotten == <<>>
ClearRdx          == <<MovImm(rdx, 0)>>

(* rax:rdx and rbx are saved below the stack, as are the operands, which   *)
(* may be those registers, and restored around idiv.                       *)
Division(s, result) ==
  <<Store(-1, rax), Store(-2, rdx), Store(-3, rbx), Store(-4, s.dest)>>
    \o (IF IsReg(s.source) THEN <<Store(-5, s.source.r)>> ELSE <<>>)
    \o ClearRdx
    \o <<Load(rax, -4), Load(rbx, IF IsReg(s.source) THEN -5 ELSE s.source.value),
         Idiv(rbx), Store(-4, result),
         Load(rax, -1), Load(rdx, -2), Load(rbx, -3), Load(s.dest, -4)>>

SavedRegs == SelectSeq(Saved, LAMBDA r : r \in Regs)
PushAll   == [k \in 1 .. Len(SavedRegs) |-> Push(SavedRegs[k])]
PopAll    == [k \in 1 .. Len(SavedRegs) |-> Pop(Reverse(SavedRegs)[k])]

(* The addresses of Print here, for a value and for a text.                *)
PrintValue == 0
PrintText  == 1

Output(source) ==
  LET call == IF IsReg(source) THEN Scratch(source.r) ELSE rax
  IN PushAll
       \o <<MovImm(call, PrintValue)>>
       \o (CASE ~IsReg(source)    -> <<MovImm(rdi, source.value)>>
             [] source.r = rdi    -> <<>>
             [] OTHER             -> <<Mov(rdi, source.r)>>)
       \o <<Call(call)>>
       \o PopAll

(* A text of so many bytes stands between the jump around it, at 0 here,   *)
(* and the code.                                                           *)
TextPtr == 5
OutputText(length) ==
  LET prepare == PushAll \o <<MovImm(rax, PrintText)>>
      from    == TextPtr + length + Bytes(prepare) + 7
  IN prepare \o <<Lea(rdi, TextPtr - from), MovImm(rsi, length), Call(rax)>> \o PopAll

Code(s) ==
  CASE s.op = "Mov" -> <<IF IsReg(s.source) THEN Mov(s.dest, s.source.r)
                                            ELSE MovImm(s.dest, s.source.value)>>
    [] s.op = "Mul" -> IF IsReg(s.source) THEN <<Imul(s.dest, s.source.r)>>
                                          ELSE ImulImm(s.dest, s.dest, s.source.value)
    [] s.op = "Div" -> Division(s, rax)
    [] s.op = "Mod" -> Division(s, rdx)
    [] s.op = "Out" -> Output(s.source)
    [] s.op = "Text" -> OutputText(s.source.value)
    [] s.op = "Push" -> <<Push(s.dest)>>
    [] s.op = "Pop"  -> <<Pop(s.dest)>>
    [] OTHER        -> IF IsReg(s.source) THEN <<AluReg(s.op, s.dest, s.source.r)>>
                                          ELSE AluImm(s.op, s.dest, s.source.value)

Divides(s) == s.op \in {"Div", "Mod"}

(* A bound on the inputs and no guard of the code, which compiles each of  *)
(* these forms: statement s with x in its destination.                     *)
Admitted(s, x) ==
  /\ Divides(s) /\ x < 0 => "signedDividend" \in Forms
  /\ Divides(s) /\ ~IsReg(s.source) => "divideByImm" \in Forms
  /\ s.op = "Mul" /\ ~IsReg(s.source) /\ s.source.value \notin Ints(DwordBits)
       => "multiplyByWide" \in Forms

(* The source of a text is its length; push and pop have none, and an      *)
(* output has no destination.                                              *)
HasSource(s) ==
  /\ s.op = "Text" => ~IsReg(s.source) /\ s.source.value >= 0
  /\ s.op \in {"Push", "Pop"} => s.source = Immediate(0)
  /\ s.op \in {"Out", "Text"} => s.dest = s.source.r

TopWord == Wrap(6)

(* The operands hold any words, the other registers and the word on top of *)
(* the stack words of their own.                                           *)
Init ==
  /\ stmt \in Statements /\ HasSource(stmt)
  /\ \E x, y \in Word :
       /\ before = [r \in Regs |-> IF r = stmt.dest THEN x
                                   ELSE IF IsReg(stmt.source) /\ r = stmt.source.r THEN y
                                   ELSE Wrap(r + 1)]
       /\ Admitted(stmt, x)
  /\ regs = before
  /\ flags = "eq" /\ sp = 0 /\ mem = (0 :> TopWord) /\ out = <<>>
  /\ pc = 0 /\ status = "running"

----------------------------------------------------------------------------
(* The processor.                                                          *)
Here        == Code(stmt)[pc + 1]
Reg         == 8 * Here.rexR + Here.reg
Rm          == 8 * Here.rexB + Here.rm
Fetches(os) == status = "running" /\ pc < Len(Code(stmt)) /\ Here.opcode \in os

Advance == pc' = pc + 1 /\ UNCHANGED <<stmt, before, status>>
Write(r, v) == regs' = [regs EXCEPT ![r] = v]

ExecMov ==
  /\ Fetches({"mov", "movabs"})
  /\ Write(Rm, IF Here.opcode = "mov" THEN regs[Reg] ELSE Here.imm)
  /\ Advance /\ UNCHANGED <<flags, sp, mem, out>>

(* The address counts from the next instruction.                           *)
ExecLea ==
  /\ Fetches({"lea"})
  /\ Write(Reg, TextPtr + stmt.source.value + Bytes(SubSeq(Code(stmt), 1, pc + 1))
                  + Here.imm)
  /\ Advance /\ UNCHANGED <<flags, sp, mem, out>>

ExecStore ==
  /\ Fetches({"store"})
  /\ mem' = (sp + Here.imm :> regs[Reg]) @@ mem
  /\ Advance /\ UNCHANGED <<regs, flags, sp, out>>

(* A word that was not written here may be any.                            *)
ExecLoad ==
  /\ Fetches({"load"})
  /\ \E v \in Word :
       /\ sp + Here.imm \in DOMAIN mem => v = mem[sp + Here.imm]
       /\ Write(Reg, v)
  /\ Advance /\ UNCHANGED <<flags, sp, mem, out>>

Operation(opcode, digit) ==
  CHOOSE op \in AluOperations \cup {"Cmp"} :
    IF opcode \in {"83", "81"} THEN Digit[op] = digit ELSE Opcode[op] = opcode

ExecAlu ==
  /\ Fetches({"01", "09", "21", "29", "31", "39", "83", "81"})
  /\ LET op == Operation(Here.opcode, Here.reg)
         y  == CASE Here.opcode = "83" -> Signed(Here.imm, ByteBits)
                 [] Here.opcode = "81" -> Signed(Here.imm, DwordBits)
                 [] OTHER              -> regs[Reg]
     IN IF op = "Cmp" THEN flags' = Relation(regs[Rm], y) /\ UNCHANGED regs
        ELSE Write(Rm, Alu(op, regs[Rm], y)) /\ UNCHANGED flags
  /\ Advance /\ UNCHANGED <<sp, mem, out>>

ExecImul ==
  /\ Fetches({"imul", "6B", "69"})
  /\ Write(Reg, Wrap(CASE Here.opcode = "6B" -> regs[Rm] * Signed(Here.imm, ByteBits)
                       [] Here.opcode = "69" -> regs[Rm] * Signed(Here.imm, DwordBits)
                       [] OTHER              -> regs[Reg] * regs[Rm]))
  /\ Advance /\ UNCHANGED <<flags, sp, mem, out>>

(* idiv divides rdx:rax, and traps when the quotient is not a word.        *)
Dividend  == regs[rdx] * 2 ^ WordBits + Low(regs[rax], WordBits)
Divisible == regs[Rm] # 0 /\ Quotient(Dividend, regs[Rm]) \in Word

ExecIdiv ==
  /\ Fetches({"idiv"}) /\ Divisible
  /\ regs' = [regs EXCEPT ![rax] = Quotient(Dividend, regs[Rm]),
                          ![rdx] = Remainder(Dividend, regs[Rm])]
  /\ Advance /\ UNCHANGED <<flags, sp, mem, out>>

Trap ==
  /\ Fetches({"idiv"}) /\ ~Divisible
  /\ status' = "trapped"
  /\ UNCHANGED <<stmt, before, regs, flags, sp, mem, out, pc>>

ExecPush ==
  /\ Fetches({"push"})
  /\ sp' = sp - 1
  /\ mem' = (sp - 1 :> regs[Rm]) @@ mem
  /\ Advance /\ UNCHANGED <<regs, flags, out>>

ExecPop ==
  /\ Fetches({"pop"})
  /\ sp' = sp + 1
  /\ Write(Rm, mem[sp])
  /\ Advance /\ UNCHANGED <<flags, mem, out>>

(* Print writes rdi, or the text at rdi of rsi bytes, and leaves any word  *)
(* in the registers that a function need not preserve and below the stack. *)
Volatile == {rax, rcx, rdx, rsi, rdi, 8, 9, 10, 11}

ExecCall ==
  /\ Fetches({"call"}) /\ regs[Rm] \in {PrintValue, PrintText}
  /\ out' = Append(out, IF regs[Rm] = PrintValue THEN regs[rdi] ELSE <<regs[rdi], regs[rsi]>>)
  /\ \E v \in Word : regs' = [r \in Regs |-> IF r \in Volatile THEN v ELSE regs[r]]
  /\ mem' = [a \in {b \in DOMAIN mem : sp <= b} |-> mem[a]]
  /\ Advance /\ UNCHANGED <<flags, sp>>

Finish ==
  /\ status = "running" /\ pc = Len(Code(stmt))
  /\ status' = "finished"
  /\ UNCHANGED <<stmt, before, regs, flags, sp, mem, out, pc>>

Stopped == status # "running" /\ UNCHANGED vars

Next == ExecMov \/ ExecLea \/ ExecStore \/ ExecLoad \/ ExecAlu \/ ExecImul \/ ExecIdiv \/ Trap
          \/ ExecPush \/ ExecPop \/ ExecCall \/ Finish \/ Stopped
Spec == Init /\ [][Next]_vars

----------------------------------------------------------------------------
(* What the statement means.                                               *)
Left    == before[stmt.dest]
Right   == IF IsReg(stmt.source) THEN before[stmt.source.r] ELSE stmt.source.value

Result ==
  CASE stmt.op = "Mov" -> Right
    [] stmt.op = "Mul" -> Wrap(Left * Right)
    [] stmt.op = "Div" -> Quotient(Left, Right)
    [] stmt.op = "Mod" -> Remainder(Left, Right)
    [] stmt.op = "Pop" -> TopWord
    [] OTHER           -> Alu(stmt.op, Left, Right)

(* A statement that finishes has put its result in its destination, left   *)
(* every other register and the stack as they were, scratch registers and  *)
(* the operands of a division included, whichever registers its operands   *)
(* are; a comparison and an output change no register, and Print gets the  *)
(* value, or the place and length of the text; push and pop move one word  *)
(* and the top of the stack.                                               *)
ComputesExactly ==
  status = "finished" =>
    /\ regs = IF stmt.op \in {"Cmp", "Out", "Text", "Push"} THEN before
              ELSE [before EXCEPT ![stmt.dest] = Result]
    /\ stmt.op = "Cmp" => flags = Relation(Left, Right)
    /\ out = CASE stmt.op = "Out"  -> <<Right>>
               [] stmt.op = "Text" -> << <<TextPtr, Right>> >>
               [] OTHER            -> <<>>
    /\ sp = CASE stmt.op = "Push" -> -1 [] stmt.op = "Pop" -> 1 [] OTHER -> 0
    /\ stmt.op = "Push" => mem[-1] = Left
    /\ mem[0] = TopWord /\ \A a \in DOMAIN mem : a <= 0

(* A statement ends in a trap exactly when it divides by zero: whatever    *)
(* the registers of a division are and hold, rdx and rbx included, idiv    *)
(* gets what it needs.  For the forms admitted without signedDividend, as  *)
(* a quotient of two words is then always a word.                          *)
TrapsOnZero ==
  status # "running" => (status = "trapped" <=> Divides(stmt) /\ Right = 0)
============================================================================
