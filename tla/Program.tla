------------------------------ MODULE Program ------------------------------
(***************************************************************************)
(* The abstract syntax tree the parser hands to the code generator         *)
(* (parser.h, types.h), written out in program order: a statement is one   *)
(* item, and a procedure, a loop, a branch and an else block are closed by *)
(* an item of their own.  An item keeps its nesting depth, from which the  *)
(* block structure is recovered without recursion, and the code offset at  *)
(* which the compiler was when it reached it.                              *)
(***************************************************************************)
EXTENDS Naturals, Sequences, FiniteSets

(* OperandTag: a register, or an immediate of one of the encoding classes  *)
(* the emitters tell apart.                                                *)
Immediates   == {"imm8", "imm32", "imm64"}
OperandKinds == {"reg"} \cup Immediates

Comparisons == {"<", "<=", ">", ">=", "==", "!="}

(* How two signed 64-bit values compare: all that a condition can observe. *)
Relations == {"lt", "eq", "gt"}

Holds(comp, rel) ==
  \/ rel = "lt" /\ comp \in {"<", "<=", "!="}
  \/ rel = "eq" /\ comp \in {"<=", ">=", "=="}
  \/ rel = "gt" /\ comp \in {">", ">=", "!="}

Converse == [lt |-> "gt", eq |-> "eq", gt |-> "lt"]

Condition == [a : OperandKinds, b : OperandKinds, comp : Comparisons]
NoCond    == [a |-> "none", b |-> "none", comp |-> "none"]

(* Statement tags; "straight" stands for Assignment, Shorthand, Stdout,    *)
(* Push and Pop, whose code has no jump and nothing to patch.              *)
SimpleTags    == {"straight", "longhand", "break", "continue", "return",
                  "call", "text"}
BlockTags     == {"loop", "branch"}
StatementTags == SimpleTags \cup BlockTags
MarkerTags    == {"proc", "else", "end", "endproc"}

NoName == "-"

Item(tag, cond, name, depth, at) ==
  [tag |-> tag, cond |-> cond, name |-> name, depth |-> depth, at |-> at]
Marker(tag, depth, at) == Item(tag, NoCond, NoName, depth, at)

Items(Names) ==
  [tag : StatementTags \cup MarkerTags, cond : Condition \cup {NoCond},
   name : Names \cup {NoName}, depth : Nat, at : Nat]

Least(S)    == CHOOSE x \in S : \A y \in S : x <= y
Greatest(S) == CHOOSE x \in S : \A y \in S : y <= x

----------------------------------------------------------------------------
(* The block structure of a program src.                                   *)

EndsOf(src, i) ==
  {k \in i + 1 .. Len(src) : src[k].tag = "end" /\ src[k].depth = src[i].depth}

MatchEnd(src, i) == Least(EndsOf(src, i))

(* The block statement an "else" or "end" marker belongs to.               *)
Opener(src, k) ==
  Greatest({j \in 1 .. k - 1 : src[j].tag \in BlockTags
                               /\ src[j].depth = src[k].depth})

ElsesOf(src, i) ==
  {k \in i + 1 .. MatchEnd(src, i) :
     src[k].tag = "else" /\ src[k].depth = src[i].depth}

(* Where control goes on when the condition of item i does not hold.       *)
After(src, i) ==
  CASE src[i].tag \in SimpleTags -> i + 1
    [] src[i].tag = "branch" /\ ElsesOf(src, i) # {} -> Least(ElsesOf(src, i)) + 1
    [] OTHER -> MatchEnd(src, i) + 1

ProcOf(src, i) == Greatest({j \in 1 .. i : src[j].tag = "proc"})
EndProcOf(src, i) ==
  Least({k \in i .. Len(src) : src[k].tag = "endproc"})

(* The loops around item i, and the innermost of them: what break and      *)
(* continue refer to.                                                      *)
LoopsAround(src, i) ==
  {j \in ProcOf(src, i) .. i - 1 :
     /\ src[j].tag = "loop"
     /\ \A k \in j + 1 .. i : src[k].depth > src[j].depth}

InLoop(src, i) == LoopsAround(src, i) # {}
InnermostLoop(src, i) == Greatest(LoopsAround(src, i))
============================================================================
