----------------------------- MODULE MCCodeGen -----------------------------
(* Small instances of CodeGen: what the cfg files give its constants.      *)
EXTENDS CodeGen

Cond(a, comp, b) == [a |-> a, b |-> b, comp |-> comp]

RegReg  == {Cond("reg", "<", "reg")}
RegImm  == {Cond("reg", "<", "imm32")}
ImmLeft == {Cond("imm8", comp, "reg") : comp \in Comparisons}

(* Operands the code generator refuses.                                    *)
RegImmOrRefused == RegImm \cup {Cond("imm8", "<", "imm8")}

(* The longer a program, the fewer kinds of statements: two of any kind,   *)
(* three of the control flow, and more without continues, or with          *)
(* conditions on branches and continues only.  A block that owes a         *)
(* statement can have a break.                                             *)
ControlTags == {"loop", "branch", "break", "continue"}

(* A step that keeps to that.                                              *)
InFamily ==
  Len(src') > Len(src) /\ src'[Len(src')].tag \in StatementTags =>
    LET written == {src'[i] : i \in {j \in 1 .. Len(src') : src'[j].tag \in StatementTags}}
    IN \/ StatementCount < 2
       \/ OwesStatement /\ src'[Len(src')].tag = "break" /\ src'[Len(src')].cond = NoCond
       \/ /\ \A s \in written : s.tag \in ControlTags
          /\ \/ StatementCount < 3
             \/ \A s \in written : s.tag # "continue"
             \/ \A s \in written : s.cond # NoCond => s.tag \in {"branch", "continue"}

Straight    == {"straight"}
LoopControl == {"loop", "break"}
Branches    == {"straight", "branch"}
============================================================================
