------------------------------ MODULE MCDriver ------------------------------
(* A small instance of Driver.                                             *)
EXTENDS Driver

Cond(a, comp, b) == [a |-> a, b |-> b, comp |-> comp]
RegReg == {Cond("reg", "<", "reg")}

(* Every comparison, every length of its code, and operands the code       *)
(* generator refuses.                                                      *)
EveryComparison ==
  RegReg \cup
  {Cond("reg", "<=", "imm8"), Cond("reg", ">", "imm32"), Cond("reg", ">=", "imm64"),
   Cond("reg", "==", "reg"), Cond("reg", "!=", "imm8"), Cond("imm8", "<", "imm8")}

(* No argument, a flag where the file is, and five with a file.            *)
Plain     == <<"prog">>
CodeDump  == <<"--dump-code", "prog">>
WithDumps == <<"--dump-tokens", "--unknown", "--dump-code", "prog">>
NoExec    == <<"--dump-ast", "--no-exec", "prog">>
DumpsOnly == <<"--dump-tokens", "--no-exec", "prog">>
CommandLines ==
  {<<>>, <<"prog", "--no-exec">>, Plain, CodeDump, WithDumps, NoExec, DumpsOnly}

(* The programs are too many for one bound, and what main does with the    *)
(* command line does not depend on them.  So each command line with a file *)
(* has a family of programs: the procedures, the statements, which of them *)
(* may have a condition and which one, and how many statements.            *)
Bounds(names, tags, guarded, conds, statements) ==
  [names |-> names, tags |-> tags, guarded |-> guarded, conds |-> conds,
   statements |-> statements]

LoopTags == {"loop", "branch", "break"}
CallTags == {"call", "return", "branch"}
LoopControl == {"loop", "break", "continue"}
FlatTags == LoopControl \cup {"straight", "longhand"}

Family ==
  Plain     :> Bounds({Main}, LoopTags \cup {"text"}, LoopTags, RegReg, 3) @@
  CodeDump  :> Bounds({Main}, LoopTags, {"branch"}, RegReg, 4) @@
  WithDumps :> Bounds(Names, CallTags, CallTags, RegReg, 2) @@
  NoExec    :> Bounds({Main}, FlatTags, FlatTags, EveryComparison, 2) @@
  DumpsOnly :> Bounds(Names, LoopControl, LoopControl, RegReg, 2)

(* A step that keeps the program in its family.  It bounds what is written *)
(* and nothing else: a list of statements can always end, or go on with a  *)
(* statement it owes.                                                      *)
InFamily ==
  At("compile") =>
    LET f == Family[args]
        s == src'[Len(src')]
    IN /\ todo \cup DOMAIN procedureMap \subseteq f.names
       /\ Len(src') > Len(src) /\ s.tag \in StatementTags =>
            /\ s.tag \in f.tags
            /\ s.cond # NoCond => s.tag \in f.guarded /\ s.cond \in f.conds
            /\ StatementCount < f.statements \/ (OwesStatement /\ s.tag \in SimpleTags)
=============================================================================
