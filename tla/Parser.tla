------------------------------- MODULE Parser -------------------------------
(***************************************************************************)
(* Parser::Parse (parser.cpp): recursive descent over the tokens, with one *)
(* token of lookahead and no way back.  The call stack of the functions    *)
(* Parse... is todo, the steps they have still to do, innermost first; a   *)
(* function that starts puts the steps of its body in front.  The token    *)
(* the parser looks at is the last of tokens: the environment chooses the  *)
(* next one when it is passed, so that every token sequence is met that    *)
(* some parse gets to see.                                                 *)
(***************************************************************************)
EXTENDS Naturals, SequencesExt

CONSTANTS Vocabularies,  \* sources: the tokens they use and how many at most
          Registers,     \* register keywords
          Numbers,       \* number tokens
          Texts,         \* string tokens
          Names          \* identifiers

(* A token carries its tag (types.h): no name is the absent one, and no    *)
(* token with a value is the keyword proc.                                 *)
ASSUME ParserAssumption ==
  "none" \notin Names /\ "proc" \notin Registers \cup Numbers \cup Texts \cup Names

VARIABLES
  vocabulary,     \* the tokens of the source, [words, max]
  tokens,         \* the tokens up to the one looked at, *tokenPtr
  todo,           \* what the functions in progress have still to do
  blocks,         \* statement lists being filled, [stmt, list], innermost last
  procedures,     \* the output: procedure name -> its statements
  declared,       \* the names in the order of their declarations
  parserSuccess,  \* the global the functions report a match in
  status          \* "parsing", "parsed", "error" or "redeclared"

vars == <<vocabulary, tokens, todo, blocks, procedures, declared, parserSuccess,
          status>>

Comparisons == {"<", "<=", ">", ">=", "==", "!="}
Shorthands  == {"+=", "-=", "*=", "/=", "%=", "&=", "|=", "^="}
Longhands   == {"+", "-", "*", "/", "%", "&", "|", "^"}

None == "none"

(* A statement; a list has those of a loop or branch behind it, closed by  *)
(* an "end", the statements of an else block behind an "else".             *)
Statement(tag) ==
  [tag |-> tag, reg |-> None, op |-> None, name |-> None,
   args |-> <<>>, cond |-> <<>>, blocks |-> <<>>]

Operand(negated, token) == [negated |-> negated, of |-> token]

Init ==
  /\ vocabulary \in Vocabularies
  /\ \E t \in vocabulary.words \cup {"eof"} : tokens = <<t>>
  /\ todo = <<"declaration">>
  /\ blocks = <<>> /\ procedures = [n \in {} |-> <<>>] /\ declared = <<>>
  /\ parserSuccess = FALSE
  /\ status = "parsing"

----------------------------------------------------------------------------
Token == Last(tokens)

At(step) == status = "parsing" /\ Head(todo) = step
Then(steps) == todo' = steps \o Tail(todo)

(* tokenPtr += 1.                                                          *)
Eat ==
  \E t \in (IF Len(tokens) < vocabulary.max THEN vocabulary.words ELSE {}) \cup {"eof"} :
    tokens' = Append(tokens, t)

Current    == Last(blocks).stmt
SetStmt(s) == blocks' = [blocks EXCEPT ![Len(blocks)].stmt = s]

Fail ==
  /\ status' = "error"
  /\ UNCHANGED <<vocabulary, tokens, todo, blocks, procedures, declared, parserSuccess>>

Continuing == UNCHANGED <<vocabulary, procedures, declared, status>>

(* A token that has to come here, or may come here, and no field needs.    *)
Expect(step, token) ==
  /\ At(step)
  /\ IF Token = token
     THEN Eat /\ Then(<<>>) /\ UNCHANGED <<blocks, parserSuccess>> /\ Continuing
     ELSE Fail

Optional(step, token, steps) ==
  /\ At(step)
  /\ IF Token = token THEN Eat /\ Then(steps) ELSE UNCHANGED tokens /\ Then(<<>>)
  /\ UNCHANGED <<blocks, parserSuccess>> /\ Continuing

(* A token that has to be one of a set and is kept in the statement.       *)
Take(step, set, stmt, steps) ==
  /\ At(step)
  /\ IF Token \in set
     THEN Eat /\ SetStmt(stmt) /\ Then(steps) /\ UNCHANGED parserSuccess /\ Continuing
     ELSE Fail

ParenOpen  == Expect("(", "(")
ParenClose == Expect(")", ")")

BraceOpen ==
  /\ At("brace")
  /\ IF Token = "{"
     THEN /\ Eat /\ Then(<<>>)
          /\ blocks' = Append(blocks, [stmt |-> Statement(None), list |-> <<>>])
          /\ UNCHANGED parserSuccess /\ Continuing
     ELSE Fail

----------------------------------------------------------------------------
(* Operands and conditions.                                                *)

If == Optional("if", "if", <<"operand", "comparison", "operand">>)

(* An operand goes to the condition or to the sources of the statement.    *)
Minus == [source |-> "minus-source", operand |-> "minus-operand"]

(* Mutant: the second source stored in front of the first.                 *)
WithOperandFirst(x, field) ==
  IF field = "operand" THEN [Current EXCEPT !.cond = Append(@, x)]
  ELSE [Current EXCEPT !.args = <<x>> \o @]
WithOperand(x, field) ==
  IF field = "operand" THEN [Current EXCEPT !.cond = Append(@, x)]
  ELSE [Current EXCEPT !.args = Append(@, x)]

ParseOperandIn(field) ==
  /\ At(field)
  /\ IF Token = "-"
     THEN /\ Eat /\ Then(<<Minus[field]>>)
          /\ UNCHANGED <<blocks, parserSuccess>> /\ Continuing
     ELSE Take(field, Registers \cup Numbers, WithOperand(Operand(FALSE, Token), field), <<>>)

MinusNumberIn(field) ==
  Take(Minus[field], Numbers, WithOperand(Operand(TRUE, Token), field), <<>>)

ParseOperand == \E field \in DOMAIN Minus : ParseOperandIn(field)
MinusNumber  == \E field \in DOMAIN Minus : MinusNumberIn(field)

ParseComparison ==
  Take("comparison", Comparisons, [Current EXCEPT !.cond = Append(@, Token)], <<>>)

----------------------------------------------------------------------------
(* Statements: the functions ParseStatement tries in turn.  Each looks at  *)
(* the first token only, so that one of them goes on.  ParseAssignment is  *)
(* the first and, for want of a register, leaves parserSuccess false.      *)

Begin(first, stmt, steps) ==
  /\ At("statements") /\ first
  /\ Eat
  /\ todo' = steps \o <<"check">> \o todo
  /\ SetStmt(stmt)
  /\ parserSuccess' = (Token \in Registers)
  /\ Continuing

Ending == <<"if", "semicolon">>

ParseAssignment ==
  Begin(Token \in Registers, [Statement("assignment") EXCEPT !.reg = Token],
        <<"assign", "source", "if", "after-source">>)
ParseLoop   == Begin(Token = "loop", Statement("loop"),
                     <<"loop-condition", "brace", "statements", "end">>)
(* Mutant: a branch whose condition may be missing, like that of a loop.   *)
ParseBranchBare == Begin(Token = "branch", Statement("branch"),
                         <<"loop-condition", "brace", "statements", "else", "end">>)
ParseBranch == Begin(Token = "branch", Statement("branch"),
                     <<"(", "operand", "comparison", "operand", ")", "brace",
                       "statements", "else", "end">>)
ParseJump   == Begin(Token \in {"break", "continue", "return"}, Statement(Token), Ending)
ParseCall   == Begin(Token \in Names, [Statement("call") EXCEPT !.name = Token], Ending)
ParseStdout == Begin(Token = "<<", Statement("stdout"), <<"text">> \o Ending)
ParsePushOrPop ==
  Begin(Token \in {"push", "pop"}, Statement(Token), <<"register">> \o Ending)

StartsStatement ==
  Registers \cup Names \cup
    {"}", "loop", "branch", "break", "continue", "return", "<<", "push", "pop"}

NoStatement ==
  /\ At("statements") /\ Token \notin StartsStatement
  /\ todo' = <<"check">> \o todo
  /\ parserSuccess' = FALSE
  /\ UNCHANGED <<tokens, blocks>> /\ Continuing

(* Mutant: the caller goes on whatever was found.                          *)
CheckNothing ==
  At("check") /\ Then(<<>>) /\ UNCHANGED <<tokens, blocks, parserSuccess>> /\ Continuing
(* The caller of ParseStatement looks at parserSuccess.                    *)
CheckStatement ==
  /\ At("check")
  /\ IF parserSuccess
     THEN Then(<<>>) /\ UNCHANGED <<tokens, blocks, parserSuccess>> /\ Continuing
     ELSE Fail

(* Mutant: inner statements copied into the list but left in the statement. *)
WrittenTwice(s) ==
  <<s>> \o FlattenSeq(s.blocks)
    \o (IF s.tag \in {"loop", "branch"} THEN <<Statement("end")>> ELSE <<>>)
(* What a statement adds to the list it stands in.                         *)
Written(s) ==
  LET has(n) == Len(s.blocks) >= n /\ s.blocks[n] # <<>>
  IN <<[s EXCEPT !.blocks = <<>>]>>
       \o (IF has(1) THEN s.blocks[1] ELSE <<>>)
       \o (IF has(2) THEN <<Statement("else")>> \o s.blocks[2] ELSE <<>>)
       \o (IF s.tag \in {"loop", "branch"} THEN <<Statement("end")>> ELSE <<>>)

(* parserSuccess = true; statements.emplace_back(...).                     *)
Emplace(s) ==
  /\ blocks' = [blocks EXCEPT ![Len(blocks)] =
                  [stmt |-> Statement(None), list |-> @.list \o Written(s)]]
  /\ parserSuccess' = TRUE

Assign ==
  Take("assign", {"="} \cup Shorthands,
       [Current EXCEPT !.tag = IF Token = "=" THEN @ ELSE "shorthand", !.op = Token], <<>>)

Semicolon ==
  /\ At("semicolon")
  /\ IF Token = ";" THEN Eat /\ Emplace(Current) /\ Then(<<>>) /\ Continuing ELSE Fail

(* Only an assignment without a condition may go on as a longhand.         *)
AfterSource ==
  /\ At("after-source")
  /\ IF Token = ";" THEN Eat /\ Emplace(Current) /\ Then(<<>>) /\ Continuing
     ELSE IF Current.cond # <<>> \/ Current.tag = "shorthand" THEN Fail
     ELSE Take("after-source", Longhands,
               [Current EXCEPT !.tag = "longhand", !.op = Token], <<"source">> \o Ending)

LoopCondition ==
  Optional("loop-condition", "(", <<"operand", "comparison", "operand", ")">>)

Text ==
  /\ At("text")
  /\ IF Token \in Texts
     THEN Take("text", Texts, [Current EXCEPT !.tag = "text",
                                !.args = <<Operand(FALSE, Token)>>], <<>>)
     ELSE Then(<<"source">>) /\ UNCHANGED <<tokens, blocks, parserSuccess>> /\ Continuing

(* ParseRegister, called by ParsePush and ParsePop.                        *)
ParseRegister ==
  /\ At("register")
  /\ IF Token \in Registers
     THEN /\ Eat /\ Then(<<>>) /\ SetStmt([Current EXCEPT !.reg = Token])
          /\ parserSuccess' = TRUE
          /\ Continuing
     ELSE /\ status' = "error" /\ parserSuccess' = FALSE
          /\ UNCHANGED <<vocabulary, tokens, todo, blocks, procedures, declared>>

----------------------------------------------------------------------------
(* Blocks and procedures.                                                  *)

(* EatToken(BraceClose): the list is complete.                             *)
CloseBlock ==
  /\ At("statements") /\ Token = "}"
  /\ Eat /\ Then(<<>>)
  /\ LET outer == Front(blocks)
     IN blocks' = [outer EXCEPT ![Len(outer)].stmt.blocks = Append(@, Last(blocks).list)]
  /\ UNCHANGED parserSuccess /\ Continuing

Else == Optional("else", "else", <<"brace", "statements">>)

(* Mutant: parserSuccess keeps what the inner statements left in it.       *)
EndStatementStale ==
  /\ At("end")
  /\ blocks' = [blocks EXCEPT ![Len(blocks)] =
                  [stmt |-> Statement(None), list |-> @.list \o Written(Current)]]
  /\ Then(<<>>)
  /\ UNCHANGED <<tokens, parserSuccess>> /\ Continuing
EndStatement ==
  /\ At("end")
  /\ Emplace(Current) /\ Then(<<>>)
  /\ UNCHANGED tokens /\ Continuing

ParseProcedure ==
  /\ At("declaration") /\ Token = "proc"
  /\ Eat
  /\ todo' = <<"name", "brace", "statements", "declare">> \o todo
  /\ blocks' = <<[stmt |-> Statement("proc"), list |-> <<>>]>>
  /\ UNCHANGED parserSuccess /\ Continuing

ProcedureName == Take("name", Names, [Current EXCEPT !.name = Token], <<>>)

(* The output with the statements l under a name.                          *)
WithProcedure(name, l) ==
  [n \in DOMAIN procedures \cup {name} |-> IF n = name THEN l ELSE procedures[n]]

(* Mutant: the later declaration of a name replaces the earlier one.       *)
DeclareAgain ==
  /\ At("declare")
  /\ parserSuccess' = TRUE
  /\ Then(<<>>) /\ blocks' = <<>>
  /\ procedures' = WithProcedure(Current.name, Current.blocks[1])
  /\ declared' = Append(declared, Current.name)
  /\ UNCHANGED <<vocabulary, tokens, status>>
(* The end of ParseProcedure and of a turn of the loop of Parse: the name  *)
(* is looked up when the body has been parsed.                             *)
Declare ==
  /\ At("declare")
  /\ parserSuccess' = TRUE
  /\ Then(<<>>) /\ blocks' = <<>>
  /\ IF Current.name \in DOMAIN procedures
     THEN status' = "redeclared" /\ UNCHANGED <<procedures, declared>>
     ELSE /\ procedures' = WithProcedure(Current.name, Current.blocks[1])
          /\ declared' = Append(declared, Current.name)
          /\ UNCHANGED status
  /\ UNCHANGED <<vocabulary, tokens>>

NoDeclaration ==
  /\ At("declaration") /\ Token \notin {"proc", "eof"}
  /\ parserSuccess' = FALSE /\ status' = "error"
  /\ UNCHANGED <<vocabulary, tokens, todo, blocks, procedures, declared>>

EndOfFile ==
  /\ At("declaration") /\ Token = "eof"
  /\ status' = "parsed"
  /\ UNCHANGED <<vocabulary, tokens, todo, blocks, procedures, declared, parserSuccess>>

Next ==
  \/ ParenOpen \/ ParenClose \/ BraceOpen \/ If
  \/ ParseOperand \/ MinusNumber \/ ParseComparison
  \/ ParseAssignment \/ ParseLoop \/ ParseBranch \/ ParseJump \/ ParseCall
  \/ ParseStdout \/ ParsePushOrPop \/ NoStatement \/ CheckStatement
  \/ Assign \/ Semicolon \/ AfterSource \/ LoopCondition \/ Text \/ ParseRegister
  \/ CloseBlock \/ Else \/ EndStatement
  \/ ParseProcedure \/ ProcedureName \/ Declare \/ NoDeclaration \/ EndOfFile

(* Parse runs to its end.                                                  *)
Spec == Init /\ [][Next]_vars /\ WF_vars(Next)
----------------------------------------------------------------------------
(* The concrete syntax, said of the statements (docs/statements.html).     *)

OperandSyntax(x) == (IF x.negated THEN <<"-">> ELSE <<>>) \o <<x.of>>
CondSyntax(c) == OperandSyntax(c[1]) \o <<c[2]>> \o OperandSyntax(c[3])
IfSyntax(s) ==
  (IF s.cond = <<>> THEN <<>> ELSE <<"if">> \o CondSyntax(s.cond)) \o <<";">>

Syntax(s) ==
  CASE s.tag \in {"assignment", "shorthand"} ->
         <<s.reg, s.op>> \o OperandSyntax(s.args[1]) \o IfSyntax(s)
    [] s.tag = "longhand" ->
         <<s.reg, "=">> \o OperandSyntax(s.args[1]) \o <<s.op>>
                       \o OperandSyntax(s.args[2]) \o IfSyntax(s)
    [] s.tag \in {"break", "continue", "return"} -> <<s.tag>> \o IfSyntax(s)
    [] s.tag = "call" -> <<s.name>> \o IfSyntax(s)
    [] s.tag \in {"stdout", "text"} -> <<"<<">> \o OperandSyntax(s.args[1]) \o IfSyntax(s)
    [] s.tag \in {"push", "pop"} -> <<s.tag, s.reg>> \o IfSyntax(s)
    [] s.tag = "loop" ->
         <<"loop">> \o (IF s.cond = <<>> THEN <<>>
                        ELSE <<"(">> \o CondSyntax(s.cond) \o <<")">>) \o <<"{">>
    [] s.tag = "branch" -> <<"branch", "(">> \o CondSyntax(s.cond) \o <<")", "{">>
    [] s.tag = "else" -> <<"}", "else", "{">>
    [] s.tag = "end" -> <<"}">>

ProcedureSyntax(name) ==
  <<"proc", name, "{">>
    \o FlattenSeq([k \in DOMAIN procedures[name] |-> Syntax(procedures[name][k])])
    \o <<"}">>

(* An else block without statements is one with an absent else.            *)
WithoutEmptyElse(s) ==
  LET empty == {k \in 1 .. Len(s) - 2 : SubSeq(s, k, k + 2) = <<"else", "{", "}">>}
      kept  == SelectSeq([k \in DOMAIN s |-> k], LAMBDA k : {k, k - 1, k - 2} \cap empty = {})
  IN [n \in DOMAIN kept |-> s[kept[n]]]

Consumed == Front(tokens)

----------------------------------------------------------------------------
(* Programs written with the grammar: every statement with every operand   *)
(* and condition, two statements in a row, a block in a block, and two     *)
(* procedures of different names, over the tokens that the sources use.    *)

Used == UNION {v.words : v \in Vocabularies}
Either(S) == {<<t>> : t \in S \cap Used}
Cat(A, B) == {a \o b : a \in A, b \in B}
Between(a, B, c) == {a \o b \o c : b \in B}

OperandTexts == Either(Registers \cup Numbers) \cup Cat({<<"-">>}, Either(Numbers))
CondTexts    == Cat(OperandTexts, Cat(Either(Comparisons), OperandTexts))
HeadTexts ==
  Cat(Either(Registers), Cat(Either({"="} \cup Shorthands), OperandTexts))
    \cup Cat(Cat(Either(Registers), Between(<<"=">>, OperandTexts, <<>>)),
             Cat(Either(Longhands), OperandTexts))
    \cup Cat({<<"<<">>}, OperandTexts \cup Either(Texts))
    \cup Cat(Either({"push", "pop"}), Either(Registers))
    \cup Either({"break", "continue", "return"} \cup Names)
PlainTexts  == Cat(HeadTexts, {<<";">>})
SimpleTexts == PlainTexts \cup Cat(HeadTexts, Between(<<"if">>, CondTexts, <<";">>))

InBraces(B) == Between(<<"{">>, B, <<"}">>)
BlockTexts(B, C) ==
  Cat({<<"loop">>} \cup Between(<<"loop", "(">>, CondTexts, <<")">>), InBraces(B))
    \cup Cat(Between(<<"branch", "(">>, CondTexts, <<")">>),
             InBraces(B) \cup Cat(InBraces(B), Between(<<"else">>, InBraces(C), <<>>)))

Short      == {<<>>, <<"break", ";">>}
InnerTexts == {<<"loop", "{", "}">>}
Bodies == {<<>>} \cup SimpleTexts \cup Cat(PlainTexts, PlainTexts)
            \cup BlockTexts(Short, Short) \cup BlockTexts(InnerTexts, InnerTexts)
ProcedureTexts(name, B) == Between(<<"proc", name>>, InBraces(B), <<>>)
ProgramTexts ==
  LET first  == UNION {ProcedureTexts(n, Bodies) : n \in Names \cap Used}
      others == UNION {Cat(ProcedureTexts(p[1], Short), ProcedureTexts(p[2], PlainTexts)) :
                         p \in {q \in Names \X Names : q[1] # q[2]}}
  IN {t \o <<"eof">> : t \in {<<>>} \cup first \cup others}

ProgramPrefixes == UNION {Prefixes(t) : t \in ProgramTexts}
----------------------------------------------------------------------------
OperandType == [negated : BOOLEAN, of : Registers \cup Numbers \cup Texts]
Tags == {"none", "proc", "assignment", "shorthand", "longhand", "loop", "branch",
         "break", "continue", "return", "call", "stdout", "text", "push", "pop"}

IsStatement(s) ==
  /\ s.tag \in Tags \cup {"else", "end"}
  /\ s.reg \in Registers \cup {None}
  /\ s.op \in {"=", None} \cup Shorthands \cup Longhands
  /\ s.name \in Names \cup {None}
  /\ Len(s.args) <= 2 /\ Range(s.args) \subseteq OperandType

(* The lists in progress and the output hold statements; a list is flat.   *)
TypeOK ==
  /\ tokens \in Seq(vocabulary.words \cup {"eof"}) /\ tokens # <<>>
  /\ parserSuccess \in BOOLEAN
  /\ status \in {"parsing", "parsed", "error", "redeclared"}
  /\ \A k \in DOMAIN blocks : IsStatement(blocks[k].stmt)
  /\ \A l \in {b.list : b \in Range(blocks)} \cup Range(procedures) :
       \A s \in Range(l) : IsStatement(s) /\ s.blocks = <<>>

(* The syntax tree says what the source says: written out again, the       *)
(* procedures are the tokens that were passed, every operand, operator,    *)
(* condition and block in its place and nothing left out, but for an else  *)
(* block without statements.                                               *)
RoundTrip ==
  (status \in {"parsing", "parsed"} /\ Head(todo) = "declaration") =>
    FlattenSeq([k \in DOMAIN declared |-> ProcedureSyntax(declared[k])])
      = WithoutEmptyElse(Consumed)

(* A source is refused only for a reason: when the parser stops, no        *)
(* program of the grammar begins with the tokens it has seen, whatever the *)
(* statement before has left in parserSuccess.                             *)
ErrorsAreErrors == status = "error" => tokens \notin ProgramPrefixes

(* No procedure is lost to another of its name: a source that declares a   *)
(* name twice is refused, and one is refused as such only when it does.    *)
NamesUnique ==
  LET named == {k \in 2 .. Len(Consumed) : Consumed[k - 1] = "proc"}
      Repeats == \E j, k \in named : j # k /\ Consumed[j] = Consumed[k]
  IN /\ status = "parsed" => ~Repeats
     /\ status = "redeclared" => Repeats

(* How many blocks of list l are open behind element k, and the element    *)
(* that opened the block that element k stands at the border of.           *)
Opens(s) == s.tag \in {"loop", "branch"}
Depth(l, k) ==
  Cardinality({i \in 1 .. k : Opens(l[i])}) - Cardinality({i \in 1 .. k : l[i].tag = "end"})
Opener(l, k) ==
  CHOOSE i \in 1 .. k - 1 : /\ Opens(l[i]) /\ Depth(l, i) = Depth(l, k)
                            /\ \A j \in i + 1 .. k - 1 : Depth(l, j) >= Depth(l, k)

(* What the code generator takes for granted of the tree it is given: a    *)
(* branch has a condition, a condition both its operands, a call its name, *)
(* and blocks are nested, an else standing in a branch.                    *)
FitsCodeGen ==
  \A l \in Range(procedures) :
    /\ \A k \in DOMAIN l :
         /\ l[k].tag = "branch" => l[k].cond # <<>>
         /\ l[k].cond # <<>> => Len(l[k].cond) = 3 /\ l[k].cond[2] \in Comparisons
         /\ l[k].tag = "call" <=> l[k].name # None
         /\ Depth(l, k) >= 0
         /\ l[k].tag = "else" => l[Opener(l, k)].tag = "branch"
    /\ Depth(l, Len(l)) = 0

(* Every parse ends: no list is gone through without passing a token.      *)
ParsingEnds == <>(status # "parsing")
=============================================================================
