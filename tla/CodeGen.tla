------------------------------ MODULE CodeGen ------------------------------
(***************************************************************************)
(* Compile, CompileProcedure and CompileStatement (compiler.cpp): one pass *)
(* over the syntax tree that appends machine code, leaves nops where a     *)
(* jump or a call will be written, and overwrites them when the target is  *)
(* known.  The recursion of CompileStatement is the stack frames, one      *)
(* record per activation.  The program is not fixed in advance: at every   *)
(* statement list the environment chooses the next statement, or its end.  *)
(***************************************************************************)
EXTENDS MachineCode

CONSTANTS Names,          \* procedure names
          Main,           \* "main", the entry point
          Conditions,     \* the conditions a program may contain
          Tags,           \* the statement tags a program may contain
          Forms,          \* the forms below a program may contain
          BodyLens,       \* lengths of the code of a straight statement
          TextLens,       \* lengths of a string literal
          MaxStatements,  \* statements in the whole program
          MaxDepth        \* nested loops and branches

(* Program forms the properties have to tell apart:                        *)
(*   "pendingLoop"  a loop that begins while a break or a continue before  *)
(*                  it in the same procedure is still waiting              *)
(*   "textIf"       a string output with a conditional                     *)
(*   "emptyThen"    a branch with an else block and no then statement      *)
(*   "immLeft"      a condition whose left operand is an immediate         *)
AllForms == {"pendingLoop", "textIf", "emptyThen", "immLeft"}

ASSUME CodeGenAssumption ==
  /\ Main \in Names /\ NoName \notin Names
  /\ Conditions \subseteq Condition
  /\ Tags \subseteq StatementTags
  /\ Forms \subseteq AllForms
  /\ BodyLens \subseteq Nat \ {0}
  /\ TextLens \subseteq Nat
  /\ MaxStatements \in Nat /\ MaxDepth \in Nat

VARIABLES
  phase,          \* where Compile is
  todo,           \* procedures its first loop has not reached
  src,            \* the program so far, with the offset of every item
  frames,         \* the activations of CompileStatement, innermost last
  code,           \* the machine code
  entry,          \* the offset of the start procedure
  procedureMap,   \* procedure name -> offset
  callTable,      \* offset of a call -> name of the procedure called
  uncalled,       \* offsets in callTable the last loop has not reached
  loopBreaks,     \* offsets of the breaks no loop has taken yet
  loopContinues   \* offsets of the continues no loop has taken yet

vars == <<phase, todo, src, frames, code, entry, procedureMap, callTable,
          uncalled, loopBreaks, loopContinues>>

Phases == {"procs", "body", "calls", "done", "error"}

(* What an activation does next: emit the code of a simple statement, go   *)
(* through a statement list, or return.                                    *)
Parts == {"emit", "loop", "then", "else", "done"}

Frame == [tag : StatementTags, cond : Conditions \cup {NoCond},
          name : Names \cup {NoName}, part : Parts, hasElse : BOOLEAN,
          startPtr : Nat, condPtr : Nat, jumpPastElsePtr : Nat,
          ifBlockEndPtr : Nat]

Top       == frames[Len(frames)]
Below     == SubSeq(frames, 1, Len(frames) - 1)
InPart(p) == phase = "body" /\ frames # <<>> /\ Top.part = p
Emitting(tag) == InPart("emit") /\ Top.tag = tag

(* frames with its innermost activation f replaced.                        *)
WithTop(f) == [frames EXCEPT ![Len(frames)] = f]
Done       == [Top EXCEPT !.part = "done"]

Init ==
  /\ phase = "procs"
  /\ todo \in SUBSET Names
  /\ src = <<>> /\ frames = <<>>
  /\ code = EmptyBuffer
  /\ entry = 0
  /\ procedureMap = [n \in {} |-> 0]
  /\ callTable = [p \in {} |-> NoName]
  /\ uncalled = {}
  /\ loopBreaks = {} /\ loopContinues = {}

----------------------------------------------------------------------------
(* The program the environment may write.                                  *)

Statement == [tag : Tags, cond : Conditions \cup {NoCond},
              name : Names \cup {NoName}, hasElse : BOOLEAN]

(* Statements the parser can produce: a branch has a condition, only a     *)
(* branch has an else block, only a call has a name.                       *)
Parsed(s) ==
  /\ s.tag = "branch" => s.cond # NoCond
  /\ s.hasElse => s.tag = "branch"
  /\ s.tag = "call" <=> s.name # NoName

Admitted(s) ==
  /\ s.tag = "loop" /\ loopBreaks \cup loopContinues # {} => "pendingLoop" \in Forms
  /\ s.tag = "text" /\ s.cond # NoCond => "textIf" \in Forms
  /\ s.cond.a \in Immediates /\ s.cond.b = "reg" => "immLeft" \in Forms

(* The block being compiled was chosen not to be empty and still is.       *)
OwesStatement ==
  /\ frames # <<>> /\ Top.hasElse
  /\ \/ Top.part = "then" /\ Top.jumpPastElsePtr = 0 /\ "emptyThen" \notin Forms
     \/ Top.part = "else" /\ src[Len(src)].tag = "else"

StatementCount == Cardinality({i \in 1 .. Len(src) : src[i].tag \in StatementTags})

HasRoom(s) ==
  /\ StatementCount < MaxStatements \/ (OwesStatement /\ s.tag \in SimpleTags)
  /\ s.tag \in BlockTags => Len(frames) < MaxDepth

----------------------------------------------------------------------------
(* Conditions: EmitCmp and the two WriteJump.                              *)

Comparable(c) == "reg" \in {c.a, c.b}

CmpLens   == [reg |-> 3, imm8 |-> 4, imm32 |-> 7, imm64 |-> 23]
CmpLen(c) == CmpLens[IF c.a = "reg" THEN c.b ELSE c.a]

EmitCmp(b, c) == Emit(b, Cmp(CmpLen(c), IF c.a = "reg" THEN "ab" ELSE "ba"))

(* Mutant: strict and non-strict comparisons mixed up.                     *)
OppositesMixed == {<<"<", ">">>, <<"<=", ">=">>, <<"==", "!=">>}

Opposites   == {<<"<", ">=">>, <<"<=", ">">>, <<"==", "!=">>}
Negation(c) == CHOOSE d \in Comparisons : <<c, d>> \in Opposites \/ <<d, c>> \in Opposites

(* The jump around the statement tests the negated comparison, except that *)
(* EmitCmp(imm, reg) toggles the flag that asks for the negation.          *)
SkipComparison(c) == IF c.a = "reg" THEN Negation(c.comp) ELSE c.comp

(* Mutants: a displacement from the wrong end of the instruction, the      *)
(* jump written where the statement starts, no room made for a jump.       *)
WriteJumpLong(b, S, to)      == Patch(b, S, Jmp(to + 1))
WriteSkipLong(b, f, to)      == Patch(b, {f.condPtr}, Jcc(SkipComparison(f.cond), to + 1))
WriteSkipAtStart(b, f, to)   == Patch(b, {f.startPtr}, Jcc(SkipComparison(f.cond), to))
WriteCallLong(b, p, to)      == Patch(b, {p}, CallTo(to + 5))
JumpBackUnreserved(b, to)    == Patch(b, {b.len}, Jmp(to))

(* Mutant: a skip aimed at itself.                                         *)
WriteSkipOnItself(b, f, to) ==
  Patch(b, {f.condPtr}, Jcc(SkipComparison(f.cond), f.condPtr))

(* Mutant: the jump at the end of a loop aimed at itself.                  *)
JumpBackHere(b, to) == Patch(EmitNop(b, 5), {b.len}, Jmp(b.len))

WriteJump(b, S, to) == Patch(b, S, Jmp(to))
WriteSkip(b, f, to) == Patch(b, {f.condPtr}, Jcc(SkipComparison(f.cond), to))
WriteCall(b, p, to) == Patch(b, {p}, CallTo(to))
JumpBack(b, to)     == WriteJump(EmitNop(b, 5), {b.len}, to)

----------------------------------------------------------------------------
(* Compile's loop over the procedures, in the map's unspecified order.     *)

BeginProcedure(n) ==
  /\ phase = "procs" /\ n \in todo
  /\ todo' = todo \ {n}
  /\ procedureMap' = [m \in DOMAIN procedureMap \cup {n} |->
                        IF m = n THEN code.len ELSE procedureMap[m]]
  /\ src' = Append(src, Item("proc", NoCond, n, 0, code.len))
  /\ phase' = "body"
  /\ UNCHANGED <<frames, code, entry, callTable, uncalled, loopBreaks, loopContinues>>

(* Mutants: the stray break is not looked for; the ret is forgotten.       *)
EndProcedureUnchecked ==
  /\ phase = "body" /\ frames = <<>>
  /\ src' = Append(src, Marker("endproc", 0, code.len))
  /\ code' = Emit(code, Ins("ret", 1))
  /\ phase' = "procs"
  /\ UNCHANGED <<todo, frames, entry, procedureMap, callTable, uncalled,
                 loopBreaks, loopContinues>>

EndProcedureOpen ==
  /\ phase = "body" /\ frames = <<>>
  /\ loopBreaks = {} /\ loopContinues = {}
  /\ src' = Append(src, Marker("endproc", 0, code.len))
  /\ phase' = "procs"
  /\ UNCHANGED <<todo, frames, code, entry, procedureMap, callTable, uncalled,
                 loopBreaks, loopContinues>>

EndProcedure ==
  /\ phase = "body" /\ frames = <<>>
  /\ loopBreaks = {} /\ loopContinues = {}
  /\ src' = Append(src, Marker("endproc", 0, code.len))
  /\ code' = Emit(code, Ins("ret", 1))
  /\ phase' = "procs"
  /\ UNCHANGED <<todo, frames, entry, procedureMap, callTable, uncalled,
                 loopBreaks, loopContinues>>

(* "Break or continue statements in a procedure outside a loop."           *)
StrayLoopControl ==
  /\ phase = "body" /\ frames = <<>>
  /\ loopBreaks \cup loopContinues # {}
  /\ phase' = "error"
  /\ UNCHANGED <<todo, src, frames, code, entry, procedureMap, callTable,
                 uncalled, loopBreaks, loopContinues>>

----------------------------------------------------------------------------
(* CompileStatement, from its entry to the switch.                         *)

InStatementList == phase = "body" /\ (frames # <<>> => Top.part \in {"loop", "then", "else"})

FirstPart(tag) ==
  CASE tag = "loop" -> "loop" [] tag = "branch" -> "then" [] OTHER -> "emit"

EnterStatement(s) ==
  /\ InStatementList
  /\ Parsed(s) /\ Admitted(s) /\ HasRoom(s)
  /\ s.cond # NoCond => Comparable(s.cond)
  /\ src' = Append(src, Item(s.tag, s.cond, s.name, Len(frames), code.len))
  /\ code' = IF s.cond = NoCond THEN code ELSE EmitNop(EmitCmp(code, s.cond), 6)
  /\ frames' = Append(frames,
       [tag |-> s.tag, cond |-> s.cond, name |-> s.name, part |-> FirstPart(s.tag),
        hasElse |-> s.hasElse, startPtr |-> code.len,
        condPtr |-> IF s.cond = NoCond THEN 0 ELSE code.len + CmpLen(s.cond),
        jumpPastElsePtr |-> 0, ifBlockEndPtr |-> 0])
  /\ UNCHANGED <<phase, todo, entry, procedureMap, callTable, uncalled,
                 loopBreaks, loopContinues>>

(* "Unsupported comparison operand type combination"                       *)
BadCondition(s) ==
  /\ InStatementList
  /\ Parsed(s) /\ Admitted(s) /\ HasRoom(s)
  /\ s.cond # NoCond /\ ~Comparable(s.cond)
  /\ phase' = "error"
  /\ UNCHANGED <<todo, src, frames, code, entry, procedureMap, callTable,
                 uncalled, loopBreaks, loopContinues>>

----------------------------------------------------------------------------
(* The switch, for the statements without a block.                         *)

EmitStraight(n) ==
  /\ Emitting("straight")
  /\ code' = Emit(code, Ins("straight", n))
  /\ frames' = WithTop(Done)
  /\ UNCHANGED <<phase, todo, src, entry, procedureMap, callTable, uncalled,
                 loopBreaks, loopContinues>>

(* "Statement not implemented in the compiler."                            *)
EmitLonghand ==
  /\ Emitting("longhand")
  /\ phase' = "error"
  /\ UNCHANGED <<todo, src, frames, code, entry, procedureMap, callTable,
                 uncalled, loopBreaks, loopContinues>>

(* Mutant: the offset is taken behind the nops.                            *)
EmitBreakBehind ==
  /\ Emitting("break")
  /\ loopBreaks' = loopBreaks \cup {code.len + 5}
  /\ code' = EmitNop(code, 5)
  /\ frames' = WithTop(Done)
  /\ UNCHANGED <<phase, todo, src, entry, procedureMap, callTable, uncalled,
                 loopContinues>>

EmitBreak ==
  /\ Emitting("break")
  /\ loopBreaks' = loopBreaks \cup {code.len}
  /\ code' = EmitNop(code, 5)
  /\ frames' = WithTop(Done)
  /\ UNCHANGED <<phase, todo, src, entry, procedureMap, callTable, uncalled,
                 loopContinues>>

EmitContinue ==
  /\ Emitting("continue")
  /\ loopContinues' = loopContinues \cup {code.len}
  /\ code' = EmitNop(code, 5)
  /\ frames' = WithTop(Done)
  /\ UNCHANGED <<phase, todo, src, entry, procedureMap, callTable, uncalled,
                 loopBreaks>>

EmitReturn ==
  /\ Emitting("return")
  /\ code' = Emit(code, Ins("ret", 1))
  /\ frames' = WithTop(Done)
  /\ UNCHANGED <<phase, todo, src, entry, procedureMap, callTable, uncalled,
                 loopBreaks, loopContinues>>

EmitCallStatement ==
  /\ Emitting("call")
  /\ callTable' = [p \in DOMAIN callTable \cup {code.len} |->
                     IF p = code.len THEN Top.name ELSE callTable[p]]
  /\ uncalled' = uncalled \cup {code.len}
  /\ code' = EmitNop(code, 5)
  /\ frames' = WithTop(Done)
  /\ UNCHANGED <<phase, todo, src, entry, procedureMap, loopBreaks, loopContinues>>

(* Mutant: the jump goes to where the literal begins.                      *)
EmitTextOnto(n) ==
  /\ Emitting("text")
  /\ LET reserved == EmitNop(code, 5)
         literal  == IF n = 0 THEN reserved ELSE Emit(reserved, Ins("data", n))
         jumped   == WriteJump(literal, {Top.startPtr}, reserved.len)
     IN code' = Emit(jumped, Ins("straight", 75))
  /\ frames' = WithTop(Done)
  /\ UNCHANGED <<phase, todo, src, entry, procedureMap, callTable, uncalled,
                 loopBreaks, loopContinues>>

(* The literal is placed behind a jump that is written at startPtr: where  *)
(* the five nops are, unless a condition was emitted there first.          *)
EmitText(n) ==
  /\ Emitting("text")
  /\ LET reserved == EmitNop(code, 5)
         literal  == IF n = 0 THEN reserved ELSE Emit(reserved, Ins("data", n))
         jumped   == WriteJump(literal, {Top.startPtr}, literal.len)
     IN code' = Emit(jumped, Ins("straight", 75))
  /\ frames' = WithTop(Done)
  /\ UNCHANGED <<phase, todo, src, entry, procedureMap, callTable, uncalled,
                 loopBreaks, loopContinues>>

----------------------------------------------------------------------------
(* The switch, for loops and branches: the end of their statement lists.   *)

(* Mutants: the tables are not cleared; a break goes to the jump back.     *)
LoopControlKept == UNCHANGED <<loopBreaks, loopContinues>>
BreakTargetEarly(back) == back.len - 5

LoopControlTaken  == loopBreaks' = {} /\ loopContinues' = {}
BreakTarget(back) == back.len

EndLoop ==
  /\ InPart("loop")
  /\ LET back      == JumpBack(code, Top.startPtr)
         broken    == WriteJump(back, loopBreaks, BreakTarget(back))
         continued == WriteJump(broken, loopContinues, Top.startPtr)
     IN code' = continued
  /\ LoopControlTaken
  /\ src' = Append(src, Marker("end", Len(frames) - 1, code.len))
  /\ frames' = WithTop(Done)
  /\ UNCHANGED <<phase, todo, entry, procedureMap, callTable, uncalled>>

(* Mutant: the end of the then block is taken before the jump past else.   *)
BeginElseEarly ==
  /\ InPart("then") /\ Top.hasElse /\ ~OwesStatement
  /\ src' = Append(src, Marker("else", Len(frames) - 1,
                     IF Top.jumpPastElsePtr = 0 THEN code.len ELSE Top.jumpPastElsePtr))
  /\ frames' = WithTop([Top EXCEPT !.part = "else", !.ifBlockEndPtr = Top.jumpPastElsePtr])
  /\ UNCHANGED <<phase, todo, code, entry, procedureMap, callTable, uncalled,
                 loopBreaks, loopContinues>>

(* The then block ends and an else block follows.                          *)
BeginElse ==
  /\ InPart("then") /\ Top.hasElse /\ ~OwesStatement
  /\ src' = Append(src, Marker("else", Len(frames) - 1,
                     IF Top.jumpPastElsePtr = 0 THEN code.len ELSE Top.jumpPastElsePtr))
  /\ frames' = WithTop([Top EXCEPT !.part = "else", !.ifBlockEndPtr = code.len])
  /\ UNCHANGED <<phase, todo, code, entry, procedureMap, callTable, uncalled,
                 loopBreaks, loopContinues>>

EndThen ==
  /\ InPart("then") /\ ~Top.hasElse
  /\ code' = WriteSkip(code, Top, code.len)
  /\ src' = Append(src, Marker("end", Len(frames) - 1, code.len))
  /\ frames' = WithTop(Done)
  /\ UNCHANGED <<phase, todo, entry, procedureMap, callTable, uncalled,
                 loopBreaks, loopContinues>>

(* Mutant: the two targets mixed up.                                       *)
EndElseSwapped ==
  /\ InPart("else") /\ ~OwesStatement
  /\ LET past == WriteJump(code, {Top.jumpPastElsePtr}, Top.ifBlockEndPtr)
     IN code' = WriteSkip(past, Top, code.len)
  /\ src' = Append(src, Marker("end", Len(frames) - 1, code.len))
  /\ frames' = WithTop(Done)
  /\ UNCHANGED <<phase, todo, entry, procedureMap, callTable, uncalled,
                 loopBreaks, loopContinues>>

EndElse ==
  /\ InPart("else") /\ ~OwesStatement
  /\ LET past == WriteJump(code, {Top.jumpPastElsePtr}, code.len)
     IN code' = WriteSkip(past, Top, Top.ifBlockEndPtr)
  /\ src' = Append(src, Marker("end", Len(frames) - 1, code.len))
  /\ frames' = WithTop(Done)
  /\ UNCHANGED <<phase, todo, entry, procedureMap, callTable, uncalled,
                 loopBreaks, loopContinues>>

----------------------------------------------------------------------------
(* CompileStatement, after the switch, and the step of the caller's loop   *)
(* over a then block that an else block follows: room for the jump past    *)
(* that else block, of which only the last one is ever written.            *)
LeaveStatement ==
  /\ InPart("done")
  /\ LET skipped == IF Top.cond # NoCond /\ Top.tag # "branch"
                    THEN WriteSkip(code, Top, code.len) ELSE code
         caller  == Below[Len(Below)]
     IN IF Below # <<>> /\ caller.part = "then" /\ caller.hasElse
        THEN /\ code' = EmitNop(skipped, 5)
             /\ frames' = [Below EXCEPT ![Len(Below)].jumpPastElsePtr = skipped.len]
        ELSE code' = skipped /\ frames' = Below
  /\ UNCHANGED <<phase, todo, src, entry, procedureMap, callTable, uncalled,
                 loopBreaks, loopContinues>>

----------------------------------------------------------------------------
(* The end of Compile: the start procedure, then the calls.                *)

CompileStart ==
  /\ phase = "procs" /\ todo = {}
  /\ entry' = code.len
  /\ LET pushed == Emit(code, Ins("enter", 23))
         called == EmitNop(pushed, 5)
         popped == Emit(called, Ins("leave", 23))
     IN /\ code' = Emit(popped, Ins("ret", 1))
        /\ callTable' = [p \in DOMAIN callTable \cup {pushed.len} |->
                           IF p = pushed.len THEN Main ELSE callTable[p]]
        /\ uncalled' = uncalled \cup {pushed.len}
  /\ phase' = "calls"
  /\ UNCHANGED <<todo, src, frames, procedureMap, loopBreaks, loopContinues>>

LinkCall(p) ==
  /\ phase = "calls" /\ p \in uncalled
  /\ callTable[p] \in DOMAIN procedureMap
  /\ code' = WriteCall(code, p, procedureMap[callTable[p]])
  /\ uncalled' = uncalled \ {p}
  /\ UNCHANGED <<phase, todo, src, frames, entry, procedureMap, callTable,
                 loopBreaks, loopContinues>>

(* "Calling procedure which doesn't exist."                                *)
MissingProcedure(p) ==
  /\ phase = "calls" /\ p \in uncalled
  /\ callTable[p] \notin DOMAIN procedureMap
  /\ phase' = "error"
  /\ UNCHANGED <<todo, src, frames, code, entry, procedureMap, callTable,
                 uncalled, loopBreaks, loopContinues>>

Compiled ==
  /\ phase = "calls" /\ uncalled = {}
  /\ phase' = "done"
  /\ UNCHANGED <<todo, src, frames, code, entry, procedureMap, callTable,
                 uncalled, loopBreaks, loopContinues>>

Compile ==
  \/ \E n \in Names : BeginProcedure(n)
  \/ EndProcedure \/ StrayLoopControl
  \/ \E s \in Statement : EnterStatement(s) \/ BadCondition(s)
  \/ \E n \in BodyLens : EmitStraight(n)
  \/ EmitLonghand \/ EmitBreak \/ EmitContinue \/ EmitReturn \/ EmitCallStatement
  \/ \E n \in TextLens : EmitText(n)
  \/ EndLoop \/ BeginElse \/ EndThen \/ EndElse \/ LeaveStatement
  \/ CompileStart
  \/ \E p \in uncalled : LinkCall(p) \/ MissingProcedure(p)
  \/ Compiled

(* Compile has returned: nothing more happens here.                        *)
Returned == phase \in {"done", "error"} /\ UNCHANGED vars

Next == Compile \/ Returned
Spec == Init /\ [][Next]_vars

----------------------------------------------------------------------------
(* Type correctness: every value the compiler keeps is one it can keep.    *)
TypeOK ==
  /\ phase \in Phases /\ todo \subseteq Names
  /\ src \in Seq(Items(Names)) /\ frames \in Seq(Frame)
  /\ IsBuffer(code) /\ entry \in Nat
  /\ DOMAIN procedureMap \subseteq Names
  /\ \A n \in DOMAIN procedureMap : procedureMap[n] \in Nat
  /\ DOMAIN callTable \subseteq Nat
  /\ \A p \in DOMAIN callTable : callTable[p] \in Names
  /\ uncalled \subseteq DOMAIN callTable
  /\ loopBreaks \subseteq Nat /\ loopContinues \subseteq Nat

(* The places still to be written: who will write there, the activation    *)
(* that remembers the place if one does, its offset and its length.        *)
Slot(role, d, p, n) == [role |-> role, d |-> d, p |-> p, n |-> n]

CondPending(f) == f.cond # NoCond /\ ~(f.tag = "branch" /\ f.part = "done")
ElsePending(f) == f.part \in {"then", "else"} /\ f.jumpPastElsePtr > 0

TableSlots(breaks, continues, calls) ==
  {Slot("break", 0, p, 5) : p \in breaks}
    \cup {Slot("continue", 0, p, 5) : p \in continues}
    \cup {Slot("call", 0, p, 5) : p \in calls}

FrameSlots(fs) ==
  {Slot("cond", d, fs[d].condPtr, 6) :
     d \in {e \in 1 .. Len(fs) : CondPending(fs[e])}}
    \cup {Slot("else", d, fs[d].jumpPastElsePtr, 5) :
     d \in {e \in 1 .. Len(fs) : ElsePending(fs[e])}}

Slots == TableSlots(loopBreaks, loopContinues, uncalled) \cup FrameSlots(frames)

Apart(s, t) == s.p + s.n <= t.p \/ t.p + t.n <= s.p

SlotsReserved(S, b) ==
  /\ \A s \in S : Reserved(b, s.p, s.n)
  /\ \A s, t \in S : s # t => Apart(s, t)

(* Every place the compiler remembers for a later jump or call, in its     *)
(* globals, its call table and the activations of CompileStatement, still  *)
(* holds the nops it put there, and no two of them share a byte: whatever  *)
(* is compiled in between leaves them alone.                               *)
PendingReserved == SlotsReserved(Slots, code)

(* WriteJump and WriteCall only ever overwrite reserved nops: an           *)
(* instruction that has been generated is never changed or moved.          *)
PatchesInPlace ==
  [][\A p \in DOMAIN code.at :
       code.at[p] = Nop \/ (p \in DOMAIN code'.at /\ code'.at[p] = code.at[p])]_vars

(* The generated bytes decode from the first to the last as the            *)
(* instructions that were emitted and patched.                             *)
CodeIntact == Intact(code)

(* Where the code of item i proper starts, behind its condition.           *)
BodyPtr(i) ==
  src[i].at + (IF src[i].cond = NoCond THEN 0 ELSE CmpLen(src[i].cond) + 6)

(* Once compiled, every call statement is a call of the first byte of the  *)
(* procedure it names, whatever the order procedures were compiled and     *)
(* calls written in, and the start procedure calls main.                   *)
CallsReachEntry ==
  phase = "done" =>
    /\ \A i \in 1 .. Len(src) : src[i].tag = "call" =>
         \E j \in 1 .. Len(src) :
           /\ src[j].tag = "proc" /\ src[j].name = src[i].name
           /\ code.at[BodyPtr(i)] = CallTo(src[j].at)
    /\ \E j \in 1 .. Len(src) :
         /\ src[j].tag = "proc" /\ src[j].name = Main
         /\ code.at[entry + 23] = CallTo(src[j].at)

(* Every jump and conditional jump of a procedure lands on an instruction  *)
(* of the same procedure, its final ret included: no place was left with   *)
(* another loop's, branch's or procedure's target.                         *)
JumpsStayInProcedure ==
  phase = "done" =>
    \A i \in 1 .. Len(src) : src[i].tag = "proc" =>
      LET last == src[EndProcOf(src, i)].at
      IN \A p \in DOMAIN code.at :
           src[i].at <= p /\ p < last /\ code.at[p].op \in {"jmp", "jcc"} =>
             /\ code.at[p].to \in DOMAIN code.at
             /\ src[i].at <= code.at[p].to /\ code.at[p].to <= last

(* break leaves, and continue restarts, the innermost loop around it; a    *)
(* program with one outside every loop is not compiled.                    *)
LoopControlBinds ==
  phase = "done" =>
    \A i \in 1 .. Len(src) : src[i].tag \in {"break", "continue"} =>
      /\ InLoop(src, i)
      /\ LET loop == InnermostLoop(src, i)
         IN code.at[BodyPtr(i)] =
              Jmp(IF src[i].tag = "break" THEN src[MatchEnd(src, loop)].at + 5
                                          ELSE src[loop].at)

(* The comparison and the jump behind it skip a statement exactly when its *)
(* condition does not hold, however its two operands compare.              *)
ConditionExact ==
  phase = "done" =>
    \A i \in 1 .. Len(src) : src[i].cond # NoCond =>
      LET cond == src[i].cond
          cmp  == code.at[src[i].at]
          skip == code.at[src[i].at + CmpLen(cond)]
      IN /\ cmp.op = "cmp" /\ skip.op = "jcc"
         /\ \A rel \in Relations :
              Holds(skip.how, IF cmp.how = "ab" THEN rel ELSE Converse[rel])
                <=> ~Holds(cond.comp, rel)

(* The jump over a statement goes behind all of its code, and no further   *)
(* than to what the program goes on with, the else block of a branch or    *)
(* the item behind the statement: there are only nops in between, the      *)
(* places of jumps past an else block that are never written.              *)
SkipsToNext ==
  phase = "done" =>
    \A i \in 1 .. Len(src) : src[i].cond # NoCond =>
      LET to   == code.at[src[i].at + CmpLen(src[i].cond)].to
          next == src[After(src, i)].at
      IN to <= next /\ \A p \in DOMAIN code.at : to <= p /\ p < next => code.at[p] = Nop

(* However blocks are nested, the jump at the end of a loop goes to the    *)
(* beginning of that loop, and the one between the blocks of a branch to   *)
(* the end of that branch.                                                 *)
BlocksJump ==
  phase = "done" =>
    \A k \in 1 .. Len(src) :
      LET block == Opener(src, k)
      IN /\ src[k].tag = "end" /\ src[block].tag = "loop" =>
              code.at[src[k].at] = Jmp(src[block].at)
         /\ src[k].tag = "else" => code.at[src[k].at] = Jmp(src[MatchEnd(src, block)].at)
============================================================================
