-------------------------- MODULE StatementProofs --------------------------
(***************************************************************************)
(* What becomes of the two kinds of statement parts whose code is written  *)
(* long after they were compiled: every call ends as a call of the         *)
(* procedure it names, and every condition as a comparison and a jump that *)
(* skips its statement exactly when it does not hold.  Both follow an item *)
(* of the program through the tables and the activations that remember it. *)
(* And every break and continue goes to the loop that was meant.           *)
(***************************************************************************)
EXTENDS CodeGenProofs

(* The statement whose own code comes next is the last item, and the code  *)
(* of its condition, if it has one, ends where the code ends.              *)
EmittedItem ==
  InPart("emit") =>
    /\ src # <<>>
    /\ src[Len(src)].tag = Top.tag /\ src[Len(src)].name = Top.name
    /\ BodyPtr(Len(src)) = code.len

(* An offset in the map is where the item of a procedure of that name is.  *)
ProceduresKnown ==
  \A n \in DOMAIN procedureMap : \E j \in 1 .. Len(src) :
    src[j].tag = "proc" /\ src[j].name = n /\ src[j].at = procedureMap[n]

(* The place of every call, once there is one, is in the call table.       *)
CallKnown(i) ==
  BodyPtr(i) \in DOMAIN callTable /\ callTable[BodyPtr(i)] = src[i].name

CallsKnown ==
  /\ \A i \in 1 .. Len(src) :
       src[i].tag = "call" => CallKnown(i) \/ (i = Len(src) /\ Emitting("call"))
  /\ phase \in {"calls", "done"} =>
       entry + 23 \in DOMAIN callTable /\ callTable[entry + 23] = Main

(* What is no longer waiting in the call table has been written.           *)
CallsLinked ==
  /\ phase \in {"procs", "body"} => uncalled = DOMAIN callTable
  /\ phase = "done" => uncalled = {}
  /\ \A p \in DOMAIN callTable \ uncalled :
       /\ callTable[p] \in DOMAIN procedureMap /\ p \in DOMAIN code.at
       /\ code.at[p] = CallTo(procedureMap[callTable[p]])

CallInv == EmittedItem /\ ProceduresKnown /\ CallsKnown /\ CallsLinked

(* A condition is compiled to its comparison, and the jump behind it is    *)
(* written or an activation remembers to write it.                         *)
OrderOf(c) == IF c.a = "reg" THEN "ab" ELSE "ba"

SkipPending(c, p) ==
  \E d \in 1 .. Len(frames) :
    CondPending(frames[d]) /\ frames[d].cond = c /\ frames[d].condPtr = p

SkipWritten(b, c, p) ==
  /\ p \in DOMAIN b.at /\ b.at[p].op = "jcc" /\ b.at[p].len = 6
  /\ b.at[p].how = SkipComparison(c)

ConditionCompiled(c, p) ==
  /\ c \in Condition
  /\ c.a # "reg" => c.b = "reg" /\ "immLeft" \in Forms
  /\ p \in DOMAIN code.at /\ code.at[p] = Cmp(CmpLen(c), OrderOf(c))
  /\ SkipPending(c, p + CmpLen(c)) \/ SkipWritten(code, c, p + CmpLen(c))

ConditionsCompiled ==
  /\ \A i \in 1 .. Len(src) : src[i].cond # NoCond =>
       ConditionCompiled(src[i].cond, src[i].at)
  /\ \A d \in 1 .. Len(frames) : frames[d].part = "loop" => frames[d].tag = "loop"

----------------------------------------------------------------------------
(* How a step changes what is remembered of the program.                   *)

(* Items are only added to the program, one at a time.                     *)
LEMMA SourceGrows ==
  ASSUME src \in Seq(Items(Names)), NEW it \in Items(Names), src' = Append(src, it)
  PROVE  /\ Len(src) \in Nat /\ Len(src') = Len(src) + 1 /\ src' # <<>>
         /\ src'[Len(src')] = it
         /\ \A i \in 1 .. Len(src) :
              i \in 1 .. Len(src') /\ src'[i] = src[i] /\ BodyPtr(i)' = BodyPtr(i)
         /\ \A i \in 1 .. Len(src') : i \in 1 .. Len(src) \/ i = Len(src')
<1>1. /\ src' # <<>> /\ Len(src') = Len(src) + 1 /\ src'[Len(src) + 1] = it
      /\ \A i \in 1 .. Len(src) : src'[i] = src[i]
  BY AppendProperties
<1>2. Len(src) \in Nat
  BY LenProperties
<1>3. \A i \in 1 .. Len(src) : BodyPtr(i)' = BodyPtr(i)
  BY <1>1 DEF BodyPtr
<1> QED BY <1>1, <1>2, <1>3

(* A call that waits to be written lies before the end of the code.        *)
LEMMA CallsBehind ==
  ASSUME IInv, NEW p \in uncalled PROVE p \in Nat /\ p < code.len
<1> DEFINE t == Slot("call", 0, p, 5)
<1>1. t \in Slots /\ t.p = p /\ t.n = 5
  BY DEF Slots, TableSlots, Slot
<1> HIDE DEF t
<1> QED BY <1>1 DEF IInv, TypeOK, IsBuffer, PendingReserved, SlotsReserved, Reserved

(* The activation that goes on to its else block is otherwise the same.    *)
LEMMA ElseFrames ==
  ASSUME IInv, BeginElse
  PROVE  /\ Len(frames) \in Nat \ {0} /\ Len(frames') = Len(frames)
         /\ frames[Len(frames)] = Top /\ Top.part = "then" /\ Top'.part = "else"
         /\ Top'.ifBlockEndPtr = code.len
         /\ \A d \in 1 .. Len(frames) :
              /\ d # Len(frames) => frames'[d] = frames[d]
              /\ frames'[d].part = IF d = Len(frames) THEN "else" ELSE frames[d].part
              /\ frames'[d].tag = frames[d].tag /\ frames'[d].cond = frames[d].cond
              /\ frames'[d].condPtr = frames[d].condPtr
              /\ frames'[d].startPtr = frames[d].startPtr
              /\ frames'[d].jumpPastElsePtr = frames[d].jumpPastElsePtr
<1> DEFINE g == Top
           end == code.len
           f == [g EXCEPT !.part = "else", !.ifBlockEndPtr = end]
<1>1. frames # <<>> /\ Top.part = "then" /\ frames' = WithTop(f)
  BY DEF BeginElse, InPart
<1>2. g \in Frame /\ end \in Nat /\ "else" \in Parts
  BY <1>1, TopBelow DEF IInv, TypeOK, IsBuffer, Parts
<1>3. g = Top /\ end = code.len
  OBVIOUS
<1> HIDE DEF g, end
<1>4. /\ f \in Frame /\ f.part = "else" /\ f.tag = g.tag /\ f.cond = g.cond
      /\ f.condPtr = g.condPtr /\ f.startPtr = g.startPtr
      /\ f.jumpPastElsePtr = g.jumpPastElsePtr /\ f.ifBlockEndPtr = end
  BY <1>2 DEF Frame
<1> HIDE DEF f
<1>5. /\ Len(frames) \in Nat \ {0} /\ Len(WithTop(f)) = Len(frames)
      /\ \A d \in 1 .. Len(frames) :
           WithTop(f)[d] = IF d = Len(frames) THEN f ELSE frames[d]
  BY <1>1, <1>4, TopBelow DEF IInv, TypeOK
<1>6. frames[Len(frames)] = Top /\ Top' = f
  BY <1>1, <1>5 DEF Top
<1> QED BY <1>1, <1>3, <1>4, <1>5, <1>6

(* The steps that neither begin a procedure or a statement nor have to do  *)
(* with calls.                                                             *)
QuietSteps ==
  \/ EndProcedure \/ StrayLoopControl \/ EmitLonghand
  \/ (\E s \in Statement : BadCondition(s)) \/ (\E p \in uncalled : MissingProcedure(p))
  \/ (\E n \in BodyLens : EmitStraight(n)) \/ (\E n \in TextLens : EmitText(n))
  \/ EmitBreak \/ EmitContinue \/ EmitReturn
  \/ EndLoop \/ BeginElse \/ EndThen \/ EndElse \/ LeaveStatement

(* The program as before, or with one more marker.                         *)
MarkerAdded ==
  \/ src' = src
  \/ \E it \in Items(Names) :
       it.tag \in MarkerTags \ {"proc"} /\ it.cond = NoCond /\ src' = Append(src, it)

LEMMA QuietShape ==
  ASSUME IInv, QuietSteps
  PROVE  /\ UNCHANGED <<entry, procedureMap, callTable, uncalled>>
         /\ MarkerAdded
         /\ phase' = "error" \/ (phase = "body" /\ phase' \in {"body", "procs"})
         /\ ~Emitting("call") /\ ~InPart("emit")'
<1>1. /\ UNCHANGED <<entry, procedureMap, callTable, uncalled>>
      /\ phase' = "error" \/ (phase = "body" /\ phase' \in {"body", "procs"})
      /\ ~Emitting("call")
  BY DEF QuietSteps, EndProcedure, StrayLoopControl, EmitLonghand, BadCondition,
         MissingProcedure, EmitStraight, EmitText, EmitBreak, EmitContinue,
         EmitReturn, EndLoop, BeginElse, EndThen, EndElse, LeaveStatement,
         Emitting, InPart, InStatementList
<1>2. MarkerAdded
  <2>1. code.len \in Nat /\ (frames # <<>> => Len(frames) - 1 \in Nat /\ Top \in Frame)
    BY TopBelow DEF IInv, TypeOK, IsBuffer
  <2>2. ASSUME NEW tag \in MarkerTags \ {"proc"}, NEW depth \in Nat, NEW at \in Nat
        PROVE  /\ Marker(tag, depth, at) \in Items(Names)
               /\ Marker(tag, depth, at).tag = tag /\ Marker(tag, depth, at).cond = NoCond
    BY DEF Marker, Item, Items, MarkerTags
  <2>3. CASE EndProcedure
    BY <2>1, <2>2, <2>3 DEF EndProcedure, MarkerAdded, MarkerTags
  <2>4. CASE EndLoop \/ EndThen \/ EndElse
    BY <2>1, <2>2, <2>4 DEF EndLoop, EndThen, EndElse, InPart, MarkerAdded, MarkerTags
  <2>5. CASE BeginElse
    <3> DEFINE at == IF Top.jumpPastElsePtr = 0 THEN code.len ELSE Top.jumpPastElsePtr
    <3>1. frames # <<>> /\ src' = Append(src, Marker("else", Len(frames) - 1, at))
      BY <2>5 DEF BeginElse, InPart
    <3>2. at \in Nat
      BY <3>1, <2>1 DEF Frame
    <3> HIDE DEF at
    <3> QED BY <3>1, <3>2, <2>1, <2>2 DEF MarkerAdded, MarkerTags
  <2>6. CASE UNCHANGED src
    BY <2>6 DEF MarkerAdded
  <2> QED BY <2>3, <2>4, <2>5, <2>6
          DEF QuietSteps, StrayLoopControl, EmitLonghand, BadCondition,
              MissingProcedure, EmitStraight, EmitText, EmitBreak, EmitContinue,
              EmitReturn, LeaveStatement
<1>3. ~InPart("emit")'
  <2>1. CASE frames # <<>> /\ frames' = WithTop(Done)
    BY <2>1, DoneFrames DEF InPart
  <2>2. CASE BeginElse
    BY <2>2, ElseFrames DEF InPart
  <2>3. CASE LeaveStatement
    <3>1. frames' # <<>> => Len(frames') \in 1 .. Len(frames) - 1
      BY <2>3, LeaveFrames, EmptySeq
    <3>2. \A d \in 1 .. Len(frames) - 1 : frames'[d].part # "emit"
      BY <2>3, LeaveFrames DEF IInv, FramesOK
    <3> QED BY <3>1, <3>2 DEF InPart, Top
  <2>4. CASE phase' # "body"
    BY <2>4 DEF InPart
  <2> QED BY <2>1, <2>2, <2>3, <2>4
          DEF QuietSteps, EndProcedure, StrayLoopControl, EmitLonghand, BadCondition,
              MissingProcedure, EmitStraight, EmitText, EmitBreak, EmitContinue,
              EmitReturn, EndLoop, EndThen, EndElse, Emitting, InPart
<1> QED BY <1>1, <1>2, <1>3

(* What is kept of the calls when a step has nothing to do with them.      *)
LEMMA QuietCalls ==
  ASSUME IInv, CallInv, QuietSteps, Keeps(code, code')
  PROVE  CallInv'
<1>1. /\ UNCHANGED <<entry, procedureMap, callTable, uncalled>>
      /\ phase' = "error" \/ (phase = "body" /\ phase' \in {"body", "procs"})
      /\ ~Emitting("call") /\ ~InPart("emit")' /\ MarkerAdded
  BY QuietShape
<1>2. /\ \A i \in 1 .. Len(src) :
           i \in 1 .. Len(src') /\ src'[i] = src[i] /\ BodyPtr(i)' = BodyPtr(i)
      /\ \A i \in 1 .. Len(src') : src'[i].tag = "call" => i \in 1 .. Len(src)
  <2>1. CASE src' = src
    BY <2>1 DEF BodyPtr
  <2>2. CASE src' # src
    <3>1. PICK it \in Items(Names) : it.tag \in MarkerTags /\ src' = Append(src, it)
      BY <2>2, <1>1 DEF MarkerAdded
    <3> QED BY <3>1, SourceGrows DEF MarkerTags, IInv, TypeOK
  <2> QED BY <2>1, <2>2
<1>3. EmittedItem'
  BY <1>1 DEF EmittedItem
<1>4. ProceduresKnown'
  BY <1>1, <1>2 DEF CallInv, ProceduresKnown
<1>5. CallsKnown'
  BY <1>1, <1>2 DEF CallInv, CallsKnown, CallKnown
<1>6. CallsLinked'
  <2>1. \A to : CallTo(to) # Nop
    BY DEF CallTo, Nop, Ins
  <2> QED BY <2>1, <1>1 DEF CallInv, CallsLinked, Keeps
<1> QED BY <1>3, <1>4, <1>5, <1>6 DEF CallInv

(* A procedure begins: its item and its offset come together.              *)
LEMMA BeginProcedureCalls ==
  ASSUME IInv, CallInv, NEW n \in Names, BeginProcedure(n)
  PROVE  CallInv'
<1> DEFINE it == Item("proc", NoCond, n, 0, code.len)
<1>1. /\ phase = "procs" /\ phase' = "body" /\ frames = <<>>
      /\ procedureMap' = [m \in DOMAIN procedureMap \cup {n} |->
                            IF m = n THEN code.len ELSE procedureMap[m]]
      /\ src' = Append(src, it)
      /\ UNCHANGED <<frames, code, entry, callTable, uncalled>>
  BY DEF BeginProcedure, IInv, FramesOK
<1>2. it \in Items(Names) /\ it.tag = "proc" /\ it.name = n /\ it.at = code.len
  BY DEF IInv, TypeOK, IsBuffer, Item, Items, MarkerTags
<1> HIDE DEF it
<1>3. /\ Len(src') \in 1 .. Len(src') /\ src'[Len(src')] = it
      /\ \A i \in 1 .. Len(src) :
           i \in 1 .. Len(src') /\ src'[i] = src[i] /\ BodyPtr(i)' = BodyPtr(i)
      /\ \A i \in 1 .. Len(src') : i \in 1 .. Len(src) \/ i = Len(src')
  BY <1>1, <1>2, SourceGrows DEF IInv, TypeOK
<1>4. EmittedItem'
  BY <1>1 DEF EmittedItem, InPart
<1>5. ProceduresKnown'
  BY <1>1, <1>2, <1>3 DEF CallInv, ProceduresKnown
<1>6. CallsKnown'
  BY <1>1, <1>2, <1>3 DEF CallInv, CallsKnown, CallKnown, Emitting, InPart
<1>7. CallsLinked'
  BY <1>1 DEF CallInv, CallsLinked
<1> QED BY <1>4, <1>5, <1>6, <1>7 DEF CallInv

(* A statement is entered: its own code comes behind its condition's.      *)
LEMMA EnterCalls ==
  ASSUME IInv, CallInv, NEW s \in Statement, EnterStatement(s), Keeps(code, code')
  PROVE  CallInv'
<1> DEFINE it == Item(s.tag, s.cond, s.name, Len(frames), code.len)
<1>1. /\ phase = "body" /\ src' = Append(src, it)
      /\ UNCHANGED <<phase, entry, procedureMap, callTable, uncalled>>
      /\ ~InPart("emit")
  BY DEF EnterStatement, InStatementList, InPart
<1>2. /\ code.len \in Nat /\ Len(frames) \in Nat
      /\ s.tag \in StatementTags /\ s.name \in Names \cup {NoName}
      /\ s.cond # NoCond => s.cond \in Condition /\ CmpLen(s.cond) \in Nat \ {0}
      /\ frames' # <<>> /\ Top'.tag = s.tag /\ Top'.name = s.name
      /\ Top'.part = FirstPart(s.tag)
  BY EnterFrames
<1>3. /\ it \in Items(Names) /\ it.tag = s.tag /\ it.name = s.name
      /\ it.cond = s.cond /\ it.at = code.len
  BY <1>2 DEF Item, Items
<1> HIDE DEF it
<1>4. /\ Len(src') \in 1 .. Len(src') /\ src'[Len(src')] = it /\ src' # <<>>
      /\ \A i \in 1 .. Len(src) :
           i \in 1 .. Len(src') /\ src'[i] = src[i] /\ BodyPtr(i)' = BodyPtr(i)
      /\ \A i \in 1 .. Len(src') : i \in 1 .. Len(src) \/ i = Len(src')
  BY <1>1, <1>3, SourceGrows DEF IInv, TypeOK
<1>5. EmittedItem'
  <2>1. code'.len = code.len + (IF s.cond = NoCond THEN 0 ELSE CmpLen(s.cond) + 6)
    BY <1>2 DEF EnterStatement, EmitNop, EmitCmp, Emit, Cmp
  <2>2. BodyPtr(Len(src))' = code'.len
    BY <2>1, <1>3, <1>4 DEF BodyPtr
  <2> QED BY <2>2, <1>2, <1>3, <1>4 DEF EmittedItem
<1>6. ProceduresKnown'
  BY <1>1, <1>4 DEF CallInv, ProceduresKnown
<1>7. CallsKnown'
  <2>1. \A i \in 1 .. Len(src) : src[i].tag = "call" => CallKnown(i)'
    BY <1>1, <1>4 DEF CallInv, CallsKnown, CallKnown, Emitting
  <2>2. s.tag = "call" => Emitting("call")'
    BY <1>1, <1>2 DEF Emitting, InPart, FirstPart
  <2> QED BY <2>1, <2>2, <1>1, <1>3, <1>4 DEF CallsKnown
<1>8. CallsLinked'
  <2>1. \A to : CallTo(to) # Nop
    BY DEF CallTo, Nop, Ins
  <2> QED BY <2>1, <1>1 DEF CallInv, CallsLinked, Keeps
<1> QED BY <1>5, <1>6, <1>7, <1>8 DEF CallInv

(* A call statement: its place and its name go into the call table, where  *)
(* no earlier call is.                                                     *)
LEMMA EmitCalls ==
  ASSUME IInv, CallInv, EmitCallStatement
  PROVE  CallInv'
<1>1. /\ Emitting("call") /\ phase = "body" /\ frames # <<>>
      /\ Top.part = "emit" /\ Top.tag = "call"
      /\ callTable' = [p \in DOMAIN callTable \cup {code.len} |->
                         IF p = code.len THEN Top.name ELSE callTable[p]]
      /\ uncalled' = uncalled \cup {code.len}
      /\ frames' = WithTop(Done)
      /\ UNCHANGED <<phase, src, entry, procedureMap>>
  BY DEF EmitCallStatement, Emitting, InPart
<1>2. uncalled = DOMAIN callTable /\ DOMAIN callTable \ uncalled = {}
  BY <1>1 DEF CallInv, CallsLinked
<1>3. code.len \notin DOMAIN callTable
  BY <1>2, CallsBehind DEF IInv
<1>4. EmittedItem'
  BY <1>1, DoneFrames DEF EmittedItem, InPart
<1>5. ProceduresKnown'
  BY <1>1 DEF CallInv, ProceduresKnown
<1>6. CallsKnown'
  <2> SUFFICES ASSUME NEW i \in 1 .. Len(src), src[i].tag = "call"
               PROVE  BodyPtr(i) \in DOMAIN callTable' /\ callTable'[BodyPtr(i)] = src[i].name
    BY <1>1 DEF CallsKnown, CallKnown, BodyPtr
  <2>1. CASE CallKnown(i)
    BY <2>1, <1>1, <1>3 DEF CallKnown
  <2>2. CASE i = Len(src)
    BY <2>2, <1>1 DEF CallInv, EmittedItem, Emitting
  <2> QED BY <2>1, <2>2 DEF CallInv, CallsKnown
<1>7. CallsLinked'
  BY <1>1, <1>2 DEF CallInv, CallsLinked
<1> QED BY <1>4, <1>5, <1>6, <1>7 DEF CallInv

(* The start procedure: the call of main goes into the call table.         *)
LEMMA StartCalls ==
  ASSUME IInv, CallInv, CompileStart
  PROVE  CallInv'
<1> DEFINE at == code.len + 23
<1>1. code.len \in Nat
  BY SMTT(30) DEF IInv, TypeOK, IsBuffer
<1>2. /\ phase = "procs" /\ phase' = "calls" /\ entry' = code.len
      /\ callTable' = [p \in DOMAIN callTable \cup {at} |->
                         IF p = at THEN Main ELSE callTable[p]]
      /\ uncalled' = uncalled \cup {at}
      /\ UNCHANGED <<src, procedureMap>>
  BY DEF CompileStart, Emit, Ins
<1>3. uncalled = DOMAIN callTable
  BY <1>2 DEF CallInv, CallsLinked
<1>4. \A p \in DOMAIN callTable : p \in DOMAIN callTable' /\ callTable'[p] = callTable[p]
  <2>1. at \notin DOMAIN callTable
    BY <1>1, <1>3, CallsBehind
  <2> QED BY <2>1, <1>2
<1>5. EmittedItem' /\ ProceduresKnown'
  BY <1>2 DEF EmittedItem, InPart, CallInv, ProceduresKnown
<1>6. CallsKnown'
  <2>1. entry' + 23 \in DOMAIN callTable' /\ callTable'[entry' + 23] = Main
    BY <1>2
  <2>2. \A i \in 1 .. Len(src) : src[i].tag = "call" => CallKnown(i)
    BY <1>2 DEF CallInv, CallsKnown, Emitting, InPart
  <2>3. \A i \in 1 .. Len(src) : src[i].tag = "call" => CallKnown(i)'
    BY <2>2, <1>2, <1>4 DEF CallKnown, BodyPtr
  <2> QED BY <2>1, <2>3, <1>2 DEF CallsKnown
<1>7. CallsLinked'
  BY <1>2, <1>3 DEF CallInv, CallsLinked
<1> QED BY <1>5, <1>6, <1>7 DEF CallInv

(* A call is written, to the offset its name has in the map.               *)
LEMMA LinkCalls ==
  ASSUME IInv, CallInv, NEW p \in uncalled, LinkCall(p), Keeps(code, code')
  PROVE  CallInv'
<1>1. /\ phase = "calls" /\ callTable[p] \in DOMAIN procedureMap
      /\ code' = WriteCall(code, p, procedureMap[callTable[p]])
      /\ uncalled' = uncalled \ {p}
      /\ UNCHANGED <<phase, src, entry, procedureMap, callTable>>
  BY DEF LinkCall
<1>2. p \in DOMAIN code'.at /\ code'.at[p] = CallTo(procedureMap[callTable[p]])
  BY <1>1 DEF WriteCall, Patch
<1>3. EmittedItem' /\ ProceduresKnown'
  BY <1>1 DEF EmittedItem, InPart, CallInv, ProceduresKnown
<1>4. CallsKnown'
  BY <1>1 DEF CallInv, CallsKnown, CallKnown, BodyPtr, Emitting, InPart
<1>5. CallsLinked'
  <2>1. \A to : CallTo(to) # Nop
    BY DEF CallTo, Nop, Ins
  <2>2. ASSUME NEW q \in DOMAIN callTable \ uncalled'
        PROVE  /\ callTable[q] \in DOMAIN procedureMap /\ q \in DOMAIN code'.at
               /\ code'.at[q] = CallTo(procedureMap[callTable[q]])
    <3>1. CASE q = p
      BY <3>1, <1>1, <1>2
    <3>2. CASE q # p
      BY <3>2, <2>1, <1>1 DEF CallInv, CallsLinked, Keeps
    <3> QED BY <3>1, <3>2
  <2> QED BY <2>2, <1>1 DEF CallsLinked
<1> QED BY <1>3, <1>4, <1>5 DEF CallInv

(* Compile returns when no call is left.                                   *)
LEMMA CompiledCalls ==
  ASSUME CallInv, Compiled \/ UNCHANGED vars
  PROVE  CallInv'
<1>1. /\ UNCHANGED <<src, frames, code, entry, procedureMap, callTable, uncalled>>
      /\ \/ phase' = phase
         \/ phase = "calls" /\ phase' = "done" /\ uncalled = {}
  BY DEF Compiled, vars
<1>2. EmittedItem' /\ ProceduresKnown'
  BY <1>1 DEF CallInv, EmittedItem, ProceduresKnown, InPart, Top, BodyPtr
<1>3. CallsKnown'
  BY <1>1 DEF CallInv, CallsKnown, CallKnown, BodyPtr, Emitting, InPart, Top
<1>4. CallsLinked'
  BY <1>1 DEF CallInv, CallsLinked
<1> QED BY <1>2, <1>3, <1>4 DEF CallInv

LEMMA NextCalls ==
  ASSUME IInv, CallInv, SafeForms, [Next]_vars
  PROVE  CallInv'
<1>1. Keeps(code, code')
  BY NextInvariant
<1>2. ASSUME NEW n \in Names, BeginProcedure(n) PROVE CallInv'
  BY <1>2, BeginProcedureCalls
<1>3. ASSUME NEW s \in Statement, EnterStatement(s) PROVE CallInv'
  BY <1>1, <1>3, EnterCalls
<1>4. CASE EmitCallStatement
  BY <1>4, EmitCalls
<1>5. CASE CompileStart
  BY <1>5, StartCalls
<1>6. ASSUME NEW p \in uncalled, LinkCall(p) PROVE CallInv'
  BY <1>1, <1>6, LinkCalls
<1>7. CASE QuietSteps
  BY <1>1, <1>7, QuietCalls
<1>8. CASE Compiled \/ UNCHANGED vars
  BY <1>8, CompiledCalls
<1> QED BY <1>2, <1>3, <1>4, <1>5, <1>6, <1>7, <1>8
        DEF Next, Compile, Returned, QuietSteps

LEMMA CallInvariant ==
  ASSUME SafeForms PROVE Spec => []CallInv
<1>1. Init => CallInv
  <2> SUFFICES ASSUME Init PROVE CallInv
    OBVIOUS
  <2>1. Len(src) = 0
    BY DEF Init
  <2> QED BY <2>1 DEF Init, CallInv, EmittedItem, InPart, ProceduresKnown, CallsKnown,
                      CallsLinked
<1> QED BY <1>1, NextCalls, Invariant, PTL DEF Spec

(* Whatever program is compiled, with however many procedures and calls,   *)
(* recursive ones and ones of procedures that come later included, every   *)
(* call statement has become a call of the procedure it names, and the     *)
(* start procedure calls main.                                             *)
THEOREM CallsBound ==
  ASSUME SafeForms PROVE Spec => []CallsReachEntry
<1>1. CallInv => CallsReachEntry
  <2> SUFFICES ASSUME CallInv, phase = "done" PROVE CallsReachEntry
    BY DEF CallsReachEntry
  <2>1. ASSUME NEW p \in DOMAIN callTable
        PROVE  \E j \in 1 .. Len(src) :
                 /\ src[j].tag = "proc" /\ src[j].name = callTable[p]
                 /\ code.at[p] = CallTo(src[j].at)
    <3>1. callTable[p] \in DOMAIN procedureMap
          /\ code.at[p] = CallTo(procedureMap[callTable[p]])
      BY DEF CallInv, CallsLinked
    <3> QED BY <3>1 DEF CallInv, ProceduresKnown
  <2>2. \A i \in 1 .. Len(src) : src[i].tag = "call" => CallKnown(i)
    BY DEF CallInv, CallsKnown, Emitting, InPart
  <2>3. entry + 23 \in DOMAIN callTable /\ callTable[entry + 23] = Main
    BY DEF CallInv, CallsKnown
  <2> QED BY <2>1, <2>2, <2>3, SMTT(30) DEF CallsReachEntry, CallKnown
<1> QED BY <1>1, CallInvariant, PTL

----------------------------------------------------------------------------
(* Conditions.                                                             *)

(* A place that an activation remembers for the jump over its statement is *)
(* still remembered after a step, or the jump is there.                    *)
Carried(d) ==
  \/ \E e \in 1 .. Len(frames') :
       /\ CondPending(frames'[e])
       /\ frames'[e].cond = frames[d].cond /\ frames'[e].condPtr = frames[d].condPtr
  \/ SkipWritten(code', frames[d].cond, frames[d].condPtr)

SkipsCarried == \A d \in 1 .. Len(frames) : CondPending(frames[d]) => Carried(d)

(* What a jump over a statement is, once written.                          *)
LEMMA SkipIsWritten ==
  ASSUME NEW b, NEW f, NEW to
  PROVE  /\ f.condPtr \in DOMAIN WriteSkip(b, f, to).at
         /\ WriteSkip(b, f, to).at[f.condPtr].op = "jcc"
         /\ WriteSkip(b, f, to).at[f.condPtr].len = 6
         /\ WriteSkip(b, f, to).at[f.condPtr].how = SkipComparison(f.cond)
BY DEF WriteSkip, Patch, Jcc

(* Statements that are done without a jump over them, and then blocks that *)
(* an else block follows, still have theirs to be written.                 *)
LEMMA SkipsStay ==
  ASSUME IInv, \A d \in 1 .. Len(frames) : frames[d].part = "loop" => frames[d].tag = "loop",
         QuietSteps \/ EmitCallStatement, ~(EndThen \/ EndElse \/ LeaveStatement)
  PROVE  SkipsCarried
<1>1. CASE frames' = frames
  BY <1>1 DEF SkipsCarried, Carried
<1>2. CASE frames # <<>> /\ frames' = WithTop(Done) /\ Top.tag # "branch"
  <2>1. /\ Len(frames) \in Nat \ {0} /\ Len(frames') = Len(frames)
        /\ frames[Len(frames)] = Top
        /\ \A d \in 1 .. Len(frames) :
             /\ frames'[d].part = IF d = Len(frames) THEN "done" ELSE frames[d].part
             /\ frames'[d].tag = frames[d].tag /\ frames'[d].cond = frames[d].cond
             /\ frames'[d].condPtr = frames[d].condPtr
    BY <1>2, DoneFrames
  <2>2. \A d \in 1 .. Len(frames) : CondPending(frames[d]) => CondPending(frames'[d])
    BY <2>1, <1>2 DEF CondPending
  <2> QED BY <2>1, <2>2 DEF SkipsCarried, Carried
<1>3. CASE BeginElse
  BY <1>3, ElseFrames DEF SkipsCarried, Carried, CondPending
<1>4. EndLoop => Top.tag = "loop"
  <2>1. frames # <<>> => Len(frames) \in 1 .. Len(frames)
    BY TopBelow DEF IInv, TypeOK
  <2> QED BY <2>1 DEF EndLoop, InPart, Top
<1> QED BY <1>1, <1>2, <1>3, <1>4
        DEF QuietSteps, EndProcedure, StrayLoopControl, EmitLonghand, BadCondition,
            MissingProcedure, EmitStraight, EmitText, EmitBreak, EmitContinue,
            EmitReturn, EmitCallStatement, EndLoop, Emitting, InPart

(* The end of a branch and of any other statement: the jump over it is     *)
(* written, and those of the activations around it stay to be written.     *)
LEMMA SkipsEnd ==
  ASSUME IInv, Keeps(code, code'), EndThen \/ EndElse \/ LeaveStatement
  PROVE  SkipsCarried
<1>1. CASE EndThen \/ EndElse
  <2>1. frames # <<>> /\ frames' = WithTop(Done)
        /\ \E b, to : code' = WriteSkip(b, Top, to)
    BY <1>1 DEF EndThen, EndElse, InPart
  <2>2. /\ Len(frames) \in Nat \ {0} /\ Len(frames') = Len(frames)
        /\ frames[Len(frames)] = Top
        /\ \A d \in 1 .. Len(frames) :
             /\ d # Len(frames) => frames'[d].part = frames[d].part
             /\ frames'[d].tag = frames[d].tag /\ frames'[d].cond = frames[d].cond
             /\ frames'[d].condPtr = frames[d].condPtr
    BY <2>1, DoneFrames
  <2>3. Carried(Len(frames))
    BY <2>1, <2>2, SkipIsWritten DEF Carried, SkipWritten
  <2>4. ASSUME NEW d \in 1 .. Len(frames), d # Len(frames), CondPending(frames[d])
        PROVE  Carried(d)
    BY <2>2, <2>4 DEF Carried, CondPending
  <2> QED BY <2>3, <2>4 DEF SkipsCarried
<1>2. CASE LeaveStatement
  <2>1. /\ Len(frames) \in Nat \ {0} /\ Len(frames') = Len(frames) - 1
        /\ \A d \in 1 .. Len(frames) - 1 :
             /\ frames'[d].tag = frames[d].tag /\ frames'[d].cond = frames[d].cond
             /\ frames'[d].part = frames[d].part
             /\ frames'[d].condPtr = frames[d].condPtr
    BY <1>2, LeaveFrames
  <2>2. ASSUME NEW d \in 1 .. Len(frames), d # Len(frames), CondPending(frames[d])
        PROVE  Carried(d)
    BY <2>1, <2>2 DEF Carried, CondPending
  <2>3. ASSUME CondPending(Top) PROVE Carried(Len(frames))
    <3> DEFINE skipped == WriteSkip(code, Top, code.len)
    <3>1. /\ Top.part = "done" /\ frames[Len(frames)] = Top
          /\ code' = skipped \/ code' = EmitNop(skipped, 5)
      BY <1>2, <2>3 DEF LeaveStatement, InPart, CondPending, Top
    <3>2. /\ Top.condPtr \in DOMAIN skipped.at /\ skipped.at[Top.condPtr].op = "jcc"
          /\ skipped.at[Top.condPtr].len = 6
          /\ skipped.at[Top.condPtr].how = SkipComparison(Top.cond)
      BY SkipIsWritten
    <3> HIDE DEF skipped
    <3>3. SkipWritten(code', Top.cond, Top.condPtr)
      BY <3>1, <3>2 DEF SkipWritten, EmitNop
    <3> QED BY <3>1, <3>3 DEF Carried
  <2>4. frames[Len(frames)] = Top
    BY DEF Top
  <2> QED BY <2>2, <2>3, <2>4 DEF SkipsCarried
<1> QED BY <1>1, <1>2

(* Every condition compiled before a step is still compiled after it.      *)
LEMMA ConditionsStay ==
  ASSUME IInv, Keeps(code, code'), SkipsCarried,
         NEW c, NEW p, ConditionCompiled(c, p)
  PROVE  ConditionCompiled(c, p)'
<1> DEFINE skip == p + CmpLen(c)
<1>1. \A to, n : Cmp(n, to) # Nop /\ Nop.op # "jcc"
  BY DEF Cmp, Nop, Ins
<1>2. p \in DOMAIN code'.at /\ code'.at[p] = Cmp(CmpLen(c), OrderOf(c))
  BY <1>1 DEF ConditionCompiled, Keeps
<1>3. SkipPending(c, skip)' \/ SkipWritten(code', c, skip)
  <2>1. CASE SkipPending(c, skip)
    BY <2>1 DEF SkipPending, SkipsCarried, Carried
  <2>2. CASE SkipWritten(code, c, skip)
    BY <2>2, <1>1 DEF SkipWritten, Keeps
  <2> QED BY <2>1, <2>2 DEF ConditionCompiled
<1> QED BY <1>2, <1>3 DEF ConditionCompiled

(* A statement is entered: its comparison comes first, and its activation  *)
(* remembers the jump.                                                     *)
LEMMA EnterConditions ==
  ASSUME IInv, ConditionsCompiled, NEW s \in Statement, EnterStatement(s),
         Keeps(code, code')
  PROVE  ConditionsCompiled'
<1> DEFINE it == Item(s.tag, s.cond, s.name, Len(frames), code.len)
<1>1. /\ code.len \in Nat /\ Len(frames) \in Nat
      /\ s.tag \in StatementTags /\ s.name \in Names \cup {NoName}
      /\ s.cond # NoCond => s.cond \in Condition /\ CmpLen(s.cond) \in Nat \ {0}
      /\ frames' # <<>> /\ Len(frames') = Len(frames) + 1
      /\ frames'[Len(frames')] = Top'
      /\ \A d \in 1 .. Len(frames) : frames'[d] = frames[d]
      /\ Top'.tag = s.tag /\ Top'.cond = s.cond
      /\ Top'.part = FirstPart(s.tag)
      /\ s.cond # NoCond => Top'.condPtr = code.len + CmpLen(s.cond)
  BY EnterFrames
<1>2. /\ it \in Items(Names) /\ it.cond = s.cond /\ it.at = code.len
  BY <1>1 DEF Item, Items
<1>3. src' = Append(src, it)
  BY DEF EnterStatement
<1> HIDE DEF it
<1>4. /\ Len(src') \in 1 .. Len(src') /\ src'[Len(src')] = it
      /\ \A i \in 1 .. Len(src) : src'[i] = src[i]
      /\ \A i \in 1 .. Len(src') : i \in 1 .. Len(src) \/ i = Len(src')
  BY <1>2, <1>3, SourceGrows DEF IInv, TypeOK
<1>5. SkipsCarried
  BY <1>1 DEF SkipsCarried, Carried
<1>6. ASSUME NEW i \in 1 .. Len(src), NEW c, NEW p,
             c = src[i].cond, p = src[i].at, c # NoCond
      PROVE  ConditionCompiled(c, p)'
  <2>1. ConditionCompiled(c, p)
    BY <1>6 DEF ConditionsCompiled
  <2> QED BY <2>1, <1>5, ConditionsStay
<1>7. ASSUME NEW c, NEW p, c = s.cond, p = code.len, c # NoCond
      PROVE  ConditionCompiled(c, p)'
  <2>1. /\ c.a # "reg" => c.b = "reg"
        /\ c.a \in OperandKinds
        /\ c.a \in Immediates /\ c.b = "reg" => "immLeft" \in Forms
    BY <1>1, <1>7 DEF EnterStatement, Comparable, Admitted, Condition
  <2>2. code' = EmitNop(EmitCmp(code, c), 6)
    BY <1>7 DEF EnterStatement
  <2>3. p \in DOMAIN code'.at /\ code'.at[p] = Cmp(CmpLen(c), OrderOf(c))
    BY <2>2, <1>7 DEF EmitNop, EmitCmp, Emit, OrderOf
  <2>4. SkipPending(c, p + CmpLen(c))'
    <3>1. CondPending(Top')
      BY <1>1, <1>7 DEF CondPending, FirstPart
    <3> QED BY <3>1, <1>1, <1>7 DEF SkipPending
  <2> QED BY <2>1, <2>3, <2>4, <1>1, <1>7 DEF ConditionCompiled, OperandKinds
<1>8. \A d \in 1 .. Len(frames') : frames'[d].part = "loop" => frames'[d].tag = "loop"
  <2>1. FirstPart(s.tag) = "loop" => s.tag = "loop"
    BY DEF FirstPart
  <2> QED BY <2>1, <1>1 DEF ConditionsCompiled
<1> QED BY <1>2, <1>4, <1>6, <1>7, <1>8
        DEF ConditionsCompiled, ConditionCompiled, SkipPending

(* No other step touches a comparison, or leaves a jump over a statement   *)
(* unwritten.                                                              *)
LEMMA OtherConditions ==
  ASSUME IInv, ConditionsCompiled, Keeps(code, code'),
         SkipsCarried,
         \A d \in 1 .. Len(frames') : frames'[d].part = "loop" => frames'[d].tag = "loop",
         src' = src \/ \E it \in Items(Names) : it.cond = NoCond /\ src' = Append(src, it)
  PROVE  ConditionsCompiled'
<1>1. ASSUME NEW i \in 1 .. Len(src'), src'[i].cond # NoCond
      PROVE  i \in 1 .. Len(src) /\ src'[i] = src[i]
  <2>1. CASE src' # src
    <3>1. PICK it \in Items(Names) : it.cond = NoCond /\ src' = Append(src, it)
      BY <2>1
    <3> QED BY <1>1, <3>1, SourceGrows DEF IInv, TypeOK
  <2> QED BY <2>1
<1>2. ASSUME NEW i \in 1 .. Len(src), NEW c, NEW p,
             c = src[i].cond, p = src[i].at, c # NoCond
      PROVE  ConditionCompiled(c, p)'
  <2>1. ConditionCompiled(c, p)
    BY <1>2 DEF ConditionsCompiled
  <2> QED BY <2>1, ConditionsStay
<1> QED BY <1>1, <1>2 DEF ConditionsCompiled, ConditionCompiled, SkipPending

LEMMA NextConditions ==
  ASSUME IInv, ConditionsCompiled, SafeForms, [Next]_vars
  PROVE  ConditionsCompiled'
<1>1. Keeps(code, code') /\ IInv'
  BY NextInvariant
<1>2. ASSUME NEW s \in Statement, EnterStatement(s) PROVE ConditionsCompiled'
  BY <1>1, <1>2, EnterConditions
<1>3. CASE QuietSteps \/ EmitCallStatement
  <2>1. SkipsCarried
    BY <1>1, <1>3, SkipsStay, SkipsEnd DEF ConditionsCompiled
  <2>2. \A d \in 1 .. Len(frames') : frames'[d].part = "loop" => frames'[d].tag = "loop"
    <3>1. CASE frames' = frames
      BY <3>1 DEF ConditionsCompiled
    <3>2. CASE frames # <<>> /\ frames' = WithTop(Done)
      BY <3>2, DoneFrames DEF ConditionsCompiled
    <3>3. CASE BeginElse
      BY <1>1, <3>3, ElseFrames DEF ConditionsCompiled
    <3>4. CASE LeaveStatement
      BY <3>4, LeaveFrames DEF ConditionsCompiled
    <3> QED BY <3>1, <3>2, <3>3, <3>4, <1>3
            DEF QuietSteps, EndProcedure, StrayLoopControl, EmitLonghand, BadCondition,
                MissingProcedure, EmitStraight, EmitText, EmitBreak, EmitContinue,
                EmitReturn, EmitCallStatement, EndLoop, EndThen, EndElse, Emitting, InPart
  <2>3. src' = src \/ \E it \in Items(Names) : it.cond = NoCond /\ src' = Append(src, it)
    BY <1>3, QuietShape DEF MarkerAdded, EmitCallStatement
  <2> QED BY <1>1, <2>1, <2>2, <2>3, OtherConditions
<1>4. ASSUME \/ \E n \in Names : BeginProcedure(n)
             \/ CompileStart \/ Compiled \/ UNCHANGED vars
             \/ \E p \in uncalled : LinkCall(p)
      PROVE  ConditionsCompiled'
  <2>1. frames' = frames
    BY <1>4 DEF BeginProcedure, CompileStart, Compiled, LinkCall, vars
  <2>2. src' = src \/ \E it \in Items(Names) : it.cond = NoCond /\ src' = Append(src, it)
    <3>1. ASSUME NEW n \in Names
          PROVE  /\ Item("proc", NoCond, n, 0, code.len) \in Items(Names)
                 /\ Item("proc", NoCond, n, 0, code.len).cond = NoCond
      BY DEF IInv, TypeOK, IsBuffer, Item, Items, MarkerTags
    <3> QED BY <3>1, <1>4 DEF BeginProcedure, CompileStart, Compiled, LinkCall, vars
  <2>3. SkipsCarried
    BY <2>1 DEF SkipsCarried, Carried
  <2> QED BY <1>1, <2>1, <2>2, <2>3, OtherConditions DEF ConditionsCompiled
<1> QED BY <1>2, <1>3, <1>4 DEF Next, Compile, Returned, QuietSteps

LEMMA ConditionsInvariant ==
  ASSUME SafeForms PROVE Spec => []ConditionsCompiled
<1>1. Init => ConditionsCompiled
  <2>1. Init => Len(src) = 0 /\ Len(frames) = 0
    BY DEF Init
  <2> QED BY <2>1 DEF ConditionsCompiled
<1> QED BY <1>1, NextConditions, Invariant, PTL DEF Spec

(* A comparison and its negation hold of opposite outcomes.                *)
LEMMA NegationOpposes ==
  ASSUME NEW c \in Comparisons, NEW rel \in Relations
  PROVE  Holds(Negation(c), rel) <=> ~Holds(c, rel)
<1>1. \E d \in Comparisons : <<c, d>> \in Opposites \/ <<d, c>> \in Opposites
  BY DEF Comparisons, Opposites
<1>2. <<c, Negation(c)>> \in Opposites \/ <<Negation(c), c>> \in Opposites
  BY <1>1 DEF Negation
<1> QED BY <1>2 DEF Opposites, Comparisons, Relations, Holds

(* Whatever program is compiled, with conditions on statements of every    *)
(* kind, nested in any way: as long as no condition has an immediate on    *)
(* the left, each is compiled to a comparison and a jump that skips the    *)
(* statement exactly when the condition does not hold.                     *)
THEOREM ConditionsBound ==
  ASSUME SafeForms, "immLeft" \notin Forms PROVE Spec => []ConditionExact
<1>1. IInv /\ ConditionsCompiled => ConditionExact
  <2> SUFFICES ASSUME IInv, ConditionsCompiled, phase = "done",
                      NEW i \in 1 .. Len(src), src[i].cond # NoCond,
                      NEW c, c = src[i].cond, NEW p, p = src[i].at
               PROVE  /\ code.at[p].op = "cmp" /\ code.at[p + CmpLen(c)].op = "jcc"
                      /\ \A rel \in Relations :
                           Holds(code.at[p + CmpLen(c)].how,
                                 IF code.at[p].how = "ab" THEN rel ELSE Converse[rel])
                             <=> ~Holds(c.comp, rel)
    BY DEF ConditionExact
  <2>1. ConditionCompiled(c, p)
    BY DEF ConditionsCompiled
  <2>2. ~SkipPending(c, p + CmpLen(c))
    <3>1. Len(frames) = 0
      BY DEF IInv, FramesOK
    <3> QED BY <3>1 DEF SkipPending
  <2>3. c.a = "reg" /\ c.comp \in Comparisons
    BY <2>1 DEF ConditionCompiled, Condition
  <2>4. /\ code.at[p].op = "cmp" /\ code.at[p].how = "ab"
        /\ code.at[p + CmpLen(c)].op = "jcc"
        /\ code.at[p + CmpLen(c)].how = Negation(c.comp)
    BY <2>1, <2>2, <2>3
       DEF ConditionCompiled, SkipWritten, Cmp, OrderOf, SkipComparison
  <2> QED BY <2>3, <2>4, NegationOpposes
<1> QED BY <1>1, Invariant, ConditionsInvariant, PTL

----------------------------------------------------------------------------
(* Where break and continue go.  The compiler knows no loop by name: it    *)
(* has two tables of places and fills them at the end of whatever loop     *)
(* ends next.  As long as no loop begins behind a break or a continue that *)
(* still waits, that is the innermost loop around it.                      *)


(* Item j is a loop around item i; item e is its end.                      *)
Around(s, j, i) == s[j].tag = "loop" /\ \A k \in j + 1 .. i : s[k].depth > s[j].depth

Closes(s, j, e) ==
  /\ e \in j + 1 .. Len(s) /\ s[e].tag = "end" /\ s[e].depth = s[j].depth
  /\ \A k \in j + 1 .. e - 1 : ~(s[k].tag = "end" /\ s[k].depth = s[j].depth)

(* Item j is the loop whose statements activation d is compiling.          *)
OpenLoop(d, j) ==
  /\ frames[d].part = "loop"
  /\ src[j].tag = "loop" /\ src[j].depth = d - 1 /\ src[j].at = frames[d].startPtr
  /\ \A k \in j + 1 .. Len(src) : src[k].depth >= d

LoopsTracked ==
  /\ \A d \in 1 .. Len(frames) :
       frames[d].part = "loop" => \E j \in 1 .. Len(src) : OpenLoop(d, j)
  /\ \A j \in 1 .. Len(src) : src[j].tag = "loop" =>
       (\E e \in 1 .. Len(src) : Closes(src, j, e)) \/ \E d \in 1 .. Len(frames) : OpenLoop(d, j)

(* Item i jumps where loop j, which ends with item e, wants it to.         *)
BoundTo(i, j, e) ==
  /\ Around(src, j, i) /\ (\A m \in j + 1 .. i - 1 : ~Around(src, m, i))
  /\ Closes(src, j, e)
  /\ BodyPtr(i) \in DOMAIN code.at
  /\ code.at[BodyPtr(i)] = Jmp(IF src[i].tag = "break" THEN src[e].at + 5 ELSE src[j].at)

Bound(i) == \E j \in 1 .. i - 1 : \E e \in 1 .. Len(src) : BoundTo(i, j, e)

(* Item i waits for its loop to end: of the loops around it none has, and  *)
(* every loop being compiled is one of them.                               *)
InTable(i) ==
  \/ src[i].tag = "break" /\ BodyPtr(i) \in loopBreaks
  \/ src[i].tag = "continue" /\ BodyPtr(i) \in loopContinues

Emitted(i) == i = Len(src) /\ Emitting(src[i].tag)

Waits(i) ==
  /\ InTable(i) \/ Emitted(i)
  /\ \A j \in 1 .. i - 1 : Around(src, j, i) => \E d \in 1 .. Len(frames) : OpenLoop(d, j)
  /\ \A d \in 1 .. Len(frames) : \A j \in 1 .. Len(src) : OpenLoop(d, j) => j < i

Escapes == {"break", "continue"}

ControlKnown ==
  /\ \A i \in 1 .. Len(src) : src[i].tag \in Escapes => Bound(i) \/ Waits(i)
  /\ phase \in {"procs", "calls", "done"} => loopBreaks = {} /\ loopContinues = {}

(* Every item belongs to a procedure.                                      *)
Belongs(s, i) ==
  \E g \in 1 .. i : s[g].tag = "proc" /\ \A k \in g + 1 .. i : s[k].tag # "proc"

ProceduresBegin ==
  /\ phase = "body" => src # <<>>
  /\ \A i \in 1 .. Len(src) : Belongs(src, i) /\ (src[i].tag = "proc" => src[i].depth = 0)

LoopInv == LoopsTracked /\ ControlKnown /\ ProceduresBegin

----------------------------------------------------------------------------
(* What is said of the items of a program holds when items are added.      *)
Grown(s, t) ==
  /\ Len(s) \in Nat /\ Len(t) \in Nat /\ Len(s) <= Len(t)
  /\ \A i \in 1 .. Len(s) : t[i] = s[i]

LEMMA AroundStays ==
  ASSUME NEW s, NEW t, Grown(s, t), NEW i \in 1 .. Len(s), NEW j \in 1 .. i
  PROVE  Around(t, j, i) <=> Around(s, j, i)
<1>1. t[j] = s[j] /\ \A k \in j + 1 .. i : t[k] = s[k]
  BY DEF Grown
<1> QED BY <1>1 DEF Around

LEMMA ClosesStays ==
  ASSUME NEW s, NEW t, Grown(s, t), NEW j \in 1 .. Len(s), NEW e, Closes(s, j, e)
  PROVE  Closes(t, j, e) /\ e \in 1 .. Len(s)
<1>1. e \in 1 .. Len(s) /\ e \in j + 1 .. Len(t)
  BY DEF Closes, Grown
<1>2. t[j] = s[j] /\ \A k \in j + 1 .. e : t[k] = s[k]
  BY <1>1 DEF Grown
<1>3. e \in j + 1 .. e /\ \A k \in j + 1 .. e - 1 : k \in j + 1 .. e
  BY <1>1
<1> QED BY <1>1, <1>2, <1>3 DEF Closes

LEMMA BelongsStays ==
  ASSUME NEW s, NEW t, Grown(s, t), NEW i \in 1 .. Len(s), Belongs(s, i)
  PROVE  Belongs(t, i)
BY DEF Belongs, Grown

(* A jump that is written stays.                                           *)
LEMMA BoundStays ==
  ASSUME Grown(src, src'), Keeps(code, code'), NEW i \in 1 .. Len(src), Bound(i)
  PROVE  Bound(i)'
<1>1. PICK j \in 1 .. i - 1, e \in 1 .. Len(src) : BoundTo(i, j, e)
  BY DEF Bound
<1>2. /\ i \in 1 .. Len(src') /\ e \in 1 .. Len(src') /\ j \in 1 .. i /\ j \in 1 .. Len(src)
      /\ src'[i] = src[i] /\ src'[j] = src[j] /\ src'[e] = src[e]
  BY DEF Grown
<1>3. Around(src', j, i) /\ \A m \in j + 1 .. i - 1 : ~Around(src', m, i)
  BY <1>1, <1>2, AroundStays, SMTT(30) DEF BoundTo
<1>4. Closes(src', j, e)
  BY <1>1, <1>2, ClosesStays DEF BoundTo
<1>5. BodyPtr(i)' = BodyPtr(i)
  BY <1>2 DEF BodyPtr
<1>6. \A to : Jmp(to) # Nop
  BY DEF Jmp, Nop, Ins
<1>7. BodyPtr(i) \in DOMAIN code'.at /\ code'.at[BodyPtr(i)] = code.at[BodyPtr(i)]
  BY <1>1, <1>6 DEF BoundTo, Keeps
<1>8. BoundTo(i, j, e)'
  BY <1>1, <1>2, <1>3, <1>4, <1>5, <1>7 DEF BoundTo
<1> QED BY <1>2, <1>8 DEF Bound

(* The activations that compile the statements of a loop stay when others  *)
(* come and go.                                                            *)
SameLoops ==
  /\ \A d \in 1 .. Len(frames) : frames[d].part = "loop" =>
       /\ d \in 1 .. Len(frames') /\ frames'[d].part = "loop"
       /\ frames'[d].startPtr = frames[d].startPtr
  /\ \A d \in 1 .. Len(frames') : frames'[d].part = "loop" =>
       d \in 1 .. Len(frames) /\ frames[d].part = "loop"

(* An item that is added is in all the loops being compiled.               *)
InLoops(it) == \A d \in 1 .. Len(frames) : frames[d].part = "loop" => it.depth >= d

Adding(it) == it \in Items(Names) /\ it.tag # "loop" /\ InLoops(it) /\ src' = Append(src, it)

LEMMA OpenStays ==
  ASSUME Grown(src, src'), SameLoops, src' = src \/ \E it : Adding(it), IInv
  PROVE  /\ \A d \in 1 .. Len(frames), j \in 1 .. Len(src) : OpenLoop(d, j) => OpenLoop(d, j)'
         /\ \A d \in 1 .. Len(frames'), j \in 1 .. Len(src') : OpenLoop(d, j)' =>
              d \in 1 .. Len(frames) /\ j \in 1 .. Len(src) /\ OpenLoop(d, j)
<1>1. ASSUME NEW j \in 1 .. Len(src'), src'[j].tag = "loop" PROVE j \in 1 .. Len(src)
  BY <1>1, SourceGrows DEF Adding, IInv, TypeOK
<1>2. ASSUME NEW d \in 1 .. Len(frames), frames[d].part = "loop",
             NEW k \in 1 .. Len(src'), k \notin 1 .. Len(src)
      PROVE  src'[k].depth >= d
  BY <1>2, SourceGrows DEF Adding, InLoops, IInv, TypeOK
<1>3. ASSUME NEW d \in 1 .. Len(frames), NEW j \in 1 .. Len(src), OpenLoop(d, j)
      PROVE  OpenLoop(d, j)'
  <2>1. src'[j] = src[j] /\ frames'[d].part = "loop" /\ frames'[d].startPtr = frames[d].startPtr
    BY <1>3 DEF OpenLoop, Grown, SameLoops
  <2>2. ASSUME NEW k \in j + 1 .. Len(src') PROVE src'[k].depth >= d
    <3>1. k \in 1 .. Len(src')
      BY DEF Grown
    <3>2. CASE k \in 1 .. Len(src)
      BY <1>3, <3>2 DEF OpenLoop, Grown
    <3> QED BY <1>2, <1>3, <3>1, <3>2 DEF OpenLoop
  <2> QED BY <1>3, <2>1, <2>2 DEF OpenLoop
<1>4. ASSUME NEW d \in 1 .. Len(frames'), NEW j \in 1 .. Len(src'), OpenLoop(d, j)'
      PROVE  d \in 1 .. Len(frames) /\ j \in 1 .. Len(src) /\ OpenLoop(d, j)
  <2>1. j \in 1 .. Len(src) /\ d \in 1 .. Len(frames) /\ frames[d].part = "loop"
    BY <1>1, <1>4 DEF OpenLoop, SameLoops
  <2>2. src'[j] = src[j] /\ frames'[d].startPtr = frames[d].startPtr
    BY <2>1 DEF Grown, SameLoops
  <2>3. \A k \in j + 1 .. Len(src) : k \in j + 1 .. Len(src') /\ src'[k] = src[k]
    BY DEF Grown
  <2> QED BY <1>4, <2>1, <2>2, <2>3 DEF OpenLoop
<1> QED BY <1>3, <1>4

LEMMA LoopsStay ==
  ASSUME Grown(src, src'), SameLoops, src' = src \/ \E it : Adding(it), IInv, LoopsTracked
  PROVE  LoopsTracked'
<1>1. \A d \in 1 .. Len(frames), j \in 1 .. Len(src) : OpenLoop(d, j) => OpenLoop(d, j)'
  BY OpenStays
<1>2. \A j \in 1 .. Len(src) : j \in 1 .. Len(src') /\ src'[j] = src[j]
  BY DEF Grown
<1>3. ASSUME NEW d \in 1 .. Len(frames'), frames'[d].part = "loop"
      PROVE  \E j \in 1 .. Len(src') : OpenLoop(d, j)'
  <2>1. d \in 1 .. Len(frames) /\ frames[d].part = "loop"
    BY <1>3 DEF SameLoops
  <2> QED BY <1>1, <1>2, <2>1 DEF LoopsTracked
<1>4. ASSUME NEW j \in 1 .. Len(src'), src'[j].tag = "loop"
      PROVE  \/ \E e \in 1 .. Len(src') : Closes(src', j, e)
             \/ \E d \in 1 .. Len(frames') : OpenLoop(d, j)'
  <2>1. j \in 1 .. Len(src) /\ src[j].tag = "loop"
    <3>1. j \in 1 .. Len(src)
      BY <1>4, SourceGrows DEF Adding, IInv, TypeOK
    <3> QED BY <1>2, <1>4, <3>1
  <2>2. CASE \E e \in 1 .. Len(src) : Closes(src, j, e)
    BY <1>2, <2>1, <2>2, ClosesStays
  <2>3. CASE \E d \in 1 .. Len(frames) : OpenLoop(d, j)
    BY <1>1, <2>1, <2>3 DEF OpenLoop, SameLoops
  <2> QED BY <2>1, <2>2, <2>3 DEF LoopsTracked
<1> QED BY <1>3, <1>4 DEF LoopsTracked

(* What waits goes on waiting as long as no loop ends.                     *)
LEMMA WaitsStays ==
  ASSUME Grown(src, src'), SameLoops, src' = src \/ \E it : Adding(it), IInv,
         NEW i \in 1 .. Len(src), Waits(i),
         InTable(i) \/ Emitted(i) => InTable(i)' \/ Emitted(i)'
  PROVE  Waits(i)'
<1>1. InTable(i)' \/ Emitted(i)'
  BY DEF Waits
<1>2. ASSUME NEW j \in 1 .. i - 1, Around(src', j, i)
      PROVE  \E d \in 1 .. Len(frames') : OpenLoop(d, j)'
  <2>1. j \in 1 .. i /\ j \in 1 .. Len(src)
    BY DEF Grown
  <2>2. PICK d \in 1 .. Len(frames) : OpenLoop(d, j)
    BY <1>2, <2>1, AroundStays DEF Waits
  <2>3. OpenLoop(d, j)' /\ d \in 1 .. Len(frames')
    BY <2>1, <2>2, OpenStays DEF OpenLoop, SameLoops
  <2> QED BY <2>3
<1>3. ASSUME NEW d \in 1 .. Len(frames'), NEW j \in 1 .. Len(src'), OpenLoop(d, j)'
      PROVE  j < i
  BY <1>3, OpenStays DEF Waits
<1> QED BY <1>1, <1>2, <1>3 DEF Waits

(* What is kept when no loop begins or ends.                               *)
LEMMA KeptInvariant ==
  ASSUME IInv, LoopInv, Keeps(code, code'), Grown(src, src'), SameLoops,
         src' = src \/ \E it : Adding(it) /\ it.tag \notin Escapes,
         \A i \in 1 .. Len(src) : src[i].tag \in Escapes =>
           (InTable(i) \/ Emitted(i) => InTable(i)' \/ Emitted(i)'),
         phase' = "body" => src' # <<>>,
         phase' \in {"procs", "calls", "done"} => loopBreaks' = {} /\ loopContinues' = {},
         \A i \in 1 .. Len(src') : i \notin 1 .. Len(src) =>
           Belongs(src', i) /\ (src'[i].tag = "proc" => src'[i].depth = 0)
  PROVE  LoopInv'
<1>1. LoopsTracked'
  BY LoopsStay DEF LoopInv
<1>2. ASSUME NEW i \in 1 .. Len(src'), src'[i].tag \in Escapes PROVE Bound(i)' \/ Waits(i)'
  <2>1. i \in 1 .. Len(src) /\ src'[i] = src[i]
    <3>1. i \in 1 .. Len(src)
      BY <1>2, SourceGrows DEF Adding, IInv, TypeOK
    <3> QED BY <3>1 DEF Grown
  <2>2. CASE Bound(i)
    BY <2>1, <2>2, BoundStays
  <2>3. CASE Waits(i)
    BY <1>2, <2>1, <2>3, WaitsStays
  <2> QED BY <1>2, <2>1, <2>2, <2>3 DEF LoopInv, ControlKnown
<1>3. ProceduresBegin'
  <2> SUFFICES ASSUME NEW i \in 1 .. Len(src')
               PROVE  Belongs(src', i) /\ (src'[i].tag = "proc" => src'[i].depth = 0)
    BY DEF ProceduresBegin
  <2>1. CASE i \in 1 .. Len(src)
    BY <2>1, BelongsStays DEF LoopInv, ProceduresBegin, Grown
  <2> QED BY <2>1
<1> QED BY <1>1, <1>2, <1>3 DEF LoopInv, ControlKnown

LEMMA SourceSame == IInv => Grown(src, src)
  BY LenProperties DEF IInv, TypeOK, Grown

LEMMA SourceMore ==
  ASSUME IInv, NEW it \in Items(Names), src' = Append(src, it)
  PROVE  /\ Grown(src, src') /\ src' # <<>>
         /\ Len(src) \in Nat /\ Len(src') = Len(src) + 1 /\ src'[Len(src')] = it
         /\ \A i \in 1 .. Len(src') : i \notin 1 .. Len(src) => i = Len(src')
         /\ \A i \in 1 .. Len(src) : BodyPtr(i)' = BodyPtr(i)
BY SourceGrows DEF IInv, TypeOK, Grown

(* The steps that add nothing to the program and leave the activations.    *)
LEMMA StillLoops ==
  ASSUME IInv, LoopInv, Keeps(code, code'),
         \/ StrayLoopControl \/ EmitLonghand \/ CompileStart \/ Compiled \/ UNCHANGED vars
         \/ \E s \in Statement : BadCondition(s)
         \/ \E p \in uncalled : LinkCall(p) \/ MissingProcedure(p)
  PROVE  LoopInv'
<1>1. /\ UNCHANGED <<src, frames, loopBreaks, loopContinues>>
      /\ phase' = "body" => phase = "body"
      /\ phase' \in {"procs", "calls", "done"} => phase \in {"procs", "calls", "done"}
  BY DEF StrayLoopControl, EmitLonghand, CompileStart, Compiled, vars, BadCondition,
         LinkCall, MissingProcedure
<1>2. ASSUME NEW i \in 1 .. Len(src), src[i].tag \in Escapes, InTable(i) \/ Emitted(i)
      PROVE  InTable(i)' \/ Emitted(i)'
  <2>1. CASE InTable(i)
    BY <2>1, <1>1 DEF InTable, BodyPtr
  <2>2. CASE Emitted(i)
    <3>1. UNCHANGED vars
      BY <1>2, <2>2
         DEF StrayLoopControl, EmitLonghand, CompileStart, Compiled, BadCondition,
             LinkCall, MissingProcedure, Emitted, Emitting, InPart, InStatementList, Escapes
    <3> QED BY <2>2, <3>1 DEF vars, Emitted, Emitting, InPart, Top
  <2> QED BY <1>2, <2>1, <2>2
<1>3. SameLoops
  BY <1>1 DEF SameLoops
<1>4. Grown(src, src')
  BY <1>1, SourceSame
<1> QED BY <1>1, <1>2, <1>3, <1>4, KeptInvariant DEF LoopInv, ControlKnown, ProceduresBegin

(* The code of a statement without a block; a break or a continue goes     *)
(* into its table.                                                         *)
LEMMA EmitLoops ==
  ASSUME IInv, LoopInv, EmittedItem, Keeps(code, code'),
         \/ \E n \in BodyLens : EmitStraight(n)
         \/ \E n \in TextLens : EmitText(n)
         \/ EmitBreak \/ EmitContinue \/ EmitReturn \/ EmitCallStatement
  PROVE  LoopInv'
<1>1. /\ InPart("emit") /\ frames # <<>> /\ Top.part = "emit" /\ phase = "body"
      /\ src' = src /\ phase' = phase /\ frames' = WithTop(Done)
      /\ loopBreaks \subseteq loopBreaks' /\ loopContinues \subseteq loopContinues'
  BY DEF EmitStraight, EmitText, EmitBreak, EmitContinue, EmitReturn, EmitCallStatement,
         Emitting, InPart
<1>2. ASSUME NEW i \in 1 .. Len(src), src[i].tag \in Escapes, InTable(i) \/ Emitted(i)
      PROVE  InTable(i)' \/ Emitted(i)'
  <2>1. CASE InTable(i)
    BY <2>1, <1>1 DEF InTable, BodyPtr
  <2>2. CASE Emitted(i)
    <3>1. \/ EmitBreak /\ src[i].tag = "break"
          \/ EmitContinue /\ src[i].tag = "continue"
      BY <1>2, <2>2
         DEF EmitStraight, EmitText, EmitBreak, EmitContinue, EmitReturn, EmitCallStatement,
             Emitting, Emitted, InPart, Escapes
    <3>2. BodyPtr(i) = code.len /\ BodyPtr(i)' = BodyPtr(i)
      BY <1>1, <2>2 DEF EmittedItem, Emitted, BodyPtr
    <3> QED BY <3>1, <3>2, <1>1 DEF EmitBreak, EmitContinue, InTable
  <2> QED BY <1>2, <2>1, <2>2
<1>3. SameLoops
  BY <1>1, DoneFrames DEF SameLoops
<1>4. Grown(src, src')
  BY <1>1, SourceSame
<1> QED BY <1>1, <1>2, <1>3, <1>4, KeptInvariant DEF LoopInv, ControlKnown, ProceduresBegin

(* The end of a statement.                                                 *)
LEMMA LeaveLoops ==
  ASSUME IInv, LoopInv, Keeps(code, code'), LeaveStatement
  PROVE  LoopInv'
<1>1. /\ frames # <<>> /\ Top.part = "done" /\ phase = "body" /\ phase' = phase
      /\ UNCHANGED <<src, loopBreaks, loopContinues>>
  BY DEF LeaveStatement, InPart
<1>2. ASSUME NEW i \in 1 .. Len(src), InTable(i) \/ Emitted(i) PROVE InTable(i)'
  BY <1>1, <1>2 DEF InTable, BodyPtr, Emitted, Emitting, InPart
<1>3. SameLoops
  <2>1. frames[Len(frames)].part = "done"
    BY <1>1 DEF Top
  <2> QED BY <2>1, LeaveFrames, SMTT(30) DEF SameLoops
<1>4. Grown(src, src')
  BY <1>1, SourceSame
<1> QED BY <1>1, <1>2, <1>3, <1>4, KeptInvariant DEF LoopInv, ControlKnown, ProceduresBegin

(* An item that is added belongs where the last one does.                  *)
LEMMA NewBelongs ==
  ASSUME NEW s, NEW t, Grown(s, t), Len(t) = Len(s) + 1, Len(s) \in 1 .. Len(s),
         Belongs(s, Len(s)), t[Len(t)].tag # "proc"
  PROVE  Belongs(t, Len(t))
<1>1. PICK g \in 1 .. Len(s) : s[g].tag = "proc" /\ \A k \in g + 1 .. Len(s) : s[k].tag # "proc"
  BY DEF Belongs
<1>2. g \in 1 .. Len(t) /\ t[g].tag = "proc" /\ Len(s) \in Nat
  BY <1>1 DEF Grown
<1>3. ASSUME NEW k \in g + 1 .. Len(t) PROVE t[k].tag # "proc"
  <2>1. CASE k = Len(t)
    BY <2>1
  <2>2. CASE k # Len(t)
    <3>1. k \in g + 1 .. Len(s) /\ k \in 1 .. Len(s)
      BY <1>2, <2>2
    <3> QED BY <1>1, <3>1 DEF Grown
  <2> QED BY <2>1, <2>2
<1> QED BY <1>2, <1>3 DEF Belongs

LEMMA BodyBelongs ==
  ASSUME IInv, LoopInv, phase = "body", NEW it \in Items(Names), it.tag # "proc",
         src' = Append(src, it)
  PROVE  \A i \in 1 .. Len(src') : i \notin 1 .. Len(src) =>
           Belongs(src', i) /\ (src'[i].tag = "proc" => src'[i].depth = 0)
<1>1. Len(src) \in 1 .. Len(src)
  BY EmptySeq DEF LoopInv, ProceduresBegin, IInv, TypeOK
<1>2. /\ Grown(src, src') /\ Len(src') = Len(src) + 1 /\ src'[Len(src')] = it
      /\ \A i \in 1 .. Len(src') : i \notin 1 .. Len(src) => i = Len(src')
  BY SourceMore
<1>3. Belongs(src, Len(src))
  BY <1>1 DEF LoopInv, ProceduresBegin
<1>4. Belongs(src', Len(src'))
  BY <1>1, <1>2, <1>3, NewBelongs
<1> QED BY <1>2, <1>4

(* A procedure begins or ends.                                             *)
LEMMA BeginLoops ==
  ASSUME IInv, LoopInv, Keeps(code, code'), NEW n \in Names, BeginProcedure(n)
  PROVE  LoopInv'
<1> DEFINE it == Item("proc", NoCond, n, 0, code.len)
<1>1. /\ phase = "procs" /\ phase' = "body" /\ src' = Append(src, it) /\ frames' = frames
      /\ loopBreaks = {} /\ loopContinues = {} /\ loopBreaks' = {} /\ loopContinues' = {}
      /\ frames = <<>>
  BY DEF BeginProcedure, LoopInv, ControlKnown, IInv, FramesOK
<1>2. it \in Items(Names) /\ it.tag = "proc" /\ it.depth = 0
  BY DEF Item, Items, MarkerTags, IInv, TypeOK, IsBuffer
<1> HIDE DEF it
<1>3. /\ Grown(src, src') /\ src' # <<>> /\ Len(src') \in 1 .. Len(src')
      /\ src'[Len(src')] = it
      /\ \A i \in 1 .. Len(src') : i \notin 1 .. Len(src) => i = Len(src')
  BY <1>1, <1>2, SourceMore
<1>4. Len(frames) = 0
  BY <1>1
<1>5. SameLoops /\ Adding(it) /\ it.tag \notin Escapes
  BY <1>1, <1>2, <1>4 DEF SameLoops, Adding, InLoops, Escapes
<1>6. \A i \in 1 .. Len(src) : ~InTable(i) /\ ~Emitted(i)
  BY <1>1 DEF InTable, Emitted, Emitting, InPart
<1>7. Belongs(src', Len(src'))
  BY <1>2, <1>3 DEF Belongs
<1>8. \A i \in 1 .. Len(src') : i \notin 1 .. Len(src) =>
        Belongs(src', i) /\ (src'[i].tag = "proc" => src'[i].depth = 0)
  BY <1>2, <1>3, <1>7
<1> QED BY <1>1, <1>3, <1>5, <1>6, <1>8, KeptInvariant

LEMMA MarkerLoops ==
  ASSUME IInv, LoopInv, Keeps(code, code'), EndProcedure \/ BeginElse \/ EndThen \/ EndElse
  PROVE  LoopInv'
<1>0. phase = "body" /\ (frames # <<>> => Len(frames) \in Nat \ {0} /\ Top \in Frame)
  BY TopBelow DEF EndProcedure, BeginElse, EndThen, EndElse, InPart, IInv, TypeOK
<1>1. PICK it \in Items(Names) :
        /\ it.tag \in MarkerTags \ {"proc"} /\ src' = Append(src, it)
        /\ EndProcedure \/ it.depth = Len(frames) - 1
  <2>1. code.len \in Nat
    BY DEF IInv, TypeOK, IsBuffer
  <2>2. ASSUME NEW tag \in MarkerTags \ {"proc"}, NEW depth \in Nat, NEW at \in Nat,
               src' = Append(src, Marker(tag, depth, at)),
               EndProcedure \/ depth = Len(frames) - 1
        PROVE  \E it \in Items(Names) :
                 /\ it.tag \in MarkerTags \ {"proc"} /\ src' = Append(src, it)
                 /\ EndProcedure \/ it.depth = Len(frames) - 1
    <3> DEFINE it == Marker(tag, depth, at)
    <3>1. it \in Items(Names) /\ it.tag = tag /\ it.depth = depth
      BY DEF Marker, Item, Items, MarkerTags
    <3>2. src' = Append(src, it)
      BY <2>2
    <3> HIDE DEF it
    <3> QED BY <2>2, <3>1, <3>2
  <2>3. CASE EndProcedure
    BY <2>1, <2>2, <2>3 DEF EndProcedure, MarkerTags
  <2>4. CASE BeginElse
    <3> DEFINE at == IF Top.jumpPastElsePtr = 0 THEN code.len ELSE Top.jumpPastElsePtr
    <3>1. frames # <<>> /\ src' = Append(src, Marker("else", Len(frames) - 1, at))
      BY <2>4 DEF BeginElse, InPart
    <3>2. at \in Nat
      BY <3>1, <2>1, <1>0 DEF Frame
    <3> HIDE DEF at
    <3> QED BY <3>1, <3>2, <1>0, <2>2 DEF MarkerTags
  <2>5. CASE EndThen \/ EndElse
    <3>1. frames # <<>> /\ src' = Append(src, Marker("end", Len(frames) - 1, code.len))
      BY <2>5 DEF EndThen, EndElse, InPart
    <3> QED BY <3>1, <1>0, <2>1, <2>2 DEF MarkerTags
  <2> QED BY <2>3, <2>4, <2>5
<1>2. SameLoops /\ InLoops(it)
  <2>1. CASE EndProcedure
    <3>1. frames = <<>> /\ frames' = frames /\ Len(frames) = 0
      BY <2>1 DEF EndProcedure
    <3> QED BY <3>1 DEF SameLoops, InLoops
  <2>2. CASE BeginElse
    BY <1>1, <2>2, ElseFrames DEF SameLoops, InLoops, EndProcedure, BeginElse, InPart
  <2>3. CASE EndThen \/ EndElse
    <3>1. /\ frames # <<>> /\ Top.part \in {"then", "else"} /\ frames' = WithTop(Done)
          /\ it.depth = Len(frames) - 1
      BY <1>1, <2>3 DEF EndThen, EndElse, InPart, EndProcedure
    <3> QED BY <3>1, DoneFrames DEF SameLoops, InLoops
  <2> QED BY <2>1, <2>2, <2>3
<1>3. Adding(it) /\ it.tag \notin Escapes
  BY <1>1, <1>2 DEF Adding, MarkerTags, Escapes
<1>4. Grown(src, src') /\ src' # <<>> /\ \A i \in 1 .. Len(src) : BodyPtr(i)' = BodyPtr(i)
  BY <1>1, SourceMore
<1>5. /\ UNCHANGED <<loopBreaks, loopContinues>>
      /\ phase' = "body" \/ (phase' = "procs" /\ loopBreaks = {} /\ loopContinues = {})
      /\ ~InPart("emit")
  BY DEF EndProcedure, BeginElse, EndThen, EndElse, InPart
<1>6. ASSUME NEW i \in 1 .. Len(src), InTable(i) \/ Emitted(i) PROVE InTable(i)'
  <2>1. InTable(i) /\ src'[i] = src[i]
    BY <1>4, <1>5, <1>6 DEF Emitted, Emitting, Grown
  <2> QED BY <2>1, <1>4, <1>5 DEF InTable
<1>7. \A i \in 1 .. Len(src') : i \notin 1 .. Len(src) =>
        Belongs(src', i) /\ (src'[i].tag = "proc" => src'[i].depth = 0)
  BY <1>0, <1>1, BodyBelongs
<1> QED BY <1>2, <1>3, <1>4, <1>5, <1>6, <1>7, KeptInvariant

(* A statement is entered.                                                 *)
EnteredItem(s) == Item(s.tag, s.cond, s.name, Len(frames), code.len)

LEMMA EnterFacts ==
  ASSUME IInv, LoopInv, NEW s \in Statement, EnterStatement(s)
  PROVE  /\ EnteredItem(s) \in Items(Names) /\ EnteredItem(s).tag = s.tag
         /\ EnteredItem(s).depth = Len(frames) /\ EnteredItem(s).at = code.len
         /\ src' = Append(src, EnteredItem(s)) /\ InLoops(EnteredItem(s))
         /\ phase = "body" /\ phase' = "body" /\ ~InPart("emit")
         /\ UNCHANGED <<loopBreaks, loopContinues>>
         /\ Len(frames) \in Nat
<1>1. /\ code.len \in Nat /\ Len(frames) \in Nat
      /\ s.tag \in StatementTags /\ s.name \in Names \cup {NoName}
      /\ s.cond # NoCond => s.cond \in Condition
  BY EnterFrames
<1>2. /\ src' = Append(src, EnteredItem(s)) /\ phase = "body" /\ phase' = "body"
      /\ ~InPart("emit") /\ UNCHANGED <<loopBreaks, loopContinues>>
  BY DEF EnterStatement, EnteredItem, InStatementList, InPart
<1>3. /\ EnteredItem(s) \in Items(Names) /\ EnteredItem(s).tag = s.tag
      /\ EnteredItem(s).depth = Len(frames) /\ EnteredItem(s).at = code.len
  BY <1>1 DEF EnteredItem, Item, Items
<1> QED BY <1>1, <1>2, <1>3 DEF InLoops

(* A loop begins only when nothing waits.                                  *)
LEMMA EnterLoop ==
  ASSUME IInv, LoopInv, Keeps(code, code'), "pendingLoop" \notin Forms,
         NEW s \in Statement, s.tag = "loop", EnterStatement(s)
  PROVE  LoopInv'
<1> DEFINE it == EnteredItem(s)
           n == Len(src')
           top == Len(frames')
<1>1. /\ it \in Items(Names) /\ it.tag = "loop" /\ it.depth = Len(frames) /\ it.at = code.len
      /\ src' = Append(src, it) /\ phase' = "body" /\ ~InPart("emit") /\ phase = "body"
      /\ UNCHANGED <<loopBreaks, loopContinues>> /\ Len(frames) \in Nat
  BY EnterFacts
<1>2. loopBreaks = {} /\ loopContinues = {}
  BY DEF EnterStatement, Admitted
<1>3. /\ top = Len(frames) + 1
      /\ \A d \in 1 .. Len(frames) : frames'[d] = frames[d]
      /\ frames'[top].part = "loop" /\ frames'[top].startPtr = code.len
  BY EnterFrames DEF FirstPart
<1> HIDE DEF it
<1>4. /\ Grown(src, src') /\ src' # <<>> /\ n = Len(src) + 1 /\ src'[n] = it /\ Len(src) \in Nat
      /\ \A i \in 1 .. n : i \notin 1 .. Len(src) => i = n
  BY <1>1, SourceMore
<1> HIDE DEF n, top
<1>5. ASSUME NEW d, NEW j, d = top, j = n PROVE OpenLoop(d, j)'
  <2>1. it.depth = d - 1 /\ j \in Nat
    BY <1>1, <1>3, <1>4, <1>5
  <2>2. \A k \in j + 1 .. j : FALSE
    BY <2>1
  <2>3. j = Len(src')
    BY <1>5 DEF n
  <2> QED BY <1>1, <1>3, <1>4, <1>5, <2>1, <2>2, <2>3 DEF OpenLoop
<1>6. ASSUME NEW d \in 1 .. Len(frames), NEW j \in 1 .. Len(src), OpenLoop(d, j)
      PROVE  OpenLoop(d, j)'
  <2>1. ASSUME NEW k \in j + 1 .. n PROVE src'[k].depth >= d
    <3>1. CASE k \in 1 .. Len(src)
      BY <1>4, <1>6, <3>1 DEF OpenLoop, Grown
    <3>2. CASE k = n
      BY <1>1, <1>4, <3>2
    <3> QED BY <1>4, <3>1, <3>2
  <2>2. src'[j] = src[j] /\ frames'[d] = frames[d] /\ n = Len(src')
    BY <1>3, <1>4 DEF Grown, n
  <2> QED BY <1>6, <2>1, <2>2 DEF OpenLoop
<1>7. LoopsTracked'
  <2>0. n = Len(src') /\ top = Len(frames') /\ n \in 1 .. n /\ top \in 1 .. top
    BY <1>1, <1>3, <1>4 DEF n, top
  <2>1. ASSUME NEW d \in 1 .. top, frames'[d].part = "loop"
        PROVE  \E j \in 1 .. n : OpenLoop(d, j)'
    <3>1. CASE d \in 1 .. Len(frames)
      <4>1. PICK j \in 1 .. Len(src) : OpenLoop(d, j)
        BY <1>3, <2>1, <3>1 DEF LoopInv, LoopsTracked
      <4> QED BY <1>4, <1>6, <3>1, <4>1
    <3>2. CASE d = top
      <4>1. PICK j : j = n
        OBVIOUS
      <4>2. OpenLoop(d, j)'
        BY <1>5, <3>2, <4>1
      <4> QED BY <2>0, <4>1, <4>2
    <3> QED BY <1>1, <1>3, <3>1, <3>2
  <2>2. ASSUME NEW j \in 1 .. n, src'[j].tag = "loop"
        PROVE  \/ \E e \in 1 .. n : Closes(src', j, e)
               \/ \E d \in 1 .. top : OpenLoop(d, j)'
    <3>1. CASE j \in 1 .. Len(src)
      <4>1. src[j].tag = "loop"
        BY <1>4, <2>2, <3>1 DEF Grown
      <4>2. CASE \E e \in 1 .. Len(src) : Closes(src, j, e)
        BY <1>4, <3>1, <4>2, ClosesStays
      <4>3. CASE \E d \in 1 .. Len(frames) : OpenLoop(d, j)
        BY <1>1, <1>3, <1>6, <3>1, <4>3
      <4> QED BY <3>1, <4>1, <4>2, <4>3 DEF LoopInv, LoopsTracked
    <3>2. CASE j = n
      <4>1. PICK d : d = top
        OBVIOUS
      <4>2. OpenLoop(d, j)'
        BY <1>5, <3>2, <4>1
      <4> QED BY <2>0, <4>1, <4>2
    <3> QED BY <1>4, <3>1, <3>2
  <2> QED BY <2>0, <2>1, <2>2 DEF LoopsTracked
<1>8. ControlKnown'
  <2>1. ASSUME NEW i \in 1 .. Len(src'), src'[i].tag \in Escapes PROVE Bound(i)'
    <3>1. i \in 1 .. Len(src) /\ src[i].tag \in Escapes
      BY <1>1, <1>4, <2>1 DEF Grown, Escapes, n
    <3>2. ~InTable(i) /\ ~Emitted(i)
      BY <1>1, <1>2 DEF InTable, Emitted, Emitting
    <3> QED BY <1>4, <3>1, <3>2, BoundStays DEF LoopInv, ControlKnown, Waits
  <2> QED BY <1>1, <2>1 DEF ControlKnown
<1>9. ProceduresBegin'
  <2>1. ASSUME NEW i \in 1 .. Len(src')
        PROVE  Belongs(src', i) /\ (src'[i].tag = "proc" => src'[i].depth = 0)
    <3>1. CASE i \in 1 .. Len(src)
      BY <1>4, <3>1, BelongsStays DEF LoopInv, ProceduresBegin, Grown
    <3> QED BY <1>1, <3>1, BodyBelongs
  <2> QED BY <1>4, <2>1 DEF ProceduresBegin
<1> QED BY <1>7, <1>8, <1>9 DEF LoopInv

(* Any other statement leaves what waits as it is, and a break or a        *)
(* continue joins it.                                                      *)
LEMMA EnterOther ==
  ASSUME IInv, LoopInv, Keeps(code, code'), NEW s \in Statement, s.tag # "loop",
         EnterStatement(s)
  PROVE  LoopInv'
<1> DEFINE it == EnteredItem(s)
<1>1. /\ it \in Items(Names) /\ it.tag = s.tag /\ InLoops(it)
      /\ src' = Append(src, it) /\ phase' = "body" /\ ~InPart("emit") /\ phase = "body"
      /\ UNCHANGED <<loopBreaks, loopContinues>> /\ Len(frames) \in Nat
  BY EnterFacts
<1> HIDE DEF it
<1>2. /\ Grown(src, src') /\ src' # <<>> /\ Len(src') = Len(src) + 1 /\ src'[Len(src')] = it
      /\ Len(src) \in Nat
      /\ \A i \in 1 .. Len(src') : i \notin 1 .. Len(src) => i = Len(src')
      /\ \A i \in 1 .. Len(src) : BodyPtr(i)' = BodyPtr(i)
  BY <1>1, SourceMore
<1>3. /\ Len(frames') = Len(frames) + 1 /\ frames' # <<>>
      /\ \A d \in 1 .. Len(frames) : frames'[d] = frames[d]
      /\ frames'[Len(frames')] = Top' /\ Top'.part # "loop" /\ Top'.tag = s.tag
      /\ s.tag \in Escapes => Top'.part = "emit"
  BY EnterFrames DEF FirstPart, Escapes
<1>4. SameLoops
  BY <1>1, <1>3 DEF SameLoops
<1>5. Adding(it)
  BY <1>1 DEF Adding
<1>6. LoopsTracked'
  BY <1>2, <1>4, <1>5, LoopsStay DEF LoopInv
<1>7. ASSUME NEW i \in 1 .. Len(src), src[i].tag \in Escapes PROVE Bound(i)' \/ Waits(i)'
  <2>1. CASE Bound(i)
    BY <1>2, <2>1, BoundStays
  <2>2. CASE Waits(i)
    <3>1. src'[i] = src[i] /\ BodyPtr(i)' = BodyPtr(i)
      BY <1>2 DEF Grown
    <3>2. InTable(i) \/ Emitted(i) => InTable(i)'
      BY <1>1, <3>1 DEF InTable, Emitted, Emitting
    <3> QED BY <1>2, <1>4, <1>5, <2>2, <3>2, WaitsStays
  <2> QED BY <1>7, <2>1, <2>2 DEF LoopInv, ControlKnown
<1>8. ASSUME NEW i, i = Len(src'), src'[i].tag \in Escapes PROVE Waits(i)'
  <2>1. Emitted(i)'
    BY <1>1, <1>2, <1>3, <1>8 DEF Emitted, Emitting, InPart
  <2>2. ASSUME NEW j \in 1 .. i - 1, Around(src', j, i)
        PROVE  \E d \in 1 .. Len(frames') : OpenLoop(d, j)'
    <3>1. j \in 1 .. Len(src) /\ src[j].tag = "loop" /\ src'[j] = src[j]
      BY <1>2, <1>8, <2>2 DEF Around, Grown
    <3>2. ASSUME NEW e \in 1 .. Len(src), Closes(src, j, e) PROVE FALSE
      <4>1. e \in j + 1 .. i /\ src'[e] = src[e] /\ src[e].depth = src[j].depth
        BY <1>2, <1>8, <3>1, <3>2 DEF Closes, Grown
      <4>2. src[j] \in Items(Names)
        BY <3>1, ElementOfSeq DEF IInv, TypeOK
      <4>3. src[j].depth \in Nat
        BY <4>2 DEF Items
      <4> QED BY <2>2, <3>1, <4>1, <4>3 DEF Around
    <3>3. PICK d \in 1 .. Len(frames) : OpenLoop(d, j)
      BY <3>1, <3>2 DEF LoopInv, LoopsTracked
    <3>4. OpenLoop(d, j)' /\ d \in 1 .. Len(frames')
      BY <1>1, <1>2, <1>3, <1>4, <1>5, <3>1, <3>3, OpenStays
    <3> QED BY <3>4
  <2>3. ASSUME NEW d \in 1 .. Len(frames'), NEW j \in 1 .. Len(src'), OpenLoop(d, j)'
        PROVE  j < i
    <3>1. j \in 1 .. Len(src)
      BY <1>2, <1>4, <1>5, <2>3, OpenStays
    <3> QED BY <1>2, <1>8, <3>1
  <2> QED BY <2>1, <2>2, <2>3 DEF Waits
<1>9. ControlKnown'
  <2>1. ASSUME NEW i \in 1 .. Len(src'), src'[i].tag \in Escapes PROVE Bound(i)' \/ Waits(i)'
    <3>1. CASE i \in 1 .. Len(src)
      BY <1>2, <1>7, <2>1, <3>1 DEF Grown
    <3> QED BY <1>2, <1>8, <2>1, <3>1
  <2> QED BY <1>1, <2>1 DEF ControlKnown
<1>10. ProceduresBegin'
  <2>0. it.tag # "proc"
    BY <1>1, EnterFrames DEF StatementTags, SimpleTags, BlockTags
  <2>1. ASSUME NEW i \in 1 .. Len(src')
        PROVE  Belongs(src', i) /\ (src'[i].tag = "proc" => src'[i].depth = 0)
    <3>1. CASE i \in 1 .. Len(src)
      BY <1>2, <3>1, BelongsStays DEF LoopInv, ProceduresBegin, Grown
    <3> QED BY <1>1, <2>0, <3>1, BodyBelongs
  <2> QED BY <1>2, <2>1 DEF ProceduresBegin
<1> QED BY <1>6, <1>9, <1>10 DEF LoopInv

(* The end of a loop writes the jump of every break and continue there is. *)
LEMMA EndLoopCode ==
  ASSUME IInv, EndLoop
  PROVE  /\ \A p \in loopBreaks : p \in DOMAIN code'.at /\ code'.at[p] = Jmp(code.len + 5)
         /\ \A p \in loopContinues : p \in DOMAIN code'.at /\ code'.at[p] = Jmp(Top.startPtr)
<1> DEFINE back == JumpBack(code, Top.startPtr)
           broken == WriteJump(back, loopBreaks, back.len)
<1>1. back.len = code.len + 5
  BY DEF JumpBack, WriteJump, EmitNop, Patch
<1>2. code' = Patch(broken, loopContinues, Jmp(Top.startPtr))
      /\ broken = Patch(back, loopBreaks, Jmp(code.len + 5))
  BY <1>1 DEF EndLoop, WriteJump, BreakTarget
<1> HIDE DEF back, broken
<1>3. \A to : Jmp(to).len = 5
  BY DEF Jmp
<1>4. ASSUME NEW p \in loopBreaks, NEW q \in loopContinues
      PROVE  p \in Nat /\ q \in Nat /\ (p + 5 <= q \/ q + 5 <= p)
  <2>1. Slot("break", 0, p, 5) \in Slots /\ Slot("continue", 0, q, 5) \in Slots
    BY DEF Slots, TableSlots
  <2>2. Slot("break", 0, p, 5) # Slot("continue", 0, q, 5)
    BY DEF Slot
  <2>3. Apart(Slot("break", 0, p, 5), Slot("continue", 0, q, 5))
    BY <2>1, <2>2 DEF IInv, PendingReserved, SlotsReserved
  <2>4. p \in Nat /\ q \in Nat
    BY DEF IInv, TypeOK
  <2> QED BY <2>3, <2>4 DEF Apart, Slot
<1>5. \A p \in loopBreaks : p \in DOMAIN broken.at /\ broken.at[p] = Jmp(code.len + 5)
  BY <1>2, SMTT(30) DEF Patch
<1>6. \A p \in loopContinues : p \in DOMAIN code'.at /\ code'.at[p] = Jmp(Top.startPtr)
  BY <1>2, SMTT(30) DEF Patch
<1>7. ASSUME NEW p \in loopBreaks
      PROVE  p \in DOMAIN code'.at /\ code'.at[p] = Jmp(code.len + 5)
  <2>1. broken.at[p].len = 5 /\ Jmp(Top.startPtr).len = 5
    BY <1>3, <1>5
  <2>2. \A q \in loopContinues : p < q \/ q + 5 <= p
    BY <1>4
  <2>3. p \notin loopContinues /\ ~ \E q \in loopContinues : p < q /\ q < p + 5
    BY <1>4
  <2> QED BY <1>2, <1>5, <2>1, <2>2, <2>3 DEF Patch
<1> QED BY <1>6, <1>7

LEMMA EndLoops ==
  ASSUME IInv, LoopInv, Keeps(code, code'), EndLoop
  PROVE  LoopInv'
<1> DEFINE it == Marker("end", Len(frames) - 1, code.len)
           top == Len(frames)
           n == Len(src')
<1>1. /\ frames # <<>> /\ Top.part = "loop" /\ phase = "body" /\ phase' = "body"
      /\ frames' = WithTop(Done) /\ src' = Append(src, it)
      /\ loopBreaks' = {} /\ loopContinues' = {} /\ ~InPart("emit")
  BY DEF EndLoop, InPart, LoopControlTaken
<1>2. /\ top \in Nat \ {0} /\ Len(frames') = top /\ frames[top] = Top
      /\ \A d \in 1 .. top :
           /\ frames'[d].part = IF d = top THEN "done" ELSE frames[d].part
           /\ frames'[d].startPtr = frames[d].startPtr
  BY <1>1, DoneFrames
<1>3. /\ it \in Items(Names) /\ it.tag = "end" /\ it.depth = top - 1 /\ it.at = code.len
  <2>1. code.len \in Nat /\ top - 1 \in Nat
    BY <1>2 DEF IInv, TypeOK, IsBuffer
  <2> HIDE DEF top
  <2>2. it = Marker("end", top - 1, code.len)
    BY DEF top
  <2> HIDE DEF it
  <2> QED BY <2>1, <2>2 DEF Marker, Item, Items, MarkerTags
<1> HIDE DEF it
<1>4. /\ Grown(src, src') /\ src' # <<>> /\ n = Len(src) + 1 /\ src'[n] = it /\ Len(src) \in Nat
      /\ \A i \in 1 .. n : i \notin 1 .. Len(src) => i = n
      /\ \A i \in 1 .. Len(src) : BodyPtr(i)' = BodyPtr(i)
  BY <1>1, <1>3, SourceMore
<1> HIDE DEF n
<1>5. n \in 1 .. n /\ top \in 1 .. top /\ n = Len(src') /\ top = Len(frames)
  BY <1>2, <1>4 DEF n
<1> HIDE DEF top
<1>6. ASSUME NEW j \in 1 .. Len(src), OpenLoop(top, j)
      PROVE  /\ src'[j] = src[j] /\ src[j].depth = top - 1
             /\ \A k \in j + 1 .. Len(src) : src[k].depth >= top
             /\ Closes(src', j, n)
  <2>1. /\ src'[j] = src[j] /\ src[j].depth = top - 1
        /\ \A k \in j + 1 .. Len(src) : src[k].depth >= top
    BY <1>4, <1>6 DEF OpenLoop, Grown
  <2>2. ASSUME NEW k \in j + 1 .. n - 1 PROVE src'[k].depth # src[j].depth
    <3>1. k \in j + 1 .. Len(src) /\ k \in 1 .. Len(src)
      BY <1>4
    <3>2. src'[k] = src[k] /\ src[k].depth >= top
      BY <2>1, <3>1, <1>4 DEF Grown
    <3>3. src[k] \in Items(Names)
      BY <3>1, ElementOfSeq DEF IInv, TypeOK
    <3>4. src[k].depth \in Nat
      BY <3>3 DEF Items
    <3> QED BY <1>2, <2>1, <3>2, <3>4
  <2>3. n \in j + 1 .. n
    BY <1>4
  <2> QED BY <1>3, <1>4, <1>5, <2>1, <2>2, <2>3 DEF Closes
<1>7. ASSUME NEW d \in 1 .. top, d # top, NEW j \in 1 .. Len(src), OpenLoop(d, j)
      PROVE  OpenLoop(d, j)'
  <2>1. ASSUME NEW k \in j + 1 .. n PROVE src'[k].depth >= d
    <3>1. CASE k \in 1 .. Len(src)
      BY <1>4, <1>7, <3>1 DEF OpenLoop, Grown
    <3>2. CASE k = n
      BY <1>2, <1>3, <1>4, <1>7, <3>2
    <3> QED BY <1>4, <3>1, <3>2
  <2>2. src'[j] = src[j] /\ frames'[d].part = frames[d].part
        /\ frames'[d].startPtr = frames[d].startPtr
    BY <1>2, <1>4, <1>7 DEF Grown
  <2> QED BY <1>5, <1>7, <2>1, <2>2 DEF OpenLoop
<1>8. LoopsTracked'
  <2>1. ASSUME NEW d \in 1 .. top, frames'[d].part = "loop"
        PROVE  \E j \in 1 .. n : OpenLoop(d, j)'
    <3>1. d # top /\ frames[d].part = "loop"
      BY <1>2, <2>1
    <3>2. PICK j \in 1 .. Len(src) : OpenLoop(d, j)
      BY <1>5, <3>1 DEF LoopInv, LoopsTracked
    <3> QED BY <1>4, <1>7, <3>1, <3>2
  <2>2. ASSUME NEW j \in 1 .. n, src'[j].tag = "loop"
        PROVE  \/ \E e \in 1 .. n : Closes(src', j, e)
               \/ \E d \in 1 .. top : OpenLoop(d, j)'
    <3>1. j \in 1 .. Len(src) /\ src[j].tag = "loop"
      BY <1>3, <1>4, <2>2 DEF Grown
    <3>2. CASE \E e \in 1 .. Len(src) : Closes(src, j, e)
      BY <1>4, <3>1, <3>2, ClosesStays
    <3>3. CASE \E d \in 1 .. Len(frames) : OpenLoop(d, j)
      BY <1>5, <1>6, <1>7, <3>1, <3>3
    <3> QED BY <3>1, <3>2, <3>3 DEF LoopInv, LoopsTracked
  <2> QED BY <1>2, <1>5, <2>1, <2>2 DEF LoopsTracked
<1>9. ASSUME NEW i \in 1 .. Len(src), src[i].tag \in Escapes, Waits(i) PROVE Bound(i)'
  <2>1. PICK o \in 1 .. Len(src) : OpenLoop(top, o)
    BY <1>1, <1>2, <1>5 DEF LoopInv, LoopsTracked
  <2>2. o \in 1 .. i - 1 /\ InTable(i) /\ o \in 1 .. i
    BY <1>1, <1>5, <1>9, <2>1 DEF Waits, Emitted, Emitting
  <2>3. Closes(src', o, n) /\ src'[o] = src[o] /\ src[o].depth = top - 1
        /\ \A k \in o + 1 .. Len(src) : src[k].depth >= top
    BY <1>6, <2>1
  <2>4. ASSUME NEW k \in 1 .. Len(src) PROVE src[k].depth \in Nat
    <3>1. src[k] \in Items(Names)
      BY ElementOfSeq DEF IInv, TypeOK
    <3> QED BY <3>1 DEF Items
  <2>5. Around(src, o, i)
    <3>1. \A k \in o + 1 .. i : k \in o + 1 .. Len(src) /\ k \in 1 .. Len(src)
      OBVIOUS
    <3>2. \A k \in o + 1 .. i : src[k].depth > src[o].depth
      BY <1>2, <2>3, <2>4, <3>1
    <3> QED BY <2>1, <3>2 DEF Around, OpenLoop
  <2>6. ASSUME NEW m \in o + 1 .. i - 1, Around(src, m, i) PROVE FALSE
    <3>1. m \in 1 .. i - 1 /\ m \in o + 1 .. Len(src)
      OBVIOUS
    <3>2. PICK d \in 1 .. top : OpenLoop(d, m)
      BY <1>5, <1>9, <2>6, <3>1 DEF Waits
    <3>3. src[m].depth = d - 1 /\ src[m].depth >= top
      BY <2>3, <3>1, <3>2 DEF OpenLoop
    <3> QED BY <1>2, <3>3
  <2>7. Around(src', o, i) /\ \A m \in o + 1 .. i - 1 : ~Around(src', m, i)
    BY <1>4, <2>2, <2>5, <2>6, AroundStays
  <2>8. src'[i] = src[i] /\ BodyPtr(i)' = BodyPtr(i)
    BY <1>4 DEF Grown
  <2>9. Top.startPtr = src[o].at
    BY <1>2, <2>1 DEF OpenLoop
  <2>10. /\ BodyPtr(i) \in DOMAIN code'.at
         /\ code'.at[BodyPtr(i)] =
              Jmp(IF src[i].tag = "break" THEN code.len + 5 ELSE src[o].at)
    <3>1. CASE src[i].tag = "break"
      BY <2>2, <3>1, EndLoopCode DEF InTable
    <3>2. CASE src[i].tag = "continue"
      BY <2>2, <2>9, <3>2, EndLoopCode DEF InTable
    <3> QED BY <1>9, <3>1, <3>2 DEF Escapes
  <2>11. PICK e \in 1 .. n : e = n
    BY <1>5
  <2>12. BoundTo(i, o, e)'
    BY <1>3, <1>4, <2>3, <2>7, <2>8, <2>10, <2>11 DEF BoundTo
  <2> QED BY <1>5, <2>2, <2>12 DEF Bound
<1>10. ControlKnown'
  <2>1. ASSUME NEW i \in 1 .. n, src'[i].tag \in Escapes PROVE Bound(i)'
    <3>1. i \in 1 .. Len(src) /\ src[i].tag \in Escapes
      BY <1>3, <1>4, <2>1 DEF Grown, Escapes
    <3> QED BY <1>4, <1>9, <3>1, BoundStays DEF LoopInv, ControlKnown
  <2> QED BY <1>1, <1>5, <2>1 DEF ControlKnown
<1>11. ProceduresBegin'
  <2>1. ASSUME NEW i \in 1 .. n
        PROVE  Belongs(src', i) /\ (src'[i].tag = "proc" => src'[i].depth = 0)
    <3>1. CASE i \in 1 .. Len(src)
      BY <1>4, <3>1, BelongsStays DEF LoopInv, ProceduresBegin, Grown
    <3> QED BY <1>1, <1>3, <1>5, <3>1, BodyBelongs
  <2> QED BY <1>4, <1>5, <2>1 DEF ProceduresBegin
<1> QED BY <1>8, <1>10, <1>11 DEF LoopInv

----------------------------------------------------------------------------
LEMMA NextLoops ==
  ASSUME IInv, LoopInv, EmittedItem, SafeForms, "pendingLoop" \notin Forms, [Next]_vars
  PROVE  LoopInv'
<1>1. Keeps(code, code')
  BY NextInvariant
<1>2. ASSUME NEW n \in Names, BeginProcedure(n) PROVE LoopInv'
  BY <1>1, <1>2, BeginLoops
<1>3. ASSUME NEW s \in Statement, EnterStatement(s) PROVE LoopInv'
  BY <1>1, <1>3, EnterLoop, EnterOther
<1>4. CASE \/ \E n \in BodyLens : EmitStraight(n)
           \/ \E n \in TextLens : EmitText(n)
           \/ EmitBreak \/ EmitContinue \/ EmitReturn \/ EmitCallStatement
  BY <1>1, <1>4, EmitLoops
<1>5. CASE EndLoop
  BY <1>1, <1>5, EndLoops
<1>6. CASE EndProcedure \/ BeginElse \/ EndThen \/ EndElse
  BY <1>1, <1>6, MarkerLoops
<1>7. CASE LeaveStatement
  BY <1>1, <1>7, LeaveLoops
<1>8. CASE \/ StrayLoopControl \/ EmitLonghand \/ CompileStart \/ Compiled \/ UNCHANGED vars
           \/ \E s \in Statement : BadCondition(s)
           \/ \E p \in uncalled : LinkCall(p) \/ MissingProcedure(p)
  BY <1>1, <1>8, StillLoops
<1> QED BY <1>2, <1>3, <1>4, <1>5, <1>6, <1>7, <1>8 DEF Next, Compile, Returned

LEMMA LoopInvariant ==
  ASSUME SafeForms, "pendingLoop" \notin Forms PROVE Spec => []LoopInv
<1>1. Init => LoopInv
  <2> SUFFICES ASSUME Init PROVE LoopInv
    OBVIOUS
  <2>1. Len(src) = 0 /\ Len(frames) = 0
    BY DEF Init
  <2> QED BY <2>1 DEF Init, LoopInv, LoopsTracked, ControlKnown, ProceduresBegin
<1>2. CallInv => EmittedItem
  BY DEF CallInv
<1> QED BY <1>1, <1>2, NextLoops, Invariant, CallInvariant, PTL DEF Spec

(* Greatest and Least find the greatest and the least element there is.    *)
LEMMA GreatestIs ==
  ASSUME NEW S \in SUBSET Int, NEW x \in S, \A y \in S : y <= x
  PROVE  Greatest(S) = x
<1>1. Greatest(S) \in S /\ \A y \in S : y <= Greatest(S)
  BY DEF Greatest
<1>2. Greatest(S) <= x /\ x <= Greatest(S)
  BY <1>1
<1>3. Greatest(S) \in Int /\ x \in Int
  BY <1>1
<1> QED BY <1>2, <1>3

LEMMA LeastIs ==
  ASSUME NEW S \in SUBSET Int, NEW x \in S, \A y \in S : x <= y
  PROVE  Least(S) = x
<1>1. Least(S) \in S /\ \A y \in S : Least(S) <= y
  BY DEF Least
<1>2. Least(S) <= x /\ x <= Least(S)
  BY <1>1
<1>3. Least(S) \in Int /\ x \in Int
  BY <1>1
<1> QED BY <1>2, <1>3

(* Where a loop binds, it is the innermost one around the item, and its    *)
(* end is the item the loop ends with.                                     *)
LEMMA BoundIsInnermost ==
  ASSUME IInv, ProceduresBegin, NEW i \in 1 .. Len(src), NEW j \in 1 .. i - 1,
         NEW e \in 1 .. Len(src), BoundTo(i, j, e)
  PROVE  InLoop(src, i) /\ InnermostLoop(src, i) = j /\ MatchEnd(src, j) = e
<1> USE DEF BoundTo
<1>1. ASSUME NEW k \in 1 .. Len(src) PROVE src[k].depth \in Nat
  <2>1. src[k] \in Items(Names)
    BY ElementOfSeq DEF IInv, TypeOK
  <2> QED BY <2>1 DEF Items
<1>2. PICK g \in 1 .. i : src[g].tag = "proc" /\ \A k \in g + 1 .. i : src[k].tag # "proc"
  BY DEF ProceduresBegin, Belongs
<1>3. ProcOf(src, i) = g
  <2> DEFINE S == {k \in 1 .. i : src[k].tag = "proc"}
  <2>1. S \in SUBSET Int /\ g \in S
    BY <1>2
  <2>2. ASSUME NEW y \in S PROVE y <= g
    BY <1>2
  <2> QED BY <2>1, <2>2, GreatestIs DEF ProcOf
<1>4. g <= j
  <2>1. CASE g \in j + 1 .. i
    <3>1. src[g].depth = 0 /\ src[g].depth > src[j].depth
      BY <1>2, <2>1 DEF ProceduresBegin, Around
    <3> QED BY <1>1, <3>1
  <2> QED BY <2>1
<1>5. LoopsAround(src, i) = {m \in g .. i - 1 : Around(src, m, i)}
  BY <1>3 DEF LoopsAround, Around
<1>6. j \in LoopsAround(src, i)
  BY <1>4, <1>5
<1>7. ASSUME NEW m \in LoopsAround(src, i) PROVE m <= j
  BY <1>5
<1>8. InnermostLoop(src, i) = j
  <2> DEFINE S == LoopsAround(src, i)
  <2>1. S \in SUBSET Int /\ j \in S /\ \A m \in S : m <= j
    BY <1>5, <1>6, <1>7
  <2> QED BY <2>1, GreatestIs DEF InnermostLoop
<1>9. MatchEnd(src, j) = e
  <2> DEFINE S == EndsOf(src, j)
  <2>1. S \in SUBSET Int /\ e \in S
    BY DEF EndsOf, Closes
  <2>2. ASSUME NEW y \in S PROVE e <= y
    BY DEF EndsOf, Closes
  <2> QED BY <2>1, <2>2, LeastIs DEF MatchEnd
<1> QED BY <1>6, <1>8, <1>9 DEF InLoop

(* Where a break or a continue of a compiled program goes.                 *)
LEMMA LoopBinds ==
  ASSUME IInv, LoopInv, EmittedItem, phase = "done",
         NEW i \in 1 .. Len(src), src[i].tag \in {"break", "continue"}
  PROVE  \E j \in 1 .. i - 1, e \in 1 .. Len(src) :
           /\ src[j].tag = "loop" /\ InLoop(src, i)
           /\ InnermostLoop(src, i) = j /\ MatchEnd(src, j) = e
           /\ BodyPtr(i) \in DOMAIN code.at
           /\ code.at[BodyPtr(i)] = Jmp(IF src[i].tag = "break" THEN src[e].at + 5 ELSE src[j].at)
<1>1. ~InTable(i) /\ ~Emitted(i)
  BY DEF LoopInv, ControlKnown, InTable, Emitted, Emitting, InPart
<1>2. PICK j \in 1 .. i - 1, e \in 1 .. Len(src) : BoundTo(i, j, e)
  BY <1>1 DEF LoopInv, ControlKnown, Waits, Bound, Escapes
<1>3. InLoop(src, i) /\ InnermostLoop(src, i) = j /\ MatchEnd(src, j) = e
  BY <1>2, BoundIsInnermost DEF LoopInv
<1> QED BY <1>2, <1>3 DEF BoundTo, Around

(* Whatever program is compiled, however deep its loops and branches are   *)
(* nested, a break jumps behind the innermost loop around it and a         *)
(* continue to where that loop starts, and neither is ever compiled        *)
(* outside a loop, as long as no loop is written behind a break or a       *)
(* continue of the loop around it.                                         *)
THEOREM LoopControlBound ==
  ASSUME SafeForms, "pendingLoop" \notin Forms
  PROVE  Spec => []LoopControlBinds
<1>1. IInv /\ LoopInv /\ EmittedItem => LoopControlBinds
  BY LoopBinds DEF LoopControlBinds
<1>2. CallInv => EmittedItem
  BY DEF CallInv
<1> QED BY <1>1, <1>2, Invariant, CallInvariant, LoopInvariant, PTL
=============================================================================
