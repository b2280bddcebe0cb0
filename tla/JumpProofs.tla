----------------------------- MODULE JumpProofs -----------------------------
(***************************************************************************)
(* Where jumps go.  Every offset the compiler ever jumps to, and every one *)
(* it remembers in order to jump there later, is the start of an           *)
(* instruction or the end of the code, and is not inside a place that is   *)
(* still to be written; and no jump crosses the beginning or the end of a  *)
(* procedure.                                                              *)
(***************************************************************************)
EXTENDS StatementProofs

Transfers == {"jmp", "jcc", "call"}

(* An offset that may be jumped to: execution can go on there, now and     *)
(* after the places of S have been written.                                *)
Lands(q, b) == q = b.len \/ (q \in DOMAIN b.at /\ b.at[q].op # "data")
Clear(q, S) == \A t \in S : q <= t.p \/ t.p + t.n <= q
Good(q, S, b) == q \in Nat /\ Lands(q, b) /\ Clear(q, S)

JumpsLand ==
  \A p \in DOMAIN code.at :
    code.at[p].op \in Transfers => Good(code.at[p].to, Slots, code)

(* Where procedures begin and end; an offset of the one being compiled.    *)
Walls     == {src[i].at : i \in {k \in 1 .. Len(src) : src[k].tag \in {"proc", "endproc"}}}
Inside(q) == \A w \in Walls : w <= q

JumpsKeepInside ==
  \A p \in DOMAIN code.at : code.at[p].op \in {"jmp", "jcc"} =>
    \A w \in Walls : IF p < w THEN code.at[p].to <= w ELSE w <= code.at[p].to

(* What is remembered to be jumped to.                                     *)
PointersLand ==
  /\ \A d \in 1 .. Len(frames) :
       /\ Good(frames[d].startPtr, Slots, code) /\ Inside(frames[d].startPtr)
       /\ frames[d].part = "else" =>
            Good(frames[d].ifBlockEndPtr, Slots, code) /\ Inside(frames[d].ifBlockEndPtr)
  /\ \A n \in DOMAIN procedureMap : Good(procedureMap[n], Slots, code)

(* What is remembered to be written belongs to the procedure being         *)
(* compiled, except for the calls.                                         *)
PlacesInside ==
  /\ \A t \in Slots : t.role # "call" => Inside(t.p)
  /\ phase \in {"procs", "calls", "done"} => loopBreaks = {} /\ loopContinues = {}

(* Every procedure ends, behind its last instruction and with one.         *)
ProcedureEnds(i) ==
  \E k \in i .. Len(src) :
    src[k].tag = "endproc" /\ \A j \in i .. k - 1 : src[j].tag # "endproc"

WallsBuilt ==
  /\ \A w \in Walls : w \in Nat /\ w <= code.len
  /\ \A i \in 1 .. Len(src) : src[i].tag = "endproc" => src[i].at < code.len
  /\ \A i \in 1 .. Len(src) : src[i].tag = "proc" =>
       \/ ProcedureEnds(i)
       \/ phase \in {"body", "error"} /\ \A k \in i .. Len(src) : src[k].tag # "endproc"

(* A string literal is behind a jump.                                      *)
DataGuarded(b) ==
  \A p \in DOMAIN b.at : b.at[p].op = "data" =>
    p - 5 \in DOMAIN b.at /\ b.at[p - 5].op = "jmp" /\ b.at[p - 5].len = 5

(* The start procedure is behind everything that is jumped to, and nothing *)
(* is behind its ret.                                                      *)
StartBuilt ==
  phase \in {"calls", "done"} =>
    /\ Good(entry, Slots, code) /\ entry < code.len
    /\ \A p \in DOMAIN code.at : code.at[p].op \in Transfers => code.at[p].to <= entry
    /\ \A n \in DOMAIN procedureMap : procedureMap[n] <= entry
    /\ code.len - 1 \in DOMAIN code.at /\ code.at[code.len - 1].op = "ret"

JInv == /\ JumpsLand /\ JumpsKeepInside /\ PointersLand /\ PlacesInside
        /\ WallsBuilt /\ DataGuarded(code) /\ StartBuilt

(* What writing to a buffer b until it is c may do: where places of S are  *)
(* written or code is appended, execution can still go on wherever it      *)
(* could and no place began; the jumps and calls that are new are at       *)
(* offsets of P and go to offsets of Q, and there is no new literal.       *)
Carries(b, c, S) == \A q \in Nat : Lands(q, b) /\ Clear(q, S) => Lands(q, c)

Adds(b, c, P, Q) ==
  \A p \in DOMAIN c.at : c.at[p].op \in Transfers =>
    \/ p \in DOMAIN b.at /\ b.at[p] = c.at[p]
    \/ p \in P /\ c.at[p].to \in Q

NoLiteral(b, c) ==
  \A p \in DOMAIN c.at : c.at[p].op = "data" => p \in DOMAIN b.at /\ b.at[p] = c.at[p]

Bounded(b) == b.len \in Nat /\ DOMAIN b.at \subseteq 0 .. b.len - 1

Writes(b, c, S, P, Q) ==
  Carries(b, c, S) /\ Adds(b, c, P, Q) /\ NoLiteral(b, c) /\ Bounded(c)

(* A step remembers no new offset to jump to but the end of the code.      *)
PointersFollow ==
  \A d \in 1 .. Len(frames') :
    /\ \/ frames'[d].startPtr = code.len
       \/ \E e \in 1 .. Len(frames) : frames'[d].startPtr = frames[e].startPtr
    /\ frames'[d].part = "else" =>
         \/ frames'[d].ifBlockEndPtr = code.len
         \/ \E e \in 1 .. Len(frames) :
              frames[e].part = "else" /\ frames'[d].ifBlockEndPtr = frames[e].ifBlockEndPtr

(* A step that neither begins nor ends a procedure.                        *)
SameProcedure ==
  /\ phase = "body" /\ phase' = "body" /\ procedureMap' = procedureMap
  /\ \/ src' = src
     \/ \E it \in Items(Names) :
          it.tag \notin {"proc", "endproc"} /\ src' = Append(src, it)

----------------------------------------------------------------------------
(* Buffers.                                                                *)

(* Writing a buffer in several steps.                                      *)
LEMMA WritesTransitive ==
  ASSUME NEW b, NEW c, NEW d, NEW S, NEW P, NEW Q,
         Writes(b, c, S, P, Q), Writes(c, d, S, P, Q)
  PROVE  Writes(b, d, S, P, Q)
BY DEF Writes, Carries, Adds, NoLiteral

(* Appending an instruction that is no jump.                               *)
LEMMA EmitWrites ==
  ASSUME NEW b, Bounded(b), NEW S, NEW P, NEW Q,
         NEW i, i.len \in Nat \ {0}, i.op \notin Transfers \cup {"data"}
  PROVE  Writes(b, Emit(b, i), S, P, Q)
BY DEF Writes, Carries, Adds, NoLiteral, Lands, Emit, Bounded

(* Making room for one.                                                    *)
LEMMA NopWrites ==
  ASSUME NEW b, Bounded(b), NEW S, NEW P, NEW Q, NEW n \in Nat \ {0}
  PROVE  Writes(b, EmitNop(b, n), S, P, Q)
<1>1. Nop.op = "nop"
  BY DEF Nop, Ins
<1>2. b.len \in b.len .. b.len + n - 1
  BY DEF Bounded
<1>3. Carries(b, EmitNop(b, n), S)
  BY <1>1, <1>2 DEF Carries, Lands, EmitNop, Bounded
<1>4. Adds(b, EmitNop(b, n), P, Q) /\ NoLiteral(b, EmitNop(b, n))
  BY <1>1 DEF Adds, NoLiteral, EmitNop, Transfers
<1> QED BY <1>3, <1>4 DEF Writes, EmitNop, Bounded

(* Writing a jump or a call where there is room for it.                    *)
LEMMA PatchWrites ==
  ASSUME NEW b, Bounded(b), NEW S, NEW P, NEW Q,
         NEW W, W \subseteq 0 .. b.len - 1, W \subseteq P,
         NEW i, i.len \in Nat, i.op # "data", i.to \in Q,
         \A s \in W : \E t \in S : t.p = s /\ t.n = i.len
  PROVE  Writes(b, Patch(b, W, i), S, P, Q)
<1> DEFINE c == Patch(b, W, i)
<1>1. /\ c.len = b.len
      /\ DOMAIN c.at = W \cup {q \in DOMAIN b.at : \A s \in W : q < s \/ s + i.len <= q}
      /\ \A p \in DOMAIN c.at : \/ p \in W /\ c.at[p] = i
                                \/ p \in DOMAIN b.at /\ c.at[p] = b.at[p]
                                \/ p \in DOMAIN b.at /\ c.at[p].op = "torn"
  BY DEF Patch, Torn
<1> HIDE DEF c
<1>2. Carries(b, c, S)
  <2> SUFFICES ASSUME NEW q \in Nat, q \in DOMAIN b.at, b.at[q].op # "data", Clear(q, S)
               PROVE  q \in DOMAIN c.at /\ c.at[q].op # "data"
    BY <1>1 DEF Carries, Lands
  <2>1. \A s \in W : q <= s \/ s + i.len <= q
    BY DEF Clear
  <2>2. q \in DOMAIN c.at
    BY <1>1, <2>1
  <2> QED BY <1>1, <2>2
<1>3. Adds(b, c, P, Q) /\ NoLiteral(b, c)
  BY <1>1 DEF Adds, NoLiteral, Transfers
<1> QED BY <1>1, <1>2, <1>3 DEF Writes, Bounded, c

(* Execution can go on behind all the code.                                *)
LEMMA EndIsGood ==
  ASSUME NEW S, NEW b, IsBuffer(b), SlotsReserved(S, b)
  PROVE  Good(b.len, S, b)
BY DEF Good, Lands, Clear, SlotsReserved, Reserved, IsBuffer

(* What the invariant says of the code before a step.                      *)
LEMMA CodeFacts ==
  ASSUME IInv
  PROVE  /\ IsBuffer(code) /\ Bounded(code) /\ code.len \in Nat
         /\ SlotsReserved(Slots, code) /\ IsSlots(Slots) /\ Good(code.len, Slots, code)
         /\ \A t \in Slots : t.p \in 0 .. code.len - 1 \/ t.n = 0
<1>1. IsBuffer(code) /\ SlotsReserved(Slots, code) /\ IsSlots(Slots)
  BY SlotTypes DEF IInv, TypeOK, PendingReserved
<1>2. Bounded(code) /\ code.len \in Nat
  BY <1>1 DEF Bounded, IsBuffer, Instruction
<1>3. Good(code.len, Slots, code)
  BY <1>1, EndIsGood
<1>4. \A t \in Slots : t.p \in 0 .. code.len - 1 \/ t.n = 0
  BY <1>1, <1>2 DEF IsSlots, SlotsReserved, Reserved
<1> QED BY <1>1, <1>2, <1>3, <1>4

(* The places a step writes at and the places it reserves at once: those   *)
(* that were remembered, and new ones behind the code.                     *)
Open(S) == IsSlots(S) /\ \A t \in S : t \in Slots \/ code.len <= t.p

(* Where execution could go on it still can.                               *)
LEMMA GoodStays ==
  ASSUME IInv, IInv', PlacesGrow, NEW S, Open(S), Carries(code, code', S),
         NEW q, Good(q, Slots, code)
  PROVE  Good(q, Slots', code')
<1>1. q \in Nat /\ q <= code.len /\ code.len \in Nat
  BY CodeFacts DEF Good, Lands, Bounded
<1>2. Clear(q, S)
  BY <1>1 DEF Open, IsSlots, Clear, Good
<1>3. Lands(q, code')
  BY <1>1, <1>2 DEF Carries, Good
<1>4. Clear(q, Slots')
  BY <1>1 DEF PlacesGrow, Clear, Good
<1> QED BY <1>1, <1>3, <1>4 DEF Good

(* String literals stay behind their jumps.                                *)
LEMMA DataStays ==
  ASSUME NEW b, NEW c, Keeps(b, c), NoLiteral(b, c), DataGuarded(b)
  PROVE  DataGuarded(c)
<1>1. Nop.op = "nop"
  BY DEF Nop, Ins
<1> QED BY <1>1 DEF NoLiteral, DataGuarded, Keeps

(* In a step inside a procedure new jumps go where execution can go on, in *)
(* the procedure.                                                          *)
LEMMA BodyJumps ==
  ASSUME IInv, IInv', JInv, Keeps(code, code'), PlacesGrow,
         SameProcedure, PointersFollow,
         NEW S, Open(S), Carries(code, code', S),
         NEW P, NEW Q, Adds(code, code', P, Q), DataGuarded(code'),
         \A p \in P : p \in Nat /\ Inside(p),
         \A q \in Q : Good(q, Slots', code') /\ Inside(q)
  PROVE  JInv'
<1>1. /\ \A q : Good(q, Slots, code) => Good(q, Slots', code')
      /\ Good(code.len, Slots, code) /\ code.len \in Nat /\ code.len <= code'.len
      /\ code'.len \in Nat
  BY GoodStays, CodeFacts DEF Keeps, IInv, TypeOK, IsBuffer
<1>2. /\ \A i \in 1 .. Len(src) : i \in 1 .. Len(src') /\ src'[i] = src[i]
      /\ \A i \in 1 .. Len(src') :
           i \in 1 .. Len(src) \/ src'[i].tag \notin {"proc", "endproc"}
      /\ Len(src) \in Nat /\ Len(src') \in Nat
  <2>1. CASE src' = src
    BY <2>1, LenProperties DEF IInv, TypeOK
  <2>2. CASE src' # src
    <3>1. PICK it \in Items(Names) :
            it.tag \notin {"proc", "endproc"} /\ src' = Append(src, it)
      BY <2>2 DEF SameProcedure
    <3> QED BY <3>1, SourceGrows DEF IInv, TypeOK
  <2> QED BY <2>1, <2>2
<1>3. Walls' = Walls /\ \A w \in Walls : w \in Nat /\ w <= code.len
  BY <1>2 DEF Walls, JInv, WallsBuilt
<1>4. ASSUME NEW p \in DOMAIN code'.at, code'.at[p].op \in Transfers
      PROVE  \/ p \in DOMAIN code.at /\ code'.at[p] = code.at[p]
             \/ p \in P /\ code'.at[p].to \in Q
  BY <1>4 DEF Adds
<1>5. JumpsLand'
  BY <1>1, <1>4 DEF JInv, JumpsLand
<1>6. JumpsKeepInside'
  <2> SUFFICES ASSUME NEW p \in DOMAIN code'.at, code'.at[p].op \in {"jmp", "jcc"},
                      NEW w \in Walls
               PROVE  IF p < w THEN code'.at[p].to <= w ELSE w <= code'.at[p].to
    BY <1>3 DEF JumpsKeepInside
  <2>1. CASE p \in DOMAIN code.at /\ code'.at[p] = code.at[p]
    BY <2>1 DEF JInv, JumpsKeepInside
  <2>2. CASE p \in P /\ code'.at[p].to \in Q
    BY <2>2, <1>3 DEF Inside
  <2> QED BY <2>1, <2>2, <1>4 DEF Transfers
<1>7. Inside(code.len)
  BY <1>3 DEF Inside
<1>8. PointersLand'
  <2>1. ASSUME NEW d \in 1 .. Len(frames')
        PROVE  /\ Good(frames'[d].startPtr, Slots', code') /\ Inside(frames'[d].startPtr)
               /\ frames'[d].part = "else" =>
                    /\ Good(frames'[d].ifBlockEndPtr, Slots', code')
                    /\ Inside(frames'[d].ifBlockEndPtr)
    BY <1>1, <1>7 DEF PointersFollow, JInv, PointersLand
  <2>2. \A n \in DOMAIN procedureMap' : Good(procedureMap'[n], Slots', code')
    BY <1>1 DEF SameProcedure, JInv, PointersLand
  <2> QED BY <2>1, <2>2, <1>3 DEF PointersLand, Inside
<1>9. PlacesInside'
  <2>1. ASSUME NEW t \in Slots', t.role # "call" PROVE Inside(t.p)
    BY <2>1, <1>1, <1>3 DEF PlacesGrow, JInv, PlacesInside, Inside
  <2> QED BY <2>1, <1>3 DEF PlacesInside, SameProcedure, Inside
<1>10. WallsBuilt'
  <2>1. ASSUME NEW i \in 1 .. Len(src'), src'[i].tag = "proc"
        PROVE  ProcedureEnds(i)' \/ \A k \in i .. Len(src') : src'[k].tag # "endproc"
    <3>1. i \in 1 .. Len(src) /\ src[i].tag = "proc"
      BY <2>1, <1>2
    <3>2. CASE ProcedureEnds(i)
      <4>1. ProcedureEnds(i)'
        BY <3>1, <3>2, <1>2, SMTT(30) DEF ProcedureEnds
      <4> QED BY <4>1
    <3>3. CASE \A k \in i .. Len(src) : src[k].tag # "endproc"
      BY <3>1, <3>3, <1>2
    <3> QED BY <3>1, <3>2, <3>3 DEF JInv, WallsBuilt
  <2>2. \A i \in 1 .. Len(src') : src'[i].tag = "endproc" => src'[i].at < code'.len
    <3>1. ASSUME NEW i \in 1 .. Len(src) PROVE src[i].at \in Nat
      <4>1. src[i] \in Items(Names)
        BY ElementOfSeq DEF IInv, TypeOK
      <4> QED BY <4>1 DEF Items
    <3> QED BY <3>1, <1>1, <1>2 DEF JInv, WallsBuilt
  <2> QED BY <2>1, <2>2, <1>1, <1>3 DEF WallsBuilt, SameProcedure
<1>11. StartBuilt'
  BY DEF SameProcedure, StartBuilt
<1>12. DataGuarded(code)'
  BY DEF DataGuarded
<1> QED BY <1>5, <1>6, <1>8, <1>9, <1>10, <1>11, <1>12 DEF JInv

(* The innermost activation is done: no pointer is new.                    *)
LEMMA DoneFollows ==
  ASSUME IInv, frames # <<>>, frames' = WithTop(Done)
  PROVE  PointersFollow
<1>1. /\ Len(frames) \in Nat \ {0} /\ Len(frames') = Len(frames)
      /\ \A d \in 1 .. Len(frames) :
           /\ frames'[d].part = IF d = Len(frames) THEN "done" ELSE frames[d].part
           /\ frames'[d].startPtr = frames[d].startPtr
           /\ frames'[d].ifBlockEndPtr = frames[d].ifBlockEndPtr
  BY DoneFrames
<1> QED BY <1>1 DEF PointersFollow

(* The steps that write no jump.                                           *)
LEMMA PlainJumps ==
  ASSUME IInv, IInv', JInv, Keeps(code, code'), PlacesGrow,
         \/ \E n \in BodyLens : EmitStraight(n)
         \/ \E s \in Statement : EnterStatement(s)
         \/ EmitReturn \/ EmitBreak \/ EmitContinue \/ EmitCallStatement \/ BeginElse
  PROVE  JInv'
<1>1. Writes(code, code', Slots, {}, {})
  <2>1. Bounded(code)
    BY CodeFacts
  <2>2. Writes(code, code, Slots, {}, {})
    BY <2>1 DEF Writes, Carries, Adds, NoLiteral
  <2>3. CASE EmitBreak \/ EmitContinue \/ EmitCallStatement
    BY <2>1, <2>3, NopWrites DEF EmitBreak, EmitContinue, EmitCallStatement
  <2>4. CASE EmitReturn \/ \E n \in BodyLens : EmitStraight(n)
    <3>1. PICK n \in Nat \ {0}, op \in {"ret", "straight"} : code' = Emit(code, Ins(op, n))
      BY <2>4, CodeGenAssumption DEF EmitReturn, EmitStraight
    <3> QED BY <2>1, <3>1, EmitWrites DEF Ins, Transfers
  <2>5. ASSUME NEW s \in Statement, EnterStatement(s)
        PROVE  Writes(code, code', Slots, {}, {})
    <3>1. CASE s.cond = NoCond
      BY <2>2, <2>5, <3>1 DEF EnterStatement
    <3>2. CASE s.cond # NoCond
      <4> DEFINE i == Cmp(CmpLen(s.cond), IF s.cond.a = "reg" THEN "ab" ELSE "ba")
                 c == Emit(code, i)
      <4>1. i.len \in Nat \ {0} /\ i.op \notin Transfers \cup {"data"}
        BY <2>5, <3>2, EnterFrames DEF Cmp, Transfers
      <4>2. code' = EmitNop(c, 6)
        BY <2>5, <3>2 DEF EnterStatement, EmitCmp
      <4> HIDE DEF i
      <4>3. Writes(code, c, Slots, {}, {})
        BY <2>1, <4>1, EmitWrites
      <4> HIDE DEF c
      <4>4. Writes(c, EmitNop(c, 6), Slots, {}, {})
        BY <4>3, NopWrites DEF Writes
      <4> QED BY <4>2, <4>3, <4>4, WritesTransitive
    <3> QED BY <3>1, <3>2
  <2>6. CASE BeginElse
    BY <2>2, <2>6 DEF BeginElse
  <2> QED BY <2>3, <2>4, <2>5, <2>6
<1>2. PointersFollow
  <2>1. CASE frames # <<>> /\ frames' = WithTop(Done)
    BY <2>1, DoneFollows
  <2>2. CASE BeginElse
    <3>1. /\ Len(frames) \in Nat \ {0} /\ Len(frames') = Len(frames)
          /\ Top'.ifBlockEndPtr = code.len
          /\ \A d \in 1 .. Len(frames) :
               /\ d # Len(frames) => frames'[d] = frames[d]
               /\ frames'[d].startPtr = frames[d].startPtr
      BY <2>2, ElseFrames
    <3>2. frames'[Len(frames)] = Top'
      BY <3>1 DEF Top
    <3> QED BY <3>1, <3>2 DEF PointersFollow
  <2>3. ASSUME NEW s \in Statement, EnterStatement(s) PROVE PointersFollow
    <3>1. /\ Len(frames) \in Nat /\ Len(frames') = Len(frames) + 1
          /\ frames'[Len(frames')] = Top' /\ Top'.part = FirstPart(s.tag)
          /\ Top'.startPtr = code.len
          /\ \A d \in 1 .. Len(frames) : frames'[d] = frames[d]
      BY <2>3, EnterFrames
    <3>2. FirstPart(s.tag) # "else"
      BY DEF FirstPart
    <3> QED BY <3>1, <3>2 DEF PointersFollow
  <2> QED BY <2>1, <2>2, <2>3
          DEF EmitStraight, EmitReturn, EmitBreak, EmitContinue, EmitCallStatement,
              Emitting, InPart
<1>3. SameProcedure
  <2>1. ASSUME NEW s \in Statement, EnterStatement(s) PROVE SameProcedure
    <3> DEFINE it == Item(s.tag, s.cond, s.name, Len(frames), code.len)
    <3>1. it \in Items(Names) /\ it.tag \notin {"proc", "endproc"}
      BY <2>1, EnterFrames DEF Item, Items, StatementTags, SimpleTags, BlockTags
    <3>2. /\ src' = Append(src, it) /\ phase = "body" /\ phase' = "body"
          /\ procedureMap' = procedureMap
      BY <2>1 DEF EnterStatement, InStatementList
    <3> HIDE DEF it
    <3> QED BY <3>1, <3>2 DEF SameProcedure
  <2>2. CASE BeginElse
    <3> DEFINE at == IF Top.jumpPastElsePtr = 0 THEN code.len ELSE Top.jumpPastElsePtr
               it == Marker("else", Len(frames) - 1, at)
    <3>1. /\ src' = Append(src, it) /\ phase = "body" /\ phase' = "body"
          /\ frames # <<>> /\ procedureMap' = procedureMap
      BY <2>2 DEF BeginElse, InPart
    <3>2. at \in Nat /\ Len(frames) - 1 \in Nat
      BY <3>1, TopBelow DEF IInv, TypeOK, Frame, IsBuffer
    <3> HIDE DEF at
    <3>3. it \in Items(Names) /\ it.tag = "else"
      BY <3>2 DEF Marker, Item, Items, MarkerTags
    <3> HIDE DEF it
    <3> QED BY <3>1, <3>3 DEF SameProcedure
  <2> QED BY <2>1, <2>2
          DEF SameProcedure, EmitStraight, EmitReturn, EmitBreak, EmitContinue,
              EmitCallStatement, Emitting, InPart
<1>4. Open(Slots)
  BY CodeFacts DEF Open
<1>5. DataGuarded(code')
  BY <1>1, DataStays DEF Writes, JInv
<1> HIDE DEF JInv
<1> QED BY <1>1, <1>2, <1>3, <1>4, <1>5, BodyJumps DEF Writes

(* The place of a jump lies in the code of the procedure being compiled.   *)
LEMMA PlaceFacts ==
  ASSUME IInv, JInv, NEW t \in Slots, t.role # "call", t.n \in Nat \ {0}
  PROVE  t.p \in 0 .. code.len - 1 /\ t.p \in Nat /\ Inside(t.p)
BY CodeFacts DEF JInv, PlacesInside

(* So do the pointers an activation keeps, and the end of the code.        *)
LEMMA PointerFacts ==
  ASSUME IInv, JInv, frames # <<>>
  PROVE  /\ Good(Top.startPtr, Slots, code) /\ Inside(Top.startPtr)
         /\ Top.part = "else" =>
              Good(Top.ifBlockEndPtr, Slots, code) /\ Inside(Top.ifBlockEndPtr)
         /\ Inside(code.len) /\ Inside(code.len + 5)
<1>1. Len(frames) \in 1 .. Len(frames) /\ frames[Len(frames)] = Top
  BY TopBelow DEF IInv, TypeOK, Top
<1>2. Inside(code.len) /\ Inside(code.len + 5)
  BY CodeFacts DEF JInv, WallsBuilt, Inside
<1> QED BY <1>1, <1>2 DEF JInv, PointersLand

(* The jump over a statement is written at the place kept for it.          *)
LEMMA SkipWrites ==
  ASSUME NEW b, Bounded(b), NEW S, NEW P, NEW Q, NEW f, NEW to \in Q,
         f.condPtr \in 0 .. b.len - 1, f.condPtr \in P,
         \E t \in S : t.p = f.condPtr /\ t.n = 6
  PROVE  Writes(b, WriteSkip(b, f, to), S, P, Q)
<1> DEFINE i == Jcc(SkipComparison(f.cond), to)
<1>1. i.len = 6 /\ i.op # "data" /\ i.to \in Q
  BY DEF Jcc
<1>2. WriteSkip(b, f, to) = Patch(b, {f.condPtr}, i)
  BY DEF WriteSkip
<1> HIDE DEF i
<1> QED BY <1>1, <1>2, PatchWrites

(* A jump is written at places kept for it.                                *)
LEMMA JumpWrites ==
  ASSUME NEW b, Bounded(b), NEW S, NEW P, NEW Q, NEW to \in Q,
         NEW W, W \subseteq 0 .. b.len - 1, W \subseteq P,
         \A s \in W : \E t \in S : t.p = s /\ t.n = 5
  PROVE  Writes(b, WriteJump(b, W, to), S, P, Q)
<1> DEFINE i == Jmp(to)
<1>1. i.len = 5 /\ i.len \in Nat /\ i.op # "data" /\ i.to \in Q
  BY DEF Jmp
<1>2. WriteJump(b, W, to) = Patch(b, W, i)
  BY DEF WriteJump
<1> HIDE DEF i
<1>3. \A s \in W : \E t \in S : t.p = s /\ t.n = i.len
  BY <1>1
<1>4. Writes(b, Patch(b, W, i), S, P, Q)
  BY <1>1, <1>3, PatchWrites
<1> QED BY <1>2, <1>4

(* A statement is left: the jump over it goes to the end of the code.      *)
LEMMA LeaveJumps ==
  ASSUME IInv, IInv', JInv, Keeps(code, code'), PlacesGrow, LeaveStatement
  PROVE  JInv'
<1> DEFINE skips == Top.cond # NoCond /\ Top.tag # "branch"
           t == Slot("cond", Len(frames), Top.condPtr, 6)
           skipped == IF skips THEN WriteSkip(code, Top, code.len) ELSE code
           P == IF skips THEN {Top.condPtr} ELSE {}
           Q == {code.len}
<1>0. frames # <<>> /\ TypeOK
  BY DEF LeaveStatement, InPart, IInv
<1>1. /\ phase = "body" /\ phase' = "body" /\ src' = src /\ procedureMap' = procedureMap
      /\ frames # <<>>
      /\ code' = skipped \/ code' = EmitNop(skipped, 5)
  BY DEF LeaveStatement, InPart
<1>2. skips => t \in Slots /\ t.role = "cond" /\ t.n = 6 /\ t.p = Top.condPtr
  <2>1. skips => CondPending(Top)
    BY DEF CondPending
  <2>2. t.role = "cond" /\ t.n = 6 /\ t.p = Top.condPtr
    BY DEF Slot
  <2>3. CondPending(Top) => t \in Slots
    BY <1>0, TopSlots
  <2> HIDE DEF skips, t
  <2> QED BY <2>1, <2>2, <2>3
<1>3. \A p \in P : p \in 0 .. code.len - 1 /\ p \in Nat /\ Inside(p)
  <2>1. skips => t.p \in 0 .. code.len - 1 /\ t.p \in Nat /\ Inside(t.p)
    <3> HIDE DEF t, skips
    <3> QED BY <1>2, PlaceFacts
  <2> QED BY <2>1, <1>2
<1>4. Writes(code, code', Slots, P, Q)
  <2>1. Bounded(code)
    BY CodeFacts
  <2>2. Writes(code, skipped, Slots, P, Q)
    <3>1. CASE skips
      <4>1. /\ code.len \in Q /\ Top.condPtr \in P /\ Top.condPtr \in 0 .. code.len - 1
            /\ \E u \in Slots : u.p = Top.condPtr /\ u.n = 6
        BY <3>1, <1>2, <1>3
      <4>2. skipped = WriteSkip(code, Top, code.len)
        BY <3>1
      <4> HIDE DEF P, Q, skipped
      <4> QED BY <2>1, <4>1, <4>2, SkipWrites
    <3>2. CASE ~skips
      BY <2>1, <3>2 DEF Writes, Carries, Adds, NoLiteral
    <3> QED BY <3>1, <3>2
  <2> HIDE DEF P, Q, skipped
  <2>3. Writes(skipped, EmitNop(skipped, 5), Slots, P, Q)
    BY <2>2, NopWrites DEF Writes
  <2> QED BY <1>1, <2>2, <2>3, WritesTransitive
<1>5. Good(code.len, Slots', code') /\ Inside(code.len)
  <2>1. Carries(code, code', Slots) /\ Open(Slots) /\ Good(code.len, Slots, code)
    BY <1>4, CodeFacts DEF Writes, Open
  <2>2. Good(code.len, Slots', code')
    BY <2>1, GoodStays
  <2> QED BY <2>2, <1>0, PointerFacts
<1>6. SameProcedure /\ PointersFollow
  <2>1. /\ Len(frames) \in Nat \ {0} /\ Len(frames') = Len(frames) - 1
        /\ \A d \in 1 .. Len(frames) - 1 :
             /\ frames'[d].part = frames[d].part
             /\ frames'[d].startPtr = frames[d].startPtr
             /\ frames'[d].ifBlockEndPtr = frames[d].ifBlockEndPtr
    BY LeaveFrames
  <2> QED BY <2>1, <1>1 DEF SameProcedure, PointersFollow
<1>7. Open(Slots) /\ DataGuarded(code')
  BY <1>4, CodeFacts, DataStays DEF Open, Writes, JInv
<1>8. \A q \in Q : Good(q, Slots', code') /\ Inside(q)
  BY <1>5
<1> HIDE DEF JInv, P, Q
<1> QED BY <1>3, <1>4, <1>6, <1>7, <1>8, BodyJumps DEF Writes

(* The marker of the end of a block.                                       *)
LEMMA EndMarker ==
  ASSUME IInv, frames # <<>>, phase = "body", phase' = "body",
         procedureMap' = procedureMap,
         src' = Append(src, Marker("end", Len(frames) - 1, code.len))
  PROVE  SameProcedure
<1> DEFINE it == Marker("end", Len(frames) - 1, code.len)
<1>1. code.len \in Nat /\ Len(frames) - 1 \in Nat
  BY TopBelow DEF IInv, TypeOK, Frame, IsBuffer
<1>2. it \in Items(Names) /\ it.tag = "end" /\ src' = Append(src, it)
  BY <1>1 DEF Marker, Item, Items, MarkerTags
<1> HIDE DEF it
<1> QED BY <1>2 DEF SameProcedure

(* A branch ends: the jump over its then block goes to the end of that     *)
(* block, the jump over its else block to the end of the code.             *)
LEMMA BranchJumps ==
  ASSUME IInv, IInv', JInv, Keeps(code, code'), PlacesGrow, EndThen \/ EndElse
  PROVE  JInv'
<1> DEFINE c == Slot("cond", Len(frames), Top.condPtr, 6)
           e == Slot("else", Len(frames), Top.jumpPastElsePtr, 5)
           past == WriteJump(code, {e.p}, code.len)
           P == {c.p} \cup (IF EndElse THEN {e.p} ELSE {})
           Q == {code.len} \cup (IF EndElse THEN {Top.ifBlockEndPtr} ELSE {})
<1>1. /\ phase = "body" /\ phase' = "body" /\ procedureMap' = procedureMap
      /\ src' = Append(src, Marker("end", Len(frames) - 1, code.len))
      /\ frames # <<>> /\ frames' = WithTop(Done)
      /\ Top.part \in {"then", "else"} /\ (EndElse => Top.part = "else")
  BY DEF EndThen, EndElse, InPart
<1>2. /\ c \in Slots /\ c.role = "cond" /\ c.n = 6 /\ c.p = Top.condPtr
      /\ EndElse => e \in Slots
      /\ e.role = "else" /\ e.n = 5 /\ e.p = Top.jumpPastElsePtr
  <2>1. Len(frames) \in 1 .. Len(frames) /\ frames[Len(frames)] = Top
    BY <1>1, TopBelow DEF IInv, TypeOK, Top
  <2>2. FrameOK(Top)
    BY <2>1 DEF IInv, FramesOK
  <2>3. CondPending(Top) /\ (EndElse => ElsePending(Top))
    BY <2>2, <1>1 DEF FrameOK, CondPending, ElsePending
  <2> QED BY <2>3, <1>1, TopSlots DEF IInv, Slot
<1>3. \A p \in P : p \in 0 .. code.len - 1 /\ p \in Nat /\ Inside(p)
  <2> HIDE DEF c, e
  <2> QED BY <1>2, PlaceFacts
<1>4. Writes(code, code', Slots, P, Q)
  <2>1. Bounded(code)
    BY CodeFacts
  <2>2. /\ c.p \in P /\ c.p \in 0 .. code.len - 1 /\ code.len \in Q
        /\ EndElse => e.p \in P /\ e.p \in 0 .. code.len - 1 /\ Top.ifBlockEndPtr \in Q
    BY <1>3
  <2>3. CASE EndThen
    <3>1. code' = WriteSkip(code, Top, code.len)
      BY <2>3 DEF EndThen
    <3> HIDE DEF P, Q, c, e
    <3> QED BY <2>1, <2>2, <3>1, <1>2, SkipWrites
  <2>4. CASE EndElse
    <3>1. code' = WriteSkip(past, Top, Top.ifBlockEndPtr) /\ past.len = code.len
      BY <2>4, <1>2 DEF EndElse, WriteJump, Patch
    <3>2. Writes(code, past, Slots, P, Q)
      <4> DEFINE W == {e.p}
      <4>1. W \subseteq P /\ W \subseteq 0 .. code.len - 1
            /\ \A s \in W : \E t \in Slots : t.p = s /\ t.n = 5
        BY <2>2, <2>4, <1>2
      <4>2. past = WriteJump(code, W, code.len)
        OBVIOUS
      <4> HIDE DEF P, Q, W, past
      <4> QED BY <2>1, <2>2, <4>1, <4>2, JumpWrites
    <3> HIDE DEF P, Q, c, e, past
    <3>3. Writes(past, code', Slots, P, Q)
      BY <2>2, <2>4, <3>1, <3>2, <1>2, SkipWrites DEF Writes
    <3> QED BY <3>2, <3>3, WritesTransitive
  <2> QED BY <2>3, <2>4
<1>5. \A q \in Q : Good(q, Slots', code') /\ Inside(q)
  <2> SUFFICES ASSUME NEW q \in Q PROVE Good(q, Slots, code) /\ Inside(q)
    BY <1>4, CodeFacts, GoodStays DEF Writes, Open
  <2> QED BY <1>1, CodeFacts, PointerFacts
<1>6. SameProcedure /\ PointersFollow
  BY <1>1, EndMarker, DoneFollows
<1>7. Open(Slots) /\ DataGuarded(code')
  BY <1>4, CodeFacts, DataStays DEF Open, Writes, JInv
<1> HIDE DEF JInv, P, Q
<1> QED BY <1>3, <1>4, <1>5, <1>6, <1>7, BodyJumps DEF Writes

(* A loop ends: the jump back and the continues go to where it starts, the *)
(* breaks behind the jump back.                                            *)
LEMMA LoopJumps ==
  ASSUME IInv, IInv', JInv, Keeps(code, code'), PlacesGrow, EndLoop
  PROVE  JInv'
<1> DEFINE new == Slot("new", 0, code.len, 5)
           S == Slots \cup {new}
           here == {code.len}
           room == EmitNop(code, 5)
           back == WriteJump(room, here, Top.startPtr)
           broken == WriteJump(back, loopBreaks, back.len)
           continued == WriteJump(broken, loopContinues, Top.startPtr)
           P == here \cup loopBreaks \cup loopContinues
           Q == {Top.startPtr, code.len + 5}
<1>0. frames # <<>> /\ code.len \in Nat
  BY CodeFacts DEF EndLoop, InPart
<1>1. /\ phase = "body" /\ phase' = "body" /\ procedureMap' = procedureMap
      /\ src' = Append(src, Marker("end", Len(frames) - 1, code.len))
      /\ frames' = WithTop(Done) /\ code' = continued
  BY DEF EndLoop, InPart, JumpBack, BreakTarget
<1>2. new.p = code.len /\ new.n = 5
  BY DEF Slot
<1>3. Open(S)
  BY <1>0, <1>2, CodeFacts DEF Open, IsSlots
<1>4. ASSUME NEW p \in loopBreaks \cup loopContinues
      PROVE  /\ p \in 0 .. code.len - 1 /\ p \in Nat /\ Inside(p)
             /\ \E t \in S : t.p = p /\ t.n = 5
  <2>1. PICK t \in Slots : t.role # "call" /\ t.p = p /\ t.n = 5
    <3>1. Slot("break", 0, p, 5) \in Slots \/ Slot("continue", 0, p, 5) \in Slots
      BY DEF Slots, TableSlots
    <3> QED BY <3>1 DEF Slot
  <2>2. p \in 0 .. code.len - 1 /\ p \in Nat /\ Inside(p)
    BY <2>1, PlaceFacts, SMTT(30)
  <2> QED BY <2>1, <2>2
<1>5. room.len = code.len + 5 /\ back.len = code.len + 5 /\ broken.len = code.len + 5
      /\ continued.len = code.len + 5
  BY DEF EmitNop, WriteJump, Patch
<1>6. Writes(code, code', S, P, Q)
  <2>1. /\ here \subseteq P /\ loopBreaks \subseteq P /\ loopContinues \subseteq P
        /\ Top.startPtr \in Q /\ back.len \in Q
    BY <1>5
  <2>2. /\ here \subseteq 0 .. room.len - 1
        /\ loopBreaks \subseteq 0 .. back.len - 1
        /\ loopContinues \subseteq 0 .. broken.len - 1
    <3> HIDE DEF room, back, broken
    <3> QED BY <1>0, <1>4, <1>5
  <2>3. /\ \A s \in here : \E t \in S : t.p = s /\ t.n = 5
        /\ \A s \in loopBreaks : \E t \in S : t.p = s /\ t.n = 5
        /\ \A s \in loopContinues : \E t \in S : t.p = s /\ t.n = 5
    BY <1>2, <1>4
  <2> HIDE DEF new, S, P, Q, here
  <2>4. Writes(code, room, S, P, Q)
    BY CodeFacts, NopWrites
  <2> HIDE DEF room
  <2>5. Writes(room, back, S, P, Q)
    BY <2>1, <2>2, <2>3, <2>4, JumpWrites DEF Writes
  <2> HIDE DEF back
  <2>6. Writes(back, broken, S, P, Q)
    BY <2>1, <2>2, <2>3, <2>5, JumpWrites DEF Writes
  <2> HIDE DEF broken
  <2>7. Writes(broken, continued, S, P, Q)
    BY <2>1, <2>2, <2>3, <2>6, JumpWrites DEF Writes
  <2> HIDE DEF continued
  <2> QED BY <1>1, <2>4, <2>5, <2>6, <2>7, WritesTransitive
<1>7. \A q \in Q : Good(q, Slots', code') /\ Inside(q)
  <2>1. Good(Top.startPtr, Slots', code')
    <3> HIDE DEF S
    <3> QED BY <1>0, <1>3, <1>6, PointerFacts, GoodStays DEF Writes
  <2>2. Good(code'.len, Slots', code')
    <3>1. IsBuffer(code') /\ SlotsReserved(Slots', code')
      BY DEF IInv, TypeOK, PendingReserved
    <3> QED BY <3>1, EndIsGood
  <2>3. code'.len = code.len + 5
    BY <1>1, <1>5
  <2> QED BY <2>1, <2>2, <2>3, <1>0, PointerFacts
<1>8. SameProcedure /\ PointersFollow
  BY <1>0, <1>1, EndMarker, DoneFollows
<1>9. DataGuarded(code')
  BY <1>6, DataStays DEF Writes, JInv
<1>10. \A p \in P : p \in Nat /\ Inside(p)
  BY <1>0, <1>4, PointerFacts
<1> HIDE DEF JInv, P, Q, S
<1> QED BY <1>3, <1>6, <1>7, <1>8, <1>9, <1>10, BodyJumps DEF Writes

(* A string output: a jump at the end of the code over the literal, which  *)
(* is nowhere else.                                                        *)
LEMMA TextJumps ==
  ASSUME IInv, IInv', JInv, Keeps(code, code'), PlacesGrow,
         NEW n \in TextLens, EmitText(n)
  PROVE  JInv'
<1> DEFINE room    == EmitNop(code, 5)
           literal == IF n = 0 THEN room ELSE Emit(room, Ins("data", n))
           jump    == Jmp(code.len + 5 + n)
           jumped  == Patch(literal, {code.len}, jump)
           print   == Ins("straight", 75)
           P == {code.len}
           Q == {code.len + 5 + n}
<1>0. frames # <<>> /\ code.len \in Nat /\ n \in Nat
  BY CodeFacts, CodeGenAssumption DEF EmitText, Emitting, InPart
<1>1. /\ phase = "body" /\ phase' = "body" /\ procedureMap' = procedureMap
      /\ src' = src /\ frames' = WithTop(Done)
      /\ Top.part = "emit" /\ Top.tag = "text"
  BY DEF EmitText, Emitting, InPart
<1>2. literal.len = code.len + 5 + n
  BY <1>0 DEF EmitNop, Emit, Ins
<1>3. code' = Emit(jumped, print)
  <2>1. Top.startPtr = code.len
    BY <1>0, <1>1 DEF IInv, FramesOK
  <2> QED BY <2>1, <1>2 DEF EmitText, WriteJump
<1>4. \A p \in DOMAIN code.at :
        p \in Nat /\ p < code.len /\ code.at[p].len \in Nat /\ p + code.at[p].len <= code.len
  BY CodeFacts DEF IsBuffer, Instruction
<1>5. /\ Nop.op = "nop" /\ jump.op = "jmp" /\ jump.len = 5 /\ jump.to = code.len + 5 + n
      /\ print.op = "straight" /\ print.len = 75
      /\ Ins("data", n).op = "data"
  BY DEF Nop, Jmp, Ins
<1>6. /\ DOMAIN code.at \subseteq DOMAIN literal.at
      /\ \A p \in DOMAIN literal.at :
           \/ p \in DOMAIN code.at /\ literal.at[p] = code.at[p]
           \/ p \in code.len .. code.len + 4 /\ literal.at[p].op = "nop"
           \/ p = code.len + 5 /\ literal.at[p].op = "data"
  <2>1. /\ room.len = code.len + 5
        /\ DOMAIN room.at = DOMAIN code.at \cup code.len .. code.len + 4
        /\ \A p \in DOMAIN room.at :
             room.at[p] = IF p \in DOMAIN code.at THEN code.at[p] ELSE Nop
    BY <1>0 DEF EmitNop
  <2> HIDE DEF room
  <2>2. \A p \in DOMAIN room.at :
           \/ p \in DOMAIN code.at /\ room.at[p] = code.at[p]
           \/ p \in code.len .. code.len + 4 /\ room.at[p].op = "nop"
    BY <2>1, <1>5
  <2>3. CASE n = 0
    BY <2>1, <2>2, <2>3
  <2>4. CASE n # 0
    <3>1. /\ DOMAIN literal.at = DOMAIN room.at \cup {code.len + 5}
          /\ \A p \in DOMAIN literal.at :
               literal.at[p] = IF p = code.len + 5 THEN Ins("data", n) ELSE room.at[p]
      BY <2>1, <2>4 DEF Emit
    <3> HIDE DEF literal
    <3> QED BY <2>1, <2>2, <3>1, <1>5
  <2> QED BY <2>3, <2>4
<1> HIDE DEF room, literal, jump, print
<1>7. /\ jumped.len = code.len + 5 + n
      /\ DOMAIN code.at \subseteq DOMAIN jumped.at /\ code.len \in DOMAIN jumped.at
      /\ jumped.at[code.len] = jump
      /\ \A p \in DOMAIN jumped.at :
           \/ p \in DOMAIN code.at /\ jumped.at[p] = code.at[p]
           \/ p = code.len
           \/ p = code.len + 5 /\ jumped.at[p].op = "data"
  <2>1. /\ jumped.len = code.len + 5 + n
        /\ DOMAIN jumped.at =
             {code.len} \cup {q \in DOMAIN literal.at : q < code.len \/ code.len + 5 <= q}
        /\ jumped.at[code.len] = jump
        /\ \A p \in DOMAIN jumped.at \ {code.len} :
             jumped.at[p] = IF p < code.len /\ code.len < p + literal.at[p].len
                            THEN Torn(literal.at[p]) ELSE literal.at[p]
    BY <1>2, <1>5 DEF Patch
  <2> HIDE DEF jumped
  <2>2. DOMAIN code.at \subseteq DOMAIN jumped.at
    BY <2>1, <1>4, <1>6
  <2>3. ASSUME NEW p \in DOMAIN jumped.at, p # code.len
        PROVE  \/ p \in DOMAIN code.at /\ jumped.at[p] = code.at[p]
               \/ p = code.len + 5 /\ jumped.at[p].op = "data"
    <3>1. p \in DOMAIN literal.at /\ (p < code.len \/ code.len + 5 <= p)
      BY <2>1, <2>3
    <3>2. CASE p \in DOMAIN code.at /\ literal.at[p] = code.at[p]
      BY <2>1, <2>3, <3>2, <1>0, <1>4, SMTT(30)
    <3>3. CASE p = code.len + 5 /\ literal.at[p].op = "data"
      BY <2>1, <2>3, <3>3, <1>0
    <3> QED BY <3>1, <3>2, <3>3, <1>0, <1>6
  <2> QED BY <2>1, <2>2, <2>3
<1> HIDE DEF jumped
<1>8. /\ DOMAIN code'.at = DOMAIN jumped.at \cup {code.len + 5 + n}
      /\ \A p \in DOMAIN code'.at :
           code'.at[p] = IF p = code.len + 5 + n THEN print ELSE jumped.at[p]
  BY <1>3, <1>7 DEF Emit
<1>9. /\ \A p \in DOMAIN code.at : p \in DOMAIN code'.at /\ code'.at[p].op = jumped.at[p].op
      /\ code.len \in DOMAIN code'.at /\ code'.at[code.len] = jump
      /\ code.len + 5 + n \in DOMAIN code'.at /\ code'.at[code.len + 5 + n].op = "straight"
      /\ \A p \in DOMAIN code'.at :
           \/ p \in DOMAIN code.at /\ code'.at[p] = code.at[p]
           \/ p = code.len
           \/ p = code.len + 5 /\ code'.at[p].op = "data"
           \/ code'.at[p].op = "straight"
  BY <1>0, <1>4, <1>5, <1>7, <1>8
<1>10. Carries(code, code', Slots)
  <2>1. ASSUME NEW p \in DOMAIN code.at PROVE code'.at[p].op = code.at[p].op
    <3>1. p \in DOMAIN jumped.at /\ p < code.len /\ p \in Nat
      BY <1>4, <1>7
    <3> QED BY <3>1, <1>0, <1>7, <1>9
  <2> QED BY <2>1, <1>5, <1>9 DEF Carries, Lands
<1>11. Adds(code, code', P, Q)
  BY <1>5, <1>9 DEF Adds, Transfers
<1>12. DataGuarded(code')
  <2> SUFFICES ASSUME NEW p \in DOMAIN code'.at, code'.at[p].op = "data"
               PROVE  /\ p - 5 \in DOMAIN code'.at
                      /\ code'.at[p - 5].op = "jmp" /\ code'.at[p - 5].len = 5
    BY DEF DataGuarded
  <2>1. CASE p \in DOMAIN code.at /\ code'.at[p] = code.at[p]
    <3>1. p - 5 \in DOMAIN code.at /\ code.at[p - 5].op = "jmp" /\ code.at[p - 5].len = 5
      BY <2>1 DEF JInv, DataGuarded
    <3> QED BY <3>1, <1>5 DEF Keeps
  <2>2. CASE p = code.len + 5
    BY <2>2, <1>0, <1>5, <1>9, SMTT(30)
  <2> QED BY <2>1, <2>2, <1>5, <1>9
<1>13. \A q \in Q : Good(q, Slots', code') /\ Inside(q)
  <2>1. ASSUME NEW t \in Slots' PROVE t.p + t.n <= code.len /\ t.p \in Nat /\ t.n \in Nat
    <3>1. Slots' \subseteq Slots
      <4>1. FrameSlots(frames') \subseteq FrameSlots(frames)
        BY <1>0, <1>1, DoneTop
      <4> QED BY <4>1 DEF EmitText, Slots
    <3> QED BY <3>1, CodeFacts DEF IsSlots, SlotsReserved, Reserved
  <2>2. Good(code.len + 5 + n, Slots', code')
    BY <2>1, <1>0, <1>9 DEF Good, Lands, Clear
  <2>3. Inside(code.len + 5 + n)
    BY <1>0 DEF JInv, WallsBuilt, Inside
  <2> QED BY <2>2, <2>3
<1>14. SameProcedure /\ PointersFollow
  BY <1>0, <1>1, DoneFollows DEF SameProcedure
<1>15. Open(Slots) /\ \A p \in P : p \in Nat /\ Inside(p)
  BY <1>0, CodeFacts, PointerFacts DEF Open
<1> HIDE DEF JInv, P, Q
<1> QED BY <1>10, <1>11, <1>12, <1>13, <1>14, <1>15, BodyJumps

(* Between procedures only calls wait to be written.                       *)
LEMMA OnlyCallsWait ==
  ASSUME frames = <<>>, loopBreaks = {}, loopContinues = {}
  PROVE  \A t \in Slots : t.role = "call"
<1>1. Len(frames) = 0
  OBVIOUS
<1> QED BY <1>1 DEF Slots, TableSlots, FrameSlots, Slot

(* A step to a new wall, at the end of the code.                           *)
LEMMA NewWall ==
  ASSUME IInv, JInv, NEW it \in Items(Names), it.tag \in {"proc", "endproc"},
         it.at = code.len, src' = Append(src, it), code.len < code'.len \/ it.tag = "proc",
         code.len <= code'.len, code'.len \in Nat
  PROVE  /\ Walls' = Walls \cup {code.len}
         /\ \A w \in Walls' : w \in Nat /\ w <= code.len
         /\ \A i \in 1 .. Len(src') : src'[i].tag = "endproc" => src'[i].at < code'.len
<1>1. /\ Len(src) \in Nat /\ Len(src') = Len(src) + 1 /\ src'[Len(src')] = it
      /\ \A i \in 1 .. Len(src) : i \in 1 .. Len(src') /\ src'[i] = src[i]
      /\ \A i \in 1 .. Len(src') : i \in 1 .. Len(src) \/ i = Len(src')
  BY SourceGrows DEF IInv, TypeOK
<1>2. Walls' = Walls \cup {code.len}
  <2> DEFINE Old == {k \in 1 .. Len(src) : src[k].tag \in {"proc", "endproc"}}
             New == {k \in 1 .. Len(src') : src'[k].tag \in {"proc", "endproc"}}
  <2>1. New = Old \cup {Len(src')} /\ \A k \in Old : src'[k] = src[k]
    BY <1>1
  <2>2. Walls = {src[i].at : i \in Old} /\ Walls' = {src'[i].at : i \in New}
    BY DEF Walls
  <2> HIDE DEF Old, New
  <2> QED BY <2>1, <2>2, <1>1, ZenonT(40)
<1>3. \A w \in Walls' : w \in Nat /\ w <= code.len
  BY <1>2, CodeFacts DEF JInv, WallsBuilt
<1>4. \A i \in 1 .. Len(src') : src'[i].tag = "endproc" => src'[i].at < code'.len
  <2>1. \A i \in 1 .. Len(src) : src[i].tag = "endproc" => src[i].at \in Walls
    BY DEF Walls
  <2>2. \A i \in 1 .. Len(src) :
          src[i].tag = "endproc" => src[i].at < code.len /\ src[i].at \in Nat
    BY <2>1 DEF JInv, WallsBuilt
  <2> QED BY <2>2, <1>1, CodeFacts
<1> QED BY <1>2, <1>3, <1>4

(* A procedure begins where the code ends: no jump goes further.           *)
LEMMA BeginJumps ==
  ASSUME IInv, JInv, NEW n \in Names, BeginProcedure(n)
  PROVE  JInv'
<1> DEFINE it == Item("proc", NoCond, n, 0, code.len)
<1>1. /\ phase = "procs" /\ phase' = "body" /\ src' = Append(src, it)
      /\ procedureMap' = [m \in DOMAIN procedureMap \cup {n} |->
                            IF m = n THEN code.len ELSE procedureMap[m]]
      /\ frames = <<>> /\ frames' = <<>> /\ loopBreaks = {} /\ loopContinues = {}
      /\ UNCHANGED <<frames, code, entry, uncalled, loopBreaks, loopContinues>>
  BY DEF BeginProcedure, IInv, FramesOK, JInv, PlacesInside
<1>2. it \in Items(Names) /\ it.tag = "proc" /\ it.at = code.len /\ code.len \in Nat
  BY CodeFacts DEF Item, Items, MarkerTags
<1> HIDE DEF it
<1>3. /\ Walls' = Walls \cup {code.len}
      /\ \A w \in Walls' : w \in Nat /\ w <= code.len
      /\ \A i \in 1 .. Len(src') : src'[i].tag = "endproc" => src'[i].at < code'.len
  BY <1>1, <1>2, NewWall
<1>4. Slots' = Slots /\ code' = code
  BY <1>1 DEF Slots
<1>5. JumpsLand'
  BY <1>4 DEF JInv, JumpsLand
<1>6. JumpsKeepInside'
  <2> SUFFICES ASSUME NEW p \in DOMAIN code.at, code.at[p].op \in {"jmp", "jcc"},
                      NEW w \in Walls'
               PROVE  IF p < w THEN code.at[p].to <= w ELSE w <= code.at[p].to
    BY <1>4 DEF JumpsKeepInside
  <2>1. CASE w \in Walls
    BY <2>1 DEF JInv, JumpsKeepInside
  <2>2. CASE w = code.len
    <3>1. p < code.len
      BY CodeFacts, <1>2 DEF Bounded
    <3>2. Good(code.at[p].to, Slots, code)
      BY DEF JInv, JumpsLand, Transfers
    <3> QED BY <2>2, <3>1, <3>2, CodeFacts DEF Good, Lands, Bounded
  <2> QED BY <2>1, <2>2, <1>3
<1>7. PointersLand'
  <2>1. Len(frames') = 0
    BY <1>1
  <2>2. \A m \in DOMAIN procedureMap' : Good(procedureMap'[m], Slots', code')
    BY <1>1, <1>4, CodeFacts DEF JInv, PointersLand
  <2> QED BY <2>1, <2>2 DEF PointersLand
<1>8. PlacesInside'
  BY <1>1, <1>4, OnlyCallsWait DEF PlacesInside
<1>9. WallsBuilt'
  <2>1. /\ Len(src) \in Nat /\ Len(src') = Len(src) + 1 /\ src'[Len(src')] = it
        /\ \A i \in 1 .. Len(src) : i \in 1 .. Len(src') /\ src'[i] = src[i]
        /\ \A i \in 1 .. Len(src') : i \in 1 .. Len(src) \/ i = Len(src')
    BY <1>1, <1>2, SourceGrows DEF IInv, TypeOK
  <2>2. ASSUME NEW i \in 1 .. Len(src'), src'[i].tag = "proc"
        PROVE  ProcedureEnds(i)' \/ \A k \in i .. Len(src') : src'[k].tag # "endproc"
    <3>1. CASE i \in 1 .. Len(src)
      <4>1. ProcedureEnds(i)
        BY <2>1, <2>2, <3>1, <1>1 DEF JInv, WallsBuilt
      <4>2. ProcedureEnds(i)'
        BY <2>1, <3>1, <4>1 DEF ProcedureEnds
      <4> QED BY <4>2
    <3>2. CASE i = Len(src')
      BY <2>1, <2>2, <3>2
    <3> QED BY <2>1, <3>1, <3>2
  <2> QED BY <2>2, <1>1, <1>3, <1>4 DEF WallsBuilt
<1>10. DataGuarded(code)' /\ StartBuilt'
  BY <1>1, <1>4 DEF JInv, DataGuarded, StartBuilt
<1> QED BY <1>5, <1>6, <1>7, <1>8, <1>9, <1>10 DEF JInv

(* A procedure ends with its ret, behind which no jump of it goes.         *)
LEMMA EndJumps ==
  ASSUME IInv, IInv', JInv, Keeps(code, code'), PlacesGrow, EndProcedure
  PROVE  JInv'
<1> DEFINE it  == Marker("endproc", 0, code.len)
           ret == Ins("ret", 1)
<1>1. /\ phase = "body" /\ phase' = "procs" /\ src' = Append(src, it)
      /\ code' = Emit(code, ret) /\ procedureMap' = procedureMap
      /\ frames = <<>> /\ frames' = <<>>
      /\ loopBreaks' = {} /\ loopContinues' = {}
  BY DEF EndProcedure
<1>2. /\ it \in Items(Names) /\ it.tag = "endproc" /\ it.at = code.len /\ code.len \in Nat
      /\ ret.op = "ret" /\ ret.len = 1 /\ code'.len = code.len + 1
  BY <1>1, CodeFacts DEF Marker, Item, Items, MarkerTags, Ins, Emit
<1> HIDE DEF it, ret
<1>3. /\ Walls' = Walls \cup {code.len}
      /\ \A w \in Walls' : w \in Nat /\ w <= code.len
      /\ \A i \in 1 .. Len(src') : src'[i].tag = "endproc" => src'[i].at < code'.len
  BY <1>1, <1>2, NewWall
<1>4. Writes(code, code', Slots, {}, {})
  BY <1>1, <1>2, CodeFacts, EmitWrites DEF Transfers
<1>5. \A q : Good(q, Slots, code) => Good(q, Slots', code')
  BY <1>4, CodeFacts, GoodStays DEF Writes, Open
<1>6. ASSUME NEW p \in DOMAIN code'.at, code'.at[p].op \in Transfers
      PROVE  p \in DOMAIN code.at /\ code'.at[p] = code.at[p]
  BY <1>4, <1>6 DEF Writes, Adds
<1>7. JumpsLand'
  BY <1>5, <1>6 DEF JInv, JumpsLand
<1>8. JumpsKeepInside'
  <2> SUFFICES ASSUME NEW p \in DOMAIN code'.at, code'.at[p].op \in {"jmp", "jcc"},
                      NEW w \in Walls'
               PROVE  IF p < w THEN code'.at[p].to <= w ELSE w <= code'.at[p].to
    BY DEF JumpsKeepInside
  <2>0. p \in DOMAIN code.at /\ code'.at[p] = code.at[p]
    BY <1>6 DEF Transfers
  <2>1. CASE w \in Walls
    BY <2>0, <2>1 DEF JInv, JumpsKeepInside
  <2>2. CASE w = code.len
    <3>1. p < code.len
      BY <2>0, CodeFacts DEF Bounded
    <3>2. Good(code.at[p].to, Slots, code)
      BY <2>0 DEF JInv, JumpsLand, Transfers
    <3> QED BY <2>0, <2>2, <3>1, <3>2, CodeFacts DEF Good, Lands, Bounded
  <2> QED BY <2>1, <2>2, <1>3
<1>9. PointersLand'
  <2>1. Len(frames') = 0
    BY <1>1
  <2>2. \A m \in DOMAIN procedureMap' : Good(procedureMap'[m], Slots', code')
    BY <1>1, <1>5 DEF JInv, PointersLand
  <2> QED BY <2>1, <2>2 DEF PointersLand
<1>10. PlacesInside'
  <2>1. Len(frames') = 0
    BY <1>1
  <2>2. \A t \in Slots' : t.role = "call"
    BY <2>1, <1>1 DEF Slots, TableSlots, FrameSlots, Slot
  <2> QED BY <2>2, <1>1 DEF PlacesInside
<1>11. WallsBuilt'
  <2>1. /\ Len(src) \in Nat /\ Len(src') = Len(src) + 1 /\ src'[Len(src')] = it
        /\ \A i \in 1 .. Len(src) : i \in 1 .. Len(src') /\ src'[i] = src[i]
        /\ \A i \in 1 .. Len(src') : i \in 1 .. Len(src) \/ i = Len(src')
    BY <1>1, <1>2, SourceGrows DEF IInv, TypeOK
  <2>2. ASSUME NEW i \in 1 .. Len(src'), src'[i].tag = "proc"
        PROVE  ProcedureEnds(i)'
    <3>1. i \in 1 .. Len(src) /\ src[i].tag = "proc"
      BY <2>1, <2>2, <1>2
    <3>2. CASE ProcedureEnds(i)
      BY <2>1, <3>1, <3>2 DEF ProcedureEnds
    <3>3. CASE \A k \in i .. Len(src) : src[k].tag # "endproc"
      <4>1. /\ Len(src') \in i .. Len(src') /\ src'[Len(src')].tag = "endproc"
            /\ \A j \in i .. Len(src') - 1 : src'[j].tag # "endproc"
        BY <2>1, <3>1, <3>3, <1>2
      <4> QED BY <4>1 DEF ProcedureEnds
    <3> QED BY <3>1, <3>2, <3>3 DEF JInv, WallsBuilt
  <2> QED BY <2>2, <1>2, <1>3 DEF WallsBuilt
<1>12. DataGuarded(code)' /\ StartBuilt'
  <2>1. DataGuarded(code')
    BY <1>4, DataStays DEF JInv, Writes
  <2> QED BY <2>1, <1>1 DEF DataGuarded, StartBuilt
<1> QED BY <1>7, <1>8, <1>9, <1>10, <1>11, <1>12 DEF JInv

(* What a step that leaves the program alone keeps of the walls.           *)
LEMMA WallsStay ==
  ASSUME IInv, WallsBuilt, src' = src, code.len <= code'.len, code'.len \in Nat,
         phase' = "error" \/ phase' = phase \/ phase \notin {"body", "error"}
  PROVE  Walls' = Walls /\ WallsBuilt'
<1>1. Walls' = Walls
  BY DEF Walls
<1>2. ASSUME NEW i \in 1 .. Len(src), src[i].tag = "endproc"
      PROVE  src[i].at < code'.len
  <2>1. src[i].at \in Walls
    BY <1>2 DEF Walls
  <2> QED BY <2>1, <1>2, CodeFacts DEF WallsBuilt
<1>3. \A i \in 1 .. Len(src) : ProcedureEnds(i) => ProcedureEnds(i)'
  BY DEF ProcedureEnds
<1> QED BY <1>1, <1>2, <1>3, CodeFacts DEF WallsBuilt

(* The start procedure is appended: its call is not written yet, and       *)
(* nothing goes behind where it begins.                                    *)
LEMMA StartJumps ==
  ASSUME IInv, IInv', JInv, Keeps(code, code'), PlacesGrow, CompileStart
  PROVE  JInv'
<1> DEFINE enter  == Ins("enter", 23)
           leave  == Ins("leave", 23)
           ret    == Ins("ret", 1)
           pushed == Emit(code, enter)
           called == EmitNop(pushed, 5)
           popped == Emit(called, leave)
<1>1. /\ phase = "procs" /\ phase' = "calls" /\ entry' = code.len
      /\ code' = Emit(popped, ret)
      /\ src' = src /\ procedureMap' = procedureMap
      /\ frames = <<>> /\ frames' = <<>>
      /\ loopBreaks' = {} /\ loopContinues' = {}
  BY DEF CompileStart, IInv, FramesOK, JInv, PlacesInside
<1>2. /\ code'.len = code.len + 52 /\ code.len \in Nat
      /\ code'.len - 1 \in DOMAIN code'.at /\ code'.at[code'.len - 1].op = "ret"
  <2>1. popped.len = code.len + 51 /\ code.len \in Nat
    BY CodeFacts DEF Emit, EmitNop, Ins
  <2>2. ret.len = 1 /\ ret.op = "ret"
    BY DEF Ins
  <2> HIDE DEF popped, ret
  <2> QED BY <2>1, <2>2, <1>1 DEF Emit
<1>3. Writes(code, code', Slots, {}, {})
  <2>1. /\ enter.len \in Nat \ {0} /\ enter.op \notin Transfers \cup {"data"}
        /\ leave.len \in Nat \ {0} /\ leave.op \notin Transfers \cup {"data"}
        /\ ret.len \in Nat \ {0} /\ ret.op \notin Transfers \cup {"data"}
    BY DEF Ins, Transfers
  <2> HIDE DEF enter, leave, ret
  <2>2. Writes(code, pushed, Slots, {}, {})
    BY <2>1, CodeFacts, EmitWrites
  <2> HIDE DEF pushed
  <2>3. Writes(pushed, called, Slots, {}, {})
    BY <2>2, NopWrites DEF Writes
  <2> HIDE DEF called
  <2>4. Writes(called, popped, Slots, {}, {})
    BY <2>1, <2>3, EmitWrites DEF Writes
  <2> HIDE DEF popped
  <2>5. Writes(popped, code', Slots, {}, {})
    BY <1>1, <2>1, <2>4, EmitWrites DEF Writes
  <2> QED BY <2>2, <2>3, <2>4, <2>5, WritesTransitive
<1>4. \A q : Good(q, Slots, code) => Good(q, Slots', code')
  BY <1>3, CodeFacts, GoodStays DEF Writes, Open
<1>5. ASSUME NEW p \in DOMAIN code'.at, code'.at[p].op \in Transfers
      PROVE  p \in DOMAIN code.at /\ code'.at[p] = code.at[p]
  BY <1>3, <1>5 DEF Writes, Adds
<1>6. Walls' = Walls /\ WallsBuilt'
  BY <1>1, <1>2, WallsStay DEF JInv
<1>7. JumpsLand'
  BY <1>4, <1>5 DEF JInv, JumpsLand
<1>8. JumpsKeepInside'
  BY <1>5, <1>6 DEF JInv, JumpsKeepInside, Transfers
<1>9. PointersLand'
  <2>1. Len(frames') = 0
    BY <1>1
  <2>2. \A m \in DOMAIN procedureMap' : Good(procedureMap'[m], Slots', code')
    BY <1>1, <1>4 DEF JInv, PointersLand
  <2> QED BY <2>1, <2>2 DEF PointersLand
<1>10. PlacesInside'
  <2>1. Len(frames') = 0
    BY <1>1
  <2>2. \A t \in Slots' : t.role = "call"
    BY <2>1, <1>1 DEF Slots, TableSlots, FrameSlots, Slot
  <2> QED BY <2>2, <1>1 DEF PlacesInside
<1>11. DataGuarded(code)'
  <2>1. DataGuarded(code')
    BY <1>3, DataStays DEF JInv, Writes
  <2> QED BY <2>1 DEF DataGuarded
<1>12. StartBuilt'
  <2>1. \A q : Good(q, Slots, code) => q <= code.len
    BY CodeFacts DEF Good, Lands, Bounded
  <2>2. \A p \in DOMAIN code'.at :
          code'.at[p].op \in Transfers => code'.at[p].to <= code.len
    BY <2>1, <1>5 DEF JInv, JumpsLand
  <2>3. \A m \in DOMAIN procedureMap' : procedureMap'[m] <= code.len
    BY <2>1, <1>1 DEF JInv, PointersLand
  <2>4. Good(entry', Slots', code')
    BY <1>1, <1>4, CodeFacts
  <2> QED BY <2>2, <2>3, <2>4, <1>1, <1>2 DEF StartBuilt
<1> QED BY <1>6, <1>7, <1>8, <1>9, <1>10, <1>11, <1>12 DEF JInv

(* A call is written: it goes to a procedure.                              *)
LEMMA CallJumps ==
  ASSUME IInv, IInv', JInv, Keeps(code, code'), PlacesGrow,
         NEW p \in uncalled, LinkCall(p)
  PROVE  JInv'
<1> DEFINE to == procedureMap[callTable[p]]
           i  == CallTo(to)
           t  == Slot("call", 0, p, 5)
           P  == {p}
           Q  == {to}
<1>1. /\ phase = "calls" /\ phase' = "calls" /\ callTable[p] \in DOMAIN procedureMap
      /\ code' = Patch(code, P, i)
      /\ frames = <<>> /\ frames' = <<>>
      /\ UNCHANGED <<src, entry, procedureMap, loopBreaks, loopContinues>>
  BY DEF LinkCall, WriteCall, IInv, FramesOK
<1>2. t \in Slots /\ t.n = 5 /\ t.p = p
  BY DEF Slots, TableSlots, Slot
<1>3. /\ i.op = "call" /\ i.len = 5 /\ i.len \in Nat /\ i.op # "data" /\ i.to \in Q
  BY DEF CallTo
<1>4. /\ Good(to, Slots, code) /\ to <= entry
  BY <1>1 DEF JInv, PointersLand, StartBuilt
<1>5. Writes(code, code', Slots, P, Q) /\ code'.len = code.len
  <2>1. P \subseteq 0 .. code.len - 1
    <3> HIDE DEF t
    <3> QED BY <1>2, CodeFacts
  <2>2. \A s \in P : \E u \in Slots : u.p = s /\ u.n = i.len
    BY <1>2, <1>3
  <2> HIDE DEF i, P, Q
  <2>3. Writes(code, Patch(code, P, i), Slots, P, Q)
    BY <2>1, <2>2, <1>3, CodeFacts, PatchWrites
  <2> QED BY <2>3, <1>1 DEF Patch
<1>6. code'.at[p].op = "call"
  BY <1>1, <1>3 DEF Patch
<1> HIDE DEF i, to, t
<1>7. \A q : Good(q, Slots, code) => Good(q, Slots', code')
  BY <1>5, CodeFacts, GoodStays DEF Writes, Open
<1>8. ASSUME NEW r \in DOMAIN code'.at, code'.at[r].op \in Transfers
      PROVE  \/ r \in DOMAIN code.at /\ code'.at[r] = code.at[r]
             \/ r = p /\ code'.at[r].to = to
  BY <1>5, <1>8 DEF Writes, Adds
<1>9. Walls' = Walls /\ WallsBuilt'
  BY <1>1, <1>5, CodeFacts, WallsStay DEF JInv
<1>10. JumpsLand'
  BY <1>4, <1>7, <1>8 DEF JInv, JumpsLand
<1>11. JumpsKeepInside'
  BY <1>6, <1>8, <1>9 DEF JInv, JumpsKeepInside, Transfers
<1>12. PointersLand'
  <2>1. Len(frames') = 0
    BY <1>1
  <2>2. \A m \in DOMAIN procedureMap' : Good(procedureMap'[m], Slots', code')
    BY <1>1, <1>7 DEF JInv, PointersLand
  <2> QED BY <2>1, <2>2 DEF PointersLand
<1>13. PlacesInside'
  <2>1. Len(frames') = 0 /\ loopBreaks' = {} /\ loopContinues' = {}
    BY <1>1 DEF JInv, PlacesInside
  <2>2. \A s \in Slots' : s.role = "call"
    BY <2>1 DEF Slots, TableSlots, FrameSlots, Slot
  <2> QED BY <2>1, <2>2 DEF PlacesInside
<1>14. DataGuarded(code)'
  <2>1. DataGuarded(code')
    BY <1>5, DataStays DEF JInv, Writes
  <2> QED BY <2>1 DEF DataGuarded
<1>15. StartBuilt'
  <2>1. /\ Good(entry', Slots', code') /\ entry' < code'.len
        /\ \A m \in DOMAIN procedureMap' : procedureMap'[m] <= entry'
    BY <1>1, <1>5, <1>7 DEF JInv, StartBuilt
  <2>2. \A r \in DOMAIN code'.at :
          code'.at[r].op \in Transfers => code'.at[r].to <= entry'
    BY <1>1, <1>4, <1>8 DEF JInv, StartBuilt
  <2>3. code'.len - 1 \in DOMAIN code'.at /\ code'.at[code'.len - 1].op = "ret"
    <3>1. code.len - 1 \in DOMAIN code.at /\ code.at[code.len - 1].op = "ret"
      BY <1>1 DEF JInv, StartBuilt
    <3>2. Nop.op = "nop"
      BY DEF Nop, Ins
    <3> QED BY <3>1, <3>2, <1>5 DEF Keeps
  <2> QED BY <2>1, <2>2, <2>3 DEF StartBuilt
<1> QED BY <1>9, <1>10, <1>11, <1>12, <1>13, <1>14, <1>15 DEF JInv

(* The other steps change at most the phase.                               *)
LEMMA PhaseJumps ==
  ASSUME IInv, JInv,
         \/ StrayLoopControl \/ EmitLonghand \/ Compiled \/ UNCHANGED vars
         \/ \E s \in Statement : BadCondition(s)
         \/ \E p \in uncalled : MissingProcedure(p)
  PROVE  JInv'
<1>1. /\ UNCHANGED <<src, frames, code, entry, procedureMap, uncalled,
                     loopBreaks, loopContinues>>
      /\ phase' = "error" \/ phase' = phase \/ (phase = "calls" /\ phase' = "done")
  BY DEF StrayLoopControl, EmitLonghand, Compiled, vars, BadCondition, MissingProcedure
<1>2. Slots' = Slots
  BY <1>1 DEF Slots
<1>3. Walls' = Walls /\ WallsBuilt'
  BY <1>1, CodeFacts, WallsStay DEF JInv
<1>4. JumpsLand' /\ JumpsKeepInside'
  BY <1>1, <1>2, <1>3 DEF JInv, JumpsLand, JumpsKeepInside
<1>5. PointersLand' /\ PlacesInside'
  BY <1>1, <1>2, <1>3 DEF JInv, PointersLand, PlacesInside, Inside
<1>6. DataGuarded(code)' /\ StartBuilt'
  BY <1>1, <1>2 DEF JInv, DataGuarded, StartBuilt
<1> QED BY <1>3, <1>4, <1>5, <1>6 DEF JInv

LEMMA NextJumps ==
  ASSUME IInv, JInv, SafeForms, [Next]_vars
  PROVE  JInv'
<1>0. IInv' /\ Keeps(code, code') /\ PlacesGrow
  BY NextInvariant
<1>1. ASSUME NEW n \in Names, BeginProcedure(n) PROVE JInv'
  BY <1>1, BeginJumps
<1>2. CASE EndProcedure
  BY <1>0, <1>2, EndJumps
<1>3. CASE \/ \E n \in BodyLens : EmitStraight(n)
           \/ \E s \in Statement : EnterStatement(s)
           \/ EmitReturn \/ EmitBreak \/ EmitContinue \/ EmitCallStatement \/ BeginElse
  BY <1>0, <1>3, PlainJumps
<1>4. ASSUME NEW n \in TextLens, EmitText(n) PROVE JInv'
  BY <1>0, <1>4, TextJumps
<1>5. CASE EndLoop
  BY <1>0, <1>5, LoopJumps
<1>6. CASE EndThen \/ EndElse
  BY <1>0, <1>6, BranchJumps
<1>7. CASE LeaveStatement
  BY <1>0, <1>7, LeaveJumps
<1>8. CASE CompileStart
  BY <1>0, <1>8, StartJumps
<1>9. ASSUME NEW p \in uncalled, LinkCall(p) PROVE JInv'
  BY <1>0, <1>9, CallJumps
<1>10. CASE \/ StrayLoopControl \/ EmitLonghand \/ Compiled \/ UNCHANGED vars
            \/ \E s \in Statement : BadCondition(s)
            \/ \E p \in uncalled : MissingProcedure(p)
  BY <1>10, PhaseJumps
<1> QED BY <1>1, <1>2, <1>3, <1>4, <1>5, <1>6, <1>7, <1>8, <1>9, <1>10
        DEF Next, Compile, Returned

LEMMA JumpsInvariant ==
  ASSUME SafeForms PROVE Spec => []JInv
<1>1. Init => JInv
  <2> SUFFICES ASSUME Init PROVE JInv
    OBVIOUS
  <2>1. /\ Len(src) = 0 /\ Len(frames) = 0 /\ frames = <<>> /\ DOMAIN code.at = {}
        /\ DOMAIN procedureMap = {} /\ phase = "procs"
        /\ loopBreaks = {} /\ loopContinues = {}
    BY DEF Init, EmptyBuffer
  <2>2. Walls = {} /\ WallsBuilt
    BY <2>1 DEF Walls, WallsBuilt
  <2>3. PlacesInside
    BY <2>1, OnlyCallsWait DEF PlacesInside
  <2> QED BY <2>1, <2>2, <2>3
          DEF JInv, JumpsLand, JumpsKeepInside, PointersLand, DataGuarded, StartBuilt
<1> QED BY <1>1, NextJumps, Invariant, PTL DEF Spec

(* Whatever program is compiled, every jump and conditional jump of a      *)
(* procedure lands on an instruction of that procedure, however loops,     *)
(* branches, breaks and continues are nested and whichever of them wait    *)
(* for their target at the same time.                                      *)
THEOREM JumpsBound ==
  ASSUME SafeForms PROVE Spec => []JumpsStayInProcedure
<1>1. JInv /\ IInv => JumpsStayInProcedure
  <2> SUFFICES ASSUME JInv, IInv, phase = "done",
                      NEW i \in 1 .. Len(src), src[i].tag = "proc",
                      NEW last, last = src[EndProcOf(src, i)].at,
                      NEW p \in DOMAIN code.at, src[i].at <= p, p < last,
                      code.at[p].op \in {"jmp", "jcc"}
               PROVE  /\ code.at[p].to \in DOMAIN code.at
                      /\ src[i].at <= code.at[p].to /\ code.at[p].to <= last
    BY DEF JumpsStayInProcedure
  <2>1. PICK k \in i .. Len(src) :
          src[k].tag = "endproc" /\ \A j \in i .. k - 1 : src[j].tag # "endproc"
    BY DEF JInv, WallsBuilt, ProcedureEnds
  <2>2. Len(src) \in Nat /\ k \in 1 .. Len(src)
    BY LenProperties DEF IInv, TypeOK
  <2>3. EndProcOf(src, i) = k
    <3> DEFINE ends == {j \in i .. Len(src) : src[j].tag = "endproc"}
    <3>1. k \in ends /\ \A j \in ends : k <= j
      BY <2>1, <2>2
    <3>2. \A j \in ends : j \in Nat
      BY <2>2
    <3> HIDE DEF ends
    <3>3. Least(ends) = k
      <4>1. \E x \in ends : \A j \in ends : x <= j
        BY <3>1
      <4>2. Least(ends) \in ends /\ \A j \in ends : Least(ends) <= j
        BY <4>1 DEF Least
      <4>3. Least(ends) <= k /\ k <= Least(ends) /\ Least(ends) \in Nat /\ k \in Nat
        BY <3>1, <3>2, <4>2
      <4> QED BY <4>3
    <3> QED BY <3>3 DEF EndProcOf, ends
  <2>4. src[i].at \in Walls /\ last \in Walls /\ last < code.len /\ last \in Nat
    BY <2>1, <2>2, <2>3 DEF Walls, JInv, WallsBuilt
  <2>5. p \in Nat /\ src[i].at \in Nat
    <3>1. \A q \in DOMAIN code.at : q \in Nat
      BY CodeFacts DEF Bounded
    <3>2. \A w \in Walls : w \in Nat
      BY DEF JInv, WallsBuilt
    <3> QED BY <2>4, <3>1, <3>2
  <2>6. src[i].at <= code.at[p].to /\ code.at[p].to <= last
    BY <2>4, <2>5 DEF JInv, JumpsKeepInside
  <2>7. Good(code.at[p].to, Slots, code)
    BY DEF JInv, JumpsLand, Transfers
  <2>8. code.at[p].to \in DOMAIN code.at
    BY <2>4, <2>6, <2>7, CodeFacts DEF Good, Lands
  <2> QED BY <2>6, <2>8
<1> QED BY <1>1, Invariant, JumpsInvariant, PTL

============================================================================
