--------------------------- MODULE CodeGenProofs ---------------------------
(***************************************************************************)
(* CodeGen keeps its promises for every program without a conditional      *)
(* string output and without an empty then block before an else block, of  *)
(* any size: the values stay typed, every remembered place stays reserved, *)
(* and generated code is only patched where it was reserved.               *)
(***************************************************************************)
EXTENDS CodeGen, SequenceTheorems, TLAPS

(* What emitting and patching do to a buffer.                              *)

(* Nothing in b was changed in c.                                          *)
Extends(b, c) ==
  /\ b.len <= c.len
  /\ \A p \in DOMAIN b.at : p \in DOMAIN c.at /\ c.at[p] = b.at[p]

(* Nothing but nops of b was changed in c.                                 *)
Keeps(b, c) ==
  /\ b.len <= c.len
  /\ \A p \in DOMAIN b.at :
       b.at[p] = Nop \/ (p \in DOMAIN c.at /\ c.at[p] = b.at[p])

(* A nop is an instruction of one byte that is not torn.                   *)
LEMMA NopIsInstruction == Nop \in Instruction /\ Nop.len = 1 /\ Nop.op # "torn"
BY DEF Nop, Ins, Instruction, Ops, Hows

(* Changes that keep what is not a nop compose, and extensions are such.   *)
LEMMA KeepsTransitive ==
  ASSUME NEW b, NEW c, NEW d, IsBuffer(b), IsBuffer(c), IsBuffer(d),
         Keeps(b, c), Keeps(c, d)
  PROVE  Keeps(b, d)
BY DEF Keeps, IsBuffer

(* A buffer that was only appended to is kept.                             *)
LEMMA ExtendsKeeps ==
  ASSUME NEW b, NEW c, Extends(b, c) PROVE Keeps(b, c)
BY DEF Keeps, Extends

(* Appending an instruction extends the buffer and leaves it decodable.    *)
LEMMA EmitLemma ==
  ASSUME NEW b, IsBuffer(b), NEW i \in Instruction
  PROVE  /\ IsBuffer(Emit(b, i))
         /\ Extends(b, Emit(b, i))
         /\ Emit(b, i).len = b.len + i.len
         /\ Intact(b) /\ i.op # "torn" => Intact(Emit(b, i))
<1> DEFINE c == Emit(b, i)
<1>0. i.len \in Nat /\ i.len > 0
  BY DEF Instruction
<1>1. /\ c.len = b.len + i.len
      /\ DOMAIN c.at = DOMAIN b.at \cup {b.len}
      /\ \A p \in DOMAIN c.at : c.at[p] = IF p = b.len THEN i ELSE b.at[p]
  BY DEF Emit
<1>2. \A p \in DOMAIN b.at : p \in Nat /\ b.at[p].len \in Nat \ {0} /\ p < b.len
  BY DEF IsBuffer, Instruction
<1>3. IsBuffer(c)
  BY <1>0, <1>1, <1>2 DEF IsBuffer
<1>4. Extends(b, c)
  BY <1>0, <1>1, <1>2 DEF Extends, IsBuffer
<1>5. ASSUME Intact(b), i.op # "torn" PROVE Intact(c)
  <2>1. NoneTorn(c)
    BY <1>1, <1>5 DEF NoneTorn, Intact
  <2>2. Disjoint(c)
    BY <1>0, <1>1, <1>2, <1>5 DEF Disjoint, Intact, IsBuffer
  <2>3. Tiled(c)
    BY <1>0, <1>1, <1>2, <1>5 DEF Tiled, Intact, IsBuffer
  <2> QED BY <2>1, <2>2, <2>3 DEF Intact
<1> HIDE DEF c
<1>6. c = Emit(b, i)
  BY DEF c
<1> QED BY <1>1, <1>3, <1>4, <1>5, <1>6

(* EmitNop extends the buffer with a reserved place.                       *)
LEMMA EmitNopLemma ==
  ASSUME NEW b, IsBuffer(b), NEW n \in Nat
  PROVE  /\ IsBuffer(EmitNop(b, n))
         /\ Extends(b, EmitNop(b, n))
         /\ EmitNop(b, n).len = b.len + n
         /\ Reserved(EmitNop(b, n), b.len, n)
         /\ Intact(b) => Intact(EmitNop(b, n))
<1> DEFINE c == EmitNop(b, n)
<1>0. b.len \in Nat
  BY DEF IsBuffer
<1>1. /\ c.len = b.len + n
      /\ DOMAIN c.at = DOMAIN b.at \cup b.len .. b.len + n - 1
      /\ \A p \in DOMAIN c.at : c.at[p] = IF p \in DOMAIN b.at THEN b.at[p] ELSE Nop
  BY DEF EmitNop
<1>2. \A p \in DOMAIN b.at : p \in Nat /\ b.at[p].len \in Nat \ {0} /\ p < b.len
  BY DEF IsBuffer, Instruction
<1>3. IsBuffer(c)
  BY <1>0, <1>1, <1>2, NopIsInstruction DEF IsBuffer
<1>4. Extends(b, c)
  BY <1>0, <1>1, <1>2 DEF Extends
<1>5. Reserved(c, b.len, n)
  BY <1>0, <1>1, <1>2 DEF Reserved
<1>6. ASSUME Intact(b) PROVE Intact(c)
  <2>1. NoneTorn(c)
    BY <1>1, <1>6, NopIsInstruction DEF NoneTorn, Intact
  <2>2. Disjoint(c)
    BY <1>0, <1>1, <1>2, <1>6, NopIsInstruction DEF Disjoint, Intact, IsBuffer
  <2>3. Tiled(c)
    BY <1>0, <1>1, <1>2, <1>6, NopIsInstruction DEF Tiled, Intact
  <2> QED BY <2>1, <2>2, <2>3 DEF Intact
<1> HIDE DEF c
<1>7. c = EmitNop(b, n)
  BY DEF c
<1> QED BY <1>1, <1>3, <1>4, <1>5, <1>6, <1>7

(* Writing an instruction over reserved places that do not overlap changes *)
(* nothing else, and leaves the buffer decodable.                          *)
LEMMA PatchLemma ==
  ASSUME NEW b, IsBuffer(b), Intact(b),
         NEW S \in SUBSET Nat, NEW i \in Instruction, i.op # "torn",
         \A s \in S : Reserved(b, s, i.len),
         \A s, t \in S : s = t \/ s + i.len <= t \/ t + i.len <= s
  PROVE  /\ IsBuffer(Patch(b, S, i))
         /\ Keeps(b, Patch(b, S, i))
         /\ Patch(b, S, i).len = b.len
         /\ Intact(Patch(b, S, i))
         /\ \A s \in S : s \in DOMAIN Patch(b, S, i).at /\ Patch(b, S, i).at[s] = i
         /\ \A p, n \in Nat :
              /\ Reserved(b, p, n)
              /\ \A s \in S : p + n <= s \/ s + i.len <= p
              => Reserved(Patch(b, S, i), p, n)
<1> DEFINE c == Patch(b, S, i)
           Free(q) == \A s \in S : q < s \/ s + i.len <= q
<1>0. b.len \in Nat /\ i.len \in Nat /\ i.len > 0 /\ S \subseteq Nat
  BY DEF Instruction, IsBuffer
<1>1. \A p \in DOMAIN b.at : p \in Nat /\ b.at[p].len \in Nat \ {0} /\ p < b.len
  BY DEF IsBuffer, Instruction
<1>2. \A s \in S : \A k \in s .. s + i.len - 1 : k \in DOMAIN b.at /\ b.at[k] = Nop
  BY DEF Reserved
<1>3. ASSUME NEW p \in DOMAIN b.at, NEW s \in S, p < s PROVE p + b.at[p].len <= s
  <2>0. s \in Nat
    BY <1>0
  <2>1. s \in s .. s + i.len - 1
    BY <1>0, <2>0
  <2>2. s \in DOMAIN b.at
    BY <1>2, <2>1
  <2> QED BY <1>0, <1>1, <1>3, <2>0, <2>2 DEF Intact, Disjoint
<1>4. DOMAIN c.at = S \cup {q \in DOMAIN b.at : Free(q)} /\ c.len = b.len
  BY DEF Patch
<1>5. ASSUME NEW p \in DOMAIN c.at PROVE c.at[p] = IF p \in S THEN i ELSE b.at[p]
  <2>1. CASE p \in S
    BY <2>1, <1>4 DEF Patch
  <2>2. CASE p \notin S
    <3>1. p \in DOMAIN b.at
      BY <2>2, <1>4
    <3>2. ~ \E s \in S : p < s /\ s < p + b.at[p].len
      BY <1>0, <1>1, <1>3, <3>1
    <3> QED BY <2>2, <3>1, <3>2, <1>4 DEF Patch
  <2> QED BY <2>1, <2>2
<1> HIDE DEF c
<1>6. \A s \in S : s + i.len <= b.len
  BY DEF Reserved
<1>7. IsBuffer(c)
  BY <1>0, <1>1, <1>4, <1>5, <1>6 DEF IsBuffer
<1>8. \A p \in DOMAIN b.at : b.at[p] = Nop \/ (Free(p) /\ p \notin S)
  <2> SUFFICES ASSUME NEW p \in DOMAIN b.at, b.at[p] # Nop PROVE Free(p) /\ p \notin S
    OBVIOUS
  <2>1. \A s \in S : ~(s <= p /\ p < s + i.len)
    BY <1>0, <1>1, <1>2
  <2>2. p \in Nat /\ i.len \in Nat \ {0} /\ \A s \in S : s \in Nat
    BY <1>0, <1>1
  <2>3. ASSUME NEW s \in S PROVE s # p /\ (p < s \/ s + i.len <= p)
    BY <2>1, <2>2
  <2> QED BY <2>3
<1>9. Keeps(b, c)
  BY <1>0, <1>4, <1>5, <1>8 DEF Keeps
<1>10. NoneTorn(c)
  BY <1>4, <1>5 DEF NoneTorn, Intact
<1>11. Disjoint(c)
  <2> SUFFICES ASSUME NEW p \in DOMAIN c.at,
                      NEW q \in DOMAIN c.at, p < q
               PROVE  p + c.at[p].len <= q
    <3>1. \A p \in DOMAIN c.at : p \in Nat /\ c.at[p].len \in Nat
      BY <1>0, <1>1, <1>4, <1>5
    <3> QED BY <3>1 DEF Disjoint
  <2>1. CASE p \in S
    <3>1. c.at[p] = i /\ p \in Nat /\ q \in Nat
      BY <2>1, <1>0, <1>1, <1>4, <1>5
    <3>2. CASE q \in S
      BY <2>1, <3>1, <3>2, <1>0
    <3>3. CASE q \notin S
      BY <2>1, <3>1, <3>3, <1>0, <1>4
    <3> QED BY <3>2, <3>3
  <2>2. CASE p \notin S /\ q \in S
    BY <2>2, <1>3, <1>4, <1>5
  <2>3. CASE p \notin S /\ q \notin S
    BY <2>3, <1>0, <1>1, <1>4, <1>5 DEF Intact, Disjoint
  <2> QED BY <2>1, <2>2, <2>3
<1>12. Tiled(c)
  <2>1. ASSUME NEW q \in DOMAIN b.at \cup {b.len},
               \A s \in S : ~(s < q /\ q < s + i.len)
        PROVE  q \in DOMAIN c.at \cup {c.len}
    BY <2>1, <1>0, <1>1, <1>4
  <2>2. 0 \in DOMAIN c.at \cup {c.len}
    BY <2>1, <1>0 DEF Intact, Tiled
  <2>3. ASSUME NEW p \in DOMAIN c.at PROVE p + c.at[p].len \in DOMAIN c.at \cup {c.len}
    <3>1. CASE p \in S
      <4>0. p \in Nat
        BY <3>1, <1>0
      <4>1. p + i.len - 1 \in p .. p + i.len - 1
        BY <4>0, <1>0
      <4>5. c.at[p].len = i.len
        BY <3>1, <1>5
      <4>2. p + i.len - 1 \in DOMAIN b.at /\ b.at[p + i.len - 1].len = 1
        BY <3>1, <4>1, <1>2, NopIsInstruction
      <4>3. p + i.len \in DOMAIN b.at \cup {b.len}
        <5>1. p + i.len - 1 + 1 \in DOMAIN b.at \cup {b.len}
          BY <4>2 DEF Intact, Tiled
        <5> QED BY <5>1, <4>0, <1>0
      <4>4. ASSUME NEW s \in S PROVE ~(s < p + i.len /\ p + i.len < s + i.len)
        <5>1. s \in Nat /\ i.len \in Nat \ {0}
          BY <1>0
        <5>2. s = p \/ s + i.len <= p \/ p + i.len <= s
          BY <3>1
        <5> QED BY <4>0, <5>1, <5>2
      <4> QED BY <4>5, <4>3, <4>4, <2>1
    <3>2. CASE p \notin S
      <4>1. p \in DOMAIN b.at /\ Free(p) /\ c.at[p] = b.at[p]
        BY <3>2, <1>4, <1>5
      <4>2. p + b.at[p].len \in DOMAIN b.at \cup {b.len}
        BY <4>1 DEF Intact, Tiled
      <4>3. \A s \in S : ~(s < p + b.at[p].len /\ p + b.at[p].len < s + i.len)
        BY <4>1, <1>0, <1>1, <1>3
      <4> QED BY <4>1, <4>2, <4>3, <2>1
    <3> QED BY <3>1, <3>2
  <2> QED BY <2>2, <2>3 DEF Tiled
<1>13. ASSUME NEW p \in Nat, NEW n \in Nat, Reserved(b, p, n),
              \A s \in S : p + n <= s \/ s + i.len <= p
       PROVE  Reserved(c, p, n)
  BY <1>13, <1>0, <1>4, <1>5 DEF Reserved
<1>14. \A s \in S : s \in DOMAIN c.at /\ c.at[s] = i
  BY <1>4, <1>5
<1>15. c = Patch(b, S, i)
  BY DEF c
<1> QED BY <1>4, <1>7, <1>9, <1>10, <1>11, <1>12, <1>13, <1>14, <1>15 DEF Intact

----------------------------------------------------------------------------
(* The programs the theorems are about.                                    *)
SafeForms == "textIf" \notin Forms /\ "emptyThen" \notin Forms

(* What an activation of CompileStatement satisfies.                       *)
FrameOK(f) ==
  /\ f.part \in {"then", "else"} => f.tag = "branch"
  /\ f.tag = "branch" => f.cond # NoCond
  /\ f.tag = "call" => f.name \in Names
  /\ f.tag = "text" => f.cond = NoCond
  /\ f.part = "else" => f.jumpPastElsePtr > 0

FramesOK ==
  /\ \A d \in 1 .. Len(frames) : FrameOK(frames[d])
  /\ \A d \in 1 .. Len(frames) - 1 : frames[d].part # "emit"
  /\ frames # <<>> /\ Top.tag = "text" /\ Top.part = "emit" => Top.startPtr = code.len
  /\ phase \in {"procs", "calls", "done"} => frames = <<>>

(* The inductive invariant.                                                *)
IInv == TypeOK /\ PendingReserved /\ CodeIntact /\ FramesOK

(* A step remembers no new place but behind all the code.                  *)
PlacesGrow == \A t \in Slots' : t \in Slots \/ (t.p \in Nat /\ code.len <= t.p)

----------------------------------------------------------------------------
(* Places are typed.                                                       *)
IsSlots(S) == \A s \in S : s.p \in Nat /\ s.n \in Nat

(* Places stay reserved when code is appended.                             *)
LEMMA SlotsExtend ==
  ASSUME NEW S, IsSlots(S), NEW b, NEW c, IsBuffer(b), IsBuffer(c),
         SlotsReserved(S, b), Extends(b, c)
  PROVE  SlotsReserved(S, c)
<1>1. \A s \in S : Reserved(c, s.p, s.n)
  BY DEF IsSlots, SlotsReserved, Extends, Reserved, IsBuffer
<1> QED BY <1>1 DEF SlotsReserved

(* Forgetting places is harmless.                                          *)
LEMMA SlotsSubset ==
  ASSUME NEW S, NEW T, T \subseteq S, NEW b, SlotsReserved(S, b)
  PROVE  SlotsReserved(T, b)
BY DEF SlotsReserved

(* A place reserved behind all the code is apart from the earlier ones.    *)
LEMMA SlotsAdd ==
  ASSUME NEW S, IsSlots(S), NEW b, NEW c, IsBuffer(b), IsBuffer(c),
         SlotsReserved(S, b), Extends(b, c),
         NEW t, t.p \in Nat, t.n \in Nat, b.len <= t.p, Reserved(c, t.p, t.n)
  PROVE  SlotsReserved(S \cup {t}, c) /\ IsSlots(S \cup {t})
<1>1. SlotsReserved(S, c)
  BY SlotsExtend
<1>2. \A s \in S : s.p + s.n <= b.len /\ s.p \in Nat /\ s.n \in Nat /\ b.len \in Nat
  BY DEF SlotsReserved, Reserved, IsSlots, IsBuffer
<1>3. \A s \in S : Apart(s, t) /\ Apart(t, s)
  BY <1>2 DEF Apart
<1> QED BY <1>1, <1>3 DEF SlotsReserved, IsSlots

(* Writing the instruction a set of places was reserved for: the buffer    *)
(* stays decodable and the other places stay reserved.                     *)
LEMMA SlotsPatch ==
  ASSUME NEW S, IsSlots(S), NEW b, IsBuffer(b), Intact(b), SlotsReserved(S, b),
         NEW i \in Instruction, i.op # "torn",
         NEW T \in SUBSET S, \A t \in T : t.n = i.len,
         NEW P, P = {t.p : t \in T}
  PROVE  /\ IsBuffer(Patch(b, P, i))
         /\ Keeps(b, Patch(b, P, i))
         /\ Patch(b, P, i).len = b.len
         /\ Intact(Patch(b, P, i))
         /\ SlotsReserved(S \ T, Patch(b, P, i))
<1>0. P \in SUBSET Nat
  BY DEF IsSlots
<1>1. \A p \in P : Reserved(b, p, i.len)
  BY DEF SlotsReserved
<1>2. \A p, q \in P : p = q \/ p + i.len <= q \/ q + i.len <= p
  BY DEF SlotsReserved, Apart
<1>3. /\ IsBuffer(Patch(b, P, i))
      /\ Keeps(b, Patch(b, P, i))
      /\ Patch(b, P, i).len = b.len
      /\ Intact(Patch(b, P, i))
      /\ \A p, n \in Nat :
           /\ Reserved(b, p, n)
           /\ \A s \in P : p + n <= s \/ s + i.len <= p
           => Reserved(Patch(b, P, i), p, n)
  BY <1>0, <1>1, <1>2, PatchLemma, ZenonT(60)
<1>4. ASSUME NEW s \in S \ T PROVE Reserved(Patch(b, P, i), s.p, s.n)
  <2>1. s.p \in Nat /\ s.n \in Nat /\ Reserved(b, s.p, s.n)
    BY DEF IsSlots, SlotsReserved
  <2>2. \A p \in P : s.p + s.n <= p \/ p + i.len <= s.p
    <3> SUFFICES ASSUME NEW t \in T PROVE s.p + s.n <= t.p \/ t.p + i.len <= s.p
      OBVIOUS
    <3>1. s # t /\ Apart(s, t)
      BY DEF SlotsReserved
    <3> QED BY <3>1 DEF Apart
  <2> QED BY <1>3, <2>1, <2>2
<1>5. \A s, t \in S \ T : s # t => Apart(s, t)
  BY DEF SlotsReserved
<1> QED BY <1>3, <1>4, <1>5 DEF SlotsReserved

----------------------------------------------------------------------------
(* The instructions the code generator emits and their lengths.            *)
LEMMA InstructionTypes ==
  /\ \A to \in Nat : Jmp(to) \in Instruction /\ Jmp(to).len = 5 /\ Jmp(to).op # "torn"
  /\ \A to \in Nat : CallTo(to) \in Instruction /\ CallTo(to).len = 5 /\ CallTo(to).op # "torn"
  /\ \A to \in Nat, c \in Comparisons :
       Jcc(c, to) \in Instruction /\ Jcc(c, to).len = 6 /\ Jcc(c, to).op # "torn"
  /\ \A op \in {"straight", "ret", "data", "enter", "leave"}, n \in Nat \ {0} :
       Ins(op, n) \in Instruction /\ Ins(op, n).len = n /\ Ins(op, n).op # "torn"
  /\ \A n \in Nat \ {0}, o \in {"ab", "ba"} :
       Cmp(n, o) \in Instruction /\ Cmp(n, o).len = n /\ Cmp(n, o).op # "torn"
BY DEF Jmp, CallTo, Jcc, Ins, Cmp, Instruction, Ops, Hows

(* The length of a comparison, and what the jump behind it tests.          *)
LEMMA ConditionTypes ==
  ASSUME NEW c \in Condition
  PROVE  CmpLen(c) \in Nat \ {0} /\ SkipComparison(c) \in Comparisons /\ c # NoCond
<1>1. CmpLen(c) \in Nat \ {0}
  <2>1. c.a \in OperandKinds /\ c.b \in OperandKinds
    BY DEF Condition
  <2> QED BY <2>1 DEF CmpLen, CmpLens, OperandKinds, Immediates
<1>2. ASSUME NEW d \in Comparisons PROVE Negation(d) \in Comparisons
  <2>1. \E e \in Comparisons : <<d, e>> \in Opposites \/ <<e, d>> \in Opposites
    BY DEF Opposites, Comparisons
  <2> QED BY <2>1 DEF Negation
<1>3. c.comp \in Comparisons
  BY DEF Condition
<1>4. SkipComparison(c) \in Comparisons
  BY <1>2, <1>3 DEF SkipComparison
<1>5. c # NoCond
  BY <1>3 DEF NoCond, Comparisons
<1> QED BY <1>1, <1>4, <1>5

(* The activations as a stack: the innermost one and those below it.       *)
LEMMA TopBelow ==
  ASSUME frames \in Seq(Frame), frames # <<>>
  PROVE  /\ Len(frames) \in Nat \ {0} /\ Top \in Frame
         /\ \A f \in Frame :
              /\ WithTop(f) \in Seq(Frame) /\ Len(WithTop(f)) = Len(frames)
              /\ WithTop(f) # <<>>
              /\ \A d \in 1 .. Len(frames) :
                   WithTop(f)[d] = IF d = Len(frames) THEN f ELSE frames[d]
         /\ Below \in Seq(Frame) /\ Len(Below) = Len(frames) - 1
         /\ \A d \in 1 .. Len(frames) - 1 : Below[d] = frames[d]
<1>1. Len(frames) \in Nat \ {0} /\ Len(frames) \in 1 .. Len(frames)
  BY EmptySeq
<1>2. Top \in Frame
  BY <1>1, ElementOfSeq DEF Top
<1>3. ASSUME NEW f \in Frame
      PROVE  /\ WithTop(f) \in Seq(Frame) /\ Len(WithTop(f)) = Len(frames)
             /\ \A d \in 1 .. Len(frames) :
                  WithTop(f)[d] = IF d = Len(frames) THEN f ELSE frames[d]
  BY <1>1, ExceptSeq DEF WithTop
<1>4. ASSUME NEW f \in Frame PROVE WithTop(f) # <<>>
  BY <1>1, <1>3
<1>5. /\ Below \in Seq(Frame) /\ Len(Below) = Len(frames) - 1
      /\ \A d \in 1 .. Len(frames) - 1 : Below[d] = frames[d]
  <2> DEFINE n == Len(frames) - 1
  <2>1. n \in Nat /\ n \in Int /\ 1 \in Int
    BY <1>1
  <2>2. \A d \in 1 .. n : d \in 1 .. Len(frames)
    BY <1>1
  <2>3. \A d \in 1 .. n : frames[d] \in Frame
    BY <2>2, ElementOfSeq
  <2> HIDE DEF n
  <2>4. /\ SubSeq(frames, 1, n) \in Seq(Frame)
        /\ Len(SubSeq(frames, 1, n)) = IF 1 <= n THEN n - 1 + 1 ELSE 0
        /\ \A d \in 1 .. n - 1 + 1 : SubSeq(frames, 1, n)[d] = frames[1 + d - 1]
    BY <2>1, <2>3, SubSeqProperties
  <2>5. /\ Len(SubSeq(frames, 1, n)) = n
        /\ \A d \in 1 .. n : SubSeq(frames, 1, n)[d] = frames[d]
    BY <2>1, <2>4
  <2> QED BY <2>4, <2>5 DEF Below, n
<1> QED BY <1>1, <1>2, <1>3, <1>4, <1>5

(* Moving an activation on changes nothing else about it.                  *)
LEMMA FrameChange ==
  ASSUME NEW f \in Frame
  PROVE  /\ \A p \in Parts : LET g == [f EXCEPT !.part = p] IN
              /\ g \in Frame /\ g.part = p /\ g.tag = f.tag /\ g.cond = f.cond
              /\ g.name = f.name /\ g.condPtr = f.condPtr
              /\ g.jumpPastElsePtr = f.jumpPastElsePtr
         /\ \A p \in Parts, e \in Nat :
              LET g == [f EXCEPT !.part = p, !.ifBlockEndPtr = e] IN
              /\ g \in Frame /\ g.part = p /\ g.tag = f.tag /\ g.cond = f.cond
              /\ g.name = f.name /\ g.condPtr = f.condPtr
              /\ g.jumpPastElsePtr = f.jumpPastElsePtr
         /\ \A x \in Nat : LET g == [f EXCEPT !.jumpPastElsePtr = x] IN
              /\ g \in Frame /\ g.part = f.part /\ g.tag = f.tag /\ g.cond = f.cond
              /\ g.name = f.name /\ g.condPtr = f.condPtr
              /\ g.jumpPastElsePtr = x
BY DEF Frame

(* The places activations remember are typed, and fewer pending ones mean  *)
(* fewer places.                                                           *)
LEMMA SlotTypes ==
  ASSUME TypeOK PROVE IsSlots(Slots)
<1>1. IsSlots(TableSlots(loopBreaks, loopContinues, uncalled))
  BY DEF TypeOK, IsSlots, TableSlots, Slot
<1>2. ASSUME NEW d \in 1 .. Len(frames)
      PROVE  frames[d].condPtr \in Nat /\ frames[d].jumpPastElsePtr \in Nat
  <2>1. frames[d] \in Frame
    BY ElementOfSeq DEF TypeOK
  <2> QED BY <2>1 DEF Frame
<1>3. IsSlots(FrameSlots(frames))
  BY <1>2 DEF IsSlots, FrameSlots, Slot
<1> QED BY <1>1, <1>3 DEF IsSlots, Slots

(* An activation less, or one that has written its place, adds no place.   *)
LEMMA FrameSlotsShrink ==
  ASSUME NEW fs, NEW gs, Len(fs) \in Nat, Len(gs) \in Nat, Len(gs) <= Len(fs),
         \A d \in 1 .. Len(gs) :
           /\ CondPending(gs[d]) => CondPending(fs[d]) /\ gs[d].condPtr = fs[d].condPtr
           /\ ElsePending(gs[d]) => ElsePending(fs[d])
                                    /\ gs[d].jumpPastElsePtr = fs[d].jumpPastElsePtr
  PROVE  FrameSlots(gs) \subseteq FrameSlots(fs)
BY DEF FrameSlots

----------------------------------------------------------------------------
(* One lemma for each group of actions: the invariant is kept and so is    *)
(* the code.                                                               *)

(* Code that does not change is kept.                                      *)
LEMMA KeepsSame == ASSUME NEW b, IsBuffer(b) PROVE Keeps(b, b)
BY DEF Keeps, IsBuffer

(* Nothing the invariant is about changes but the phase, to one in which   *)
(* the activations may be there.                                           *)
LEMMA SameCode ==
  ASSUME IInv,
         UNCHANGED <<frames, code, uncalled, loopBreaks, loopContinues>>,
         phase' \in {"procs", "calls", "done"} => frames = <<>>
  PROVE  PendingReserved' /\ CodeIntact' /\ FramesOK' /\ Keeps(code, code') /\ PlacesGrow
<1>1. Keeps(code, code')
  BY KeepsSame DEF IInv, TypeOK
<1>2. PendingReserved' /\ CodeIntact' /\ PlacesGrow
  BY DEF IInv, PendingReserved, CodeIntact, PlacesGrow, Slots
<1>3. FramesOK'
  BY DEF IInv, FramesOK, Top
<1> QED BY <1>1, <1>2, <1>3

(* Compile's loop takes the next procedure: only its offset is recorded.   *)
LEMMA BeginProcedureStep ==
  ASSUME IInv, NEW n \in Names, BeginProcedure(n)
  PROVE  IInv' /\ Keeps(code, code') /\ PlacesGrow
<1>1. PendingReserved' /\ CodeIntact' /\ FramesOK' /\ Keeps(code, code') /\ PlacesGrow
  BY SameCode DEF BeginProcedure
<1>2. Item("proc", NoCond, n, 0, code.len) \in Items(Names)
  BY DEF IInv, TypeOK, IsBuffer, Item, Items, MarkerTags
<1>3. src' \in Seq(Items(Names))
  BY <1>2, AppendProperties DEF IInv, TypeOK, BeginProcedure
<1>4. TypeOK'
  BY <1>3 DEF IInv, TypeOK, BeginProcedure, Phases, IsBuffer
<1> QED BY <1>1, <1>4 DEF IInv

(* The steps that end in an error, end the linking, or do nothing.         *)
LEMMA PhaseSteps ==
  ASSUME IInv,
         \/ StrayLoopControl \/ EmitLonghand \/ Compiled \/ UNCHANGED vars
         \/ \E s \in Statement : BadCondition(s)
         \/ \E p \in uncalled : MissingProcedure(p)
  PROVE  IInv' /\ Keeps(code, code') /\ PlacesGrow
<1>1. /\ UNCHANGED <<todo, src, frames, code, entry, procedureMap, callTable,
                     uncalled, loopBreaks, loopContinues>>
      /\ \/ phase' = "error" \/ phase' = phase
         \/ phase = "calls" /\ phase' = "done"
  BY DEF StrayLoopControl, EmitLonghand, Compiled, vars, BadCondition, MissingProcedure
<1>2. PendingReserved' /\ CodeIntact' /\ FramesOK' /\ Keeps(code, code') /\ PlacesGrow
  <2>1. phase' \in {"procs", "calls", "done"} => frames = <<>>
    BY <1>1 DEF IInv, FramesOK
  <2> QED BY <1>1, <2>1, SameCode
<1>3. TypeOK'
  BY <1>1 DEF IInv, TypeOK, Phases
<1> QED BY <1>2, <1>3 DEF IInv

(* The end of a procedure: no activation, and no place is forgotten.       *)
LEMMA EndProcedureStep ==
  ASSUME IInv, EndProcedure
  PROVE  IInv' /\ Keeps(code, code') /\ PlacesGrow
<1> DEFINE i == Ins("ret", 1)
<1>1. i \in Instruction /\ i.op # "torn"
  BY InstructionTypes
<1>2. IsBuffer(code) /\ Intact(code) /\ SlotsReserved(Slots, code) /\ IsSlots(Slots)
  BY SlotTypes DEF IInv, TypeOK, CodeIntact, PendingReserved
<1>3. code' = Emit(code, i)
  BY DEF EndProcedure
<1> HIDE DEF i
<1>4. IsBuffer(code') /\ Extends(code, code') /\ Intact(code')
  BY <1>1, <1>2, <1>3, EmitLemma
<1>5. Slots' = Slots
  BY DEF EndProcedure, Slots
<1>6. PendingReserved' /\ CodeIntact' /\ Keeps(code, code')
  BY <1>2, <1>4, <1>5, SlotsExtend, ExtendsKeeps DEF PendingReserved, CodeIntact
<1>7. Marker("endproc", 0, code.len) \in Items(Names)
  BY <1>2 DEF IsBuffer, Marker, Item, Items, MarkerTags
<1>8. TypeOK'
  <2>1. src' \in Seq(Items(Names))
    BY <1>7, AppendProperties DEF IInv, TypeOK, EndProcedure
  <2> QED BY <1>4, <2>1 DEF IInv, TypeOK, EndProcedure, Phases
<1>9. FramesOK'
  BY DEF IInv, FramesOK, EndProcedure
<1> QED BY <1>5, <1>6, <1>8, <1>9 DEF IInv, PlacesGrow

(* The innermost activation goes on to part p, remembering no new place.   *)
LEMMA AdvanceTop ==
  ASSUME IInv, phase = "body", phase' = "body", frames # <<>>,
         NEW p \in {"done", "else"}, NEW f \in Frame,
         f.part = p, f.tag = Top.tag, f.cond = Top.cond, f.name = Top.name,
         f.condPtr = Top.condPtr, f.jumpPastElsePtr = Top.jumpPastElsePtr,
         Top.part # "done",
         p = "else" => Top.part = "then" /\ Top.jumpPastElsePtr > 0,
         frames' = WithTop(f)
  PROVE  /\ frames' \in Seq(Frame)
         /\ FrameSlots(frames') \subseteq FrameSlots(frames)
         /\ FramesOK'
<1>1. frames \in Seq(Frame)
  BY DEF IInv, TypeOK
<1>2. /\ Len(frames) \in Nat \ {0} /\ Top \in Frame
      /\ frames' \in Seq(Frame) /\ Len(frames') = Len(frames) /\ frames' # <<>>
      /\ \A d \in 1 .. Len(frames) :
           frames'[d] = IF d = Len(frames) THEN f ELSE frames[d]
  BY <1>1, TopBelow
<1>3. frames[Len(frames)] = Top /\ Top' = f
  BY <1>2 DEF Top
<1>4. FrameOK(Top) /\ \A d \in 1 .. Len(frames) : FrameOK(frames[d])
  BY <1>2, <1>3 DEF IInv, FramesOK
<1>5. ASSUME NEW d \in 1 .. Len(frames')
      PROVE  /\ CondPending(frames'[d]) => CondPending(frames[d])
                                           /\ frames'[d].condPtr = frames[d].condPtr
             /\ ElsePending(frames'[d]) => ElsePending(frames[d])
                                  /\ frames'[d].jumpPastElsePtr = frames[d].jumpPastElsePtr
             /\ FrameOK(frames'[d])
  <2>1. CASE d = Len(frames)
    BY <2>1, <1>2, <1>3, <1>4 DEF CondPending, ElsePending, FrameOK
  <2>2. CASE d # Len(frames)
    BY <2>2, <1>2, <1>4
  <2> QED BY <2>1, <2>2
<1>6. FrameSlots(frames') \subseteq FrameSlots(frames)
  BY <1>2, <1>5, FrameSlotsShrink
<1>7. FramesOK'
  <2>1. \A d \in 1 .. Len(frames') - 1 : frames'[d].part # "emit"
    BY <1>2 DEF IInv, FramesOK
  <2> QED BY <1>2, <1>3, <1>5, <2>1 DEF FramesOK
<1> QED BY <1>2, <1>6, <1>7

(* An activation whose statement needs nothing more remembers no place that *)
(* it did not remember before.                                             *)
LEMMA DoneTop ==
  ASSUME IInv, phase = "body", phase' = "body", frames # <<>>, Top.part # "done",
         frames' = WithTop(Done)
  PROVE  /\ frames' \in Seq(Frame)
         /\ FrameSlots(frames') \subseteq FrameSlots(frames)
         /\ FramesOK'
<1>1. Top \in Frame
  BY TopBelow DEF IInv, TypeOK
<1>2. /\ Done \in Frame /\ Done.part = "done" /\ Done.tag = Top.tag
      /\ Done.cond = Top.cond /\ Done.name = Top.name
      /\ Done.condPtr = Top.condPtr /\ Done.jumpPastElsePtr = Top.jumpPastElsePtr
  BY <1>1, FrameChange, ZenonT(40) DEF Done, Parts
<1> QED BY <1>2, AdvanceTop

(* What is left of the activations when the innermost one is done.         *)
LEMMA DoneFrames ==
  ASSUME IInv, frames # <<>>, frames' = WithTop(Done)
  PROVE  /\ Len(frames) \in Nat \ {0} /\ Len(frames') = Len(frames)
         /\ frames[Len(frames)] = Top /\ Top'.part = "done"
         /\ \A d \in 1 .. Len(frames) :
              /\ frames'[d].part = IF d = Len(frames) THEN "done" ELSE frames[d].part
              /\ frames'[d].tag = frames[d].tag /\ frames'[d].cond = frames[d].cond
              /\ frames'[d].name = frames[d].name
              /\ frames'[d].condPtr = frames[d].condPtr
              /\ frames'[d].startPtr = frames[d].startPtr
              /\ frames'[d].jumpPastElsePtr = frames[d].jumpPastElsePtr
              /\ frames'[d].ifBlockEndPtr = frames[d].ifBlockEndPtr
<1>1. Top \in Frame
  BY TopBelow DEF IInv, TypeOK
<1>2. /\ Done \in Frame /\ Done.part = "done" /\ Done.tag = Top.tag
      /\ Done.cond = Top.cond /\ Done.name = Top.name
      /\ Done.condPtr = Top.condPtr /\ Done.startPtr = Top.startPtr
      /\ Done.jumpPastElsePtr = Top.jumpPastElsePtr
      /\ Done.ifBlockEndPtr = Top.ifBlockEndPtr
  <2> DEFINE g == Top
  <2>1. g \in Frame /\ Done = [g EXCEPT !.part = "done"] /\ "done" \in Parts /\ g = Top
    BY <1>1 DEF Done, Parts
  <2> HIDE DEF g
  <2> QED BY <2>1 DEF Frame
<1>3. /\ Len(frames) \in Nat \ {0} /\ Len(frames') = Len(frames)
      /\ \A d \in 1 .. Len(frames) :
           frames'[d] = IF d = Len(frames) THEN Done ELSE frames[d]
  BY <1>2, TopBelow DEF IInv, TypeOK
<1>4. frames[Len(frames)] = Top /\ Top' = Done
  BY <1>3 DEF Top
<1> QED BY <1>2, <1>3, <1>4

(* Code without a jump: an emitted straight statement or return.           *)
LEMMA PlainEmitStep ==
  ASSUME IInv, (\E n \in BodyLens : EmitStraight(n)) \/ EmitReturn
  PROVE  IInv' /\ Keeps(code, code') /\ PlacesGrow
<1>0. PICK i : /\ i \in Instruction /\ i.op # "torn" /\ code' = Emit(code, i)
  BY InstructionTypes, CodeGenAssumption DEF EmitStraight, EmitReturn
<1>1. /\ phase = "body" /\ frames # <<>> /\ Top.part # "done"
      /\ frames' = WithTop(Done)
      /\ UNCHANGED <<phase, todo, src, entry, procedureMap, callTable, uncalled,
                     loopBreaks, loopContinues>>
  BY DEF EmitStraight, EmitReturn, Emitting, InPart
<1>2. IsBuffer(code) /\ Intact(code) /\ SlotsReserved(Slots, code) /\ IsSlots(Slots)
  BY SlotTypes DEF IInv, TypeOK, CodeIntact, PendingReserved
<1>3. IsBuffer(code') /\ Extends(code, code') /\ Intact(code')
  BY <1>0, <1>2, EmitLemma
<1>4. frames' \in Seq(Frame) /\ FrameSlots(frames') \subseteq FrameSlots(frames) /\ FramesOK'
  BY <1>1, DoneTop
<1>5. Slots' \subseteq Slots
  BY <1>1, <1>4 DEF Slots
<1>6. PendingReserved' /\ CodeIntact' /\ Keeps(code, code')
  <2>1. SlotsReserved(Slots, code')
    BY <1>2, <1>3, SlotsExtend
  <2> QED BY <1>3, <1>5, <2>1, SlotsSubset, ExtendsKeeps DEF PendingReserved, CodeIntact
<1>7. TypeOK'
  BY <1>1, <1>3, <1>4 DEF IInv, TypeOK
<1> QED BY <1>4, <1>5, <1>6, <1>7 DEF IInv, PlacesGrow

(* Five nops and a new place in one of the compiler's tables.              *)
LEMMA ReserveStep ==
  ASSUME IInv, EmitBreak \/ EmitContinue \/ EmitCallStatement
  PROVE  IInv' /\ Keeps(code, code') /\ PlacesGrow
<1>1. /\ phase = "body" /\ frames # <<>> /\ Top.part # "done"
      /\ frames' = WithTop(Done) /\ code' = EmitNop(code, 5)
      /\ UNCHANGED <<phase, todo, src, entry, procedureMap>>
  BY DEF EmitBreak, EmitContinue, EmitCallStatement, Emitting, InPart
<1>2. IsBuffer(code) /\ Intact(code) /\ SlotsReserved(Slots, code) /\ IsSlots(Slots)
  BY SlotTypes DEF IInv, TypeOK, CodeIntact, PendingReserved
<1>3. /\ IsBuffer(code') /\ Extends(code, code') /\ Intact(code')
      /\ Reserved(code', code.len, 5)
  BY <1>1, <1>2, EmitNopLemma
<1>4. frames' \in Seq(Frame) /\ FrameSlots(frames') \subseteq FrameSlots(frames) /\ FramesOK'
  BY <1>1, DoneTop
<1>5. code.len \in Nat
  BY <1>2 DEF IsBuffer
<1>6. \E role : TableSlots(loopBreaks', loopContinues', uncalled')
        \subseteq TableSlots(loopBreaks, loopContinues, uncalled)
                    \cup {Slot(role, 0, code.len, 5)}
  <2>1. CASE EmitBreak
    <3> WITNESS "break"
    <3> QED BY <2>1 DEF EmitBreak, TableSlots
  <2>2. CASE EmitContinue
    <3> WITNESS "continue"
    <3> QED BY <2>2 DEF EmitContinue, TableSlots
  <2>3. CASE EmitCallStatement
    <3> WITNESS "call"
    <3> QED BY <2>3 DEF EmitCallStatement, TableSlots
  <2> QED BY <2>1, <2>2, <2>3
<1>7. PICK role : Slots' \subseteq Slots \cup {Slot(role, 0, code.len, 5)}
  BY <1>4, <1>6 DEF Slots
<1>8. PendingReserved'
  <2> DEFINE t == Slot(role, 0, code.len, 5)
  <2>1. t.p = code.len /\ t.n = 5
    BY DEF Slot
  <2> HIDE DEF t
  <2>2. SlotsReserved(Slots \cup {t}, code')
    BY <1>2, <1>3, <1>5, <2>1, SlotsAdd
  <2> QED BY <1>7, <2>2, SlotsSubset DEF PendingReserved, t
<1>9. CodeIntact' /\ Keeps(code, code')
  BY <1>3, ExtendsKeeps DEF CodeIntact
<1>10. TypeOK'
  <2>1. /\ loopBreaks' \subseteq Nat /\ loopContinues' \subseteq Nat
        /\ DOMAIN callTable' \subseteq Nat
        /\ uncalled' \subseteq DOMAIN callTable'
        /\ \A p \in DOMAIN callTable' : callTable'[p] \in Names
    <3>1. CASE EmitBreak
      BY <3>1, <1>5 DEF EmitBreak, IInv, TypeOK
    <3>2. CASE EmitContinue
      BY <3>2, <1>5 DEF EmitContinue, IInv, TypeOK
    <3>3. CASE EmitCallStatement
      <4>1. Top.name \in Names
        <5>1. Len(frames) \in 1 .. Len(frames)
          BY <1>1, TopBelow DEF IInv, TypeOK
        <5> QED BY <3>3, <5>1 DEF IInv, FramesOK, FrameOK, Top, EmitCallStatement, Emitting
      <4> QED BY <3>3, <4>1, <1>5 DEF EmitCallStatement, IInv, TypeOK
    <3> QED BY <3>1, <3>2, <3>3
  <2> QED BY <1>1, <1>3, <1>4, <2>1 DEF IInv, TypeOK
<1>11. PlacesGrow
  <2>1. Slot(role, 0, code.len, 5).p = code.len
    BY DEF Slot
  <2> QED BY <1>5, <1>7, <2>1 DEF PlacesGrow
<1> QED BY <1>4, <1>8, <1>9, <1>10, <1>11 DEF IInv

(* The activation of a statement that is entered.                          *)
LEMMA EnterFrames ==
  ASSUME IInv, NEW s \in Statement, EnterStatement(s)
  PROVE  /\ code.len \in Nat /\ Len(frames) \in Nat
         /\ s.tag \in StatementTags /\ s.name \in Names \cup {NoName}
         /\ s.cond # NoCond => s.cond \in Condition /\ CmpLen(s.cond) \in Nat \ {0}
         /\ frames' # <<>> /\ Len(frames') = Len(frames) + 1
         /\ frames'[Len(frames')] = Top'
         /\ \A d \in 1 .. Len(frames) : frames'[d] = frames[d]
         /\ Top'.tag = s.tag /\ Top'.cond = s.cond /\ Top'.name = s.name
         /\ Top'.part = FirstPart(s.tag) /\ Top'.startPtr = code.len
         /\ s.cond # NoCond => Top'.condPtr = code.len + CmpLen(s.cond)
         /\ Top'.jumpPastElsePtr = 0
<1> DEFINE f == [tag |-> s.tag, cond |-> s.cond, name |-> s.name,
                 part |-> FirstPart(s.tag), hasElse |-> s.hasElse,
                 startPtr |-> code.len,
                 condPtr |-> IF s.cond = NoCond THEN 0 ELSE code.len + CmpLen(s.cond),
                 jumpPastElsePtr |-> 0, ifBlockEndPtr |-> 0]
<1>1. code.len \in Nat /\ Len(frames) \in Nat /\ frames \in Seq(Frame)
  BY LenProperties DEF IInv, TypeOK, IsBuffer
<1>2. /\ s.tag \in StatementTags /\ s.cond \in Conditions \cup {NoCond}
      /\ s.name \in Names \cup {NoName} /\ s.hasElse \in BOOLEAN
      /\ s.cond # NoCond => s.cond \in Condition
  BY CodeGenAssumption DEF Statement
<1>3. s.cond # NoCond => CmpLen(s.cond) \in Nat \ {0}
  BY <1>2, ConditionTypes
<1>4. frames' = Append(frames, f)
  BY DEF EnterStatement
<1>5. FirstPart(s.tag) \in Parts
  BY <1>2 DEF FirstPart, Parts
<1>6. f \in Frame
  BY <1>1, <1>2, <1>3, <1>5 DEF Frame
<1>7. /\ f.tag = s.tag /\ f.cond = s.cond /\ f.name = s.name
      /\ f.part = FirstPart(s.tag) /\ f.startPtr = code.len
      /\ s.cond # NoCond => f.condPtr = code.len + CmpLen(s.cond)
      /\ f.jumpPastElsePtr = 0
  OBVIOUS
<1> HIDE DEF f
<1>8. /\ frames' # <<>> /\ Len(frames') = Len(frames) + 1
      /\ frames'[Len(frames) + 1] = f
      /\ \A d \in 1 .. Len(frames) : frames'[d] = frames[d]
  BY <1>1, <1>4, <1>6, AppendProperties
<1>9. Top' = f /\ frames'[Len(frames')] = f
  BY <1>8 DEF Top
<1> QED BY <1>1, <1>2, <1>3, <1>7, <1>8, <1>9

(* A statement is entered: with a condition, a comparison and the place of *)
(* the jump behind it, remembered by the new activation.                   *)
LEMMA EnterStep ==
  ASSUME IInv, SafeForms, NEW s \in Statement, EnterStatement(s)
  PROVE  IInv' /\ Keeps(code, code') /\ PlacesGrow
<1> DEFINE f == [tag |-> s.tag, cond |-> s.cond, name |-> s.name,
                 part |-> FirstPart(s.tag), hasElse |-> s.hasElse,
                 startPtr |-> code.len,
                 condPtr |-> IF s.cond = NoCond THEN 0 ELSE code.len + CmpLen(s.cond),
                 jumpPastElsePtr |-> 0, ifBlockEndPtr |-> 0]
           n == Len(frames) + 1
<1>1. IsBuffer(code) /\ Intact(code) /\ SlotsReserved(Slots, code) /\ IsSlots(Slots)
  BY SlotTypes DEF IInv, TypeOK, CodeIntact, PendingReserved
<1>2. code.len \in Nat
  BY <1>1 DEF IsBuffer
<1>3. /\ s.tag \in StatementTags /\ s.cond \in Conditions \cup {NoCond}
      /\ s.name \in Names \cup {NoName} /\ s.hasElse \in BOOLEAN
      /\ s.cond # NoCond => s.cond \in Condition
      /\ s.cond # NoCond => CmpLen(s.cond) \in Nat \ {0}
  <2>1. /\ s.tag \in StatementTags /\ s.cond \in Conditions \cup {NoCond}
        /\ s.name \in Names \cup {NoName} /\ s.hasElse \in BOOLEAN
        /\ s.cond # NoCond => s.cond \in Condition
    BY CodeGenAssumption DEF Statement
  <2> QED BY <2>1, ConditionTypes
<1>4. /\ frames' = Append(frames, f)
      /\ code' = IF s.cond = NoCond THEN code ELSE EmitNop(EmitCmp(code, s.cond), 6)
      /\ src' = Append(src, Item(s.tag, s.cond, s.name, Len(frames), code.len))
      /\ phase = "body"
      /\ UNCHANGED <<phase, todo, entry, procedureMap, callTable, uncalled,
                     loopBreaks, loopContinues>>
  BY DEF EnterStatement, InStatementList
<1>5. f.part \in {"emit", "loop", "then"} /\ (f.part = "then" => f.tag = "branch")
  BY <1>3 DEF FirstPart
<1>6. f \in Frame
  BY <1>2, <1>3, <1>5 DEF Frame, Parts
<1>7. FrameOK(f) /\ (f.tag = "text" => f.cond = NoCond)
  <2>1. /\ s.tag = "branch" => s.cond # NoCond
        /\ s.tag = "call" => s.name # NoName
        /\ s.tag = "text" => s.cond = NoCond
    BY DEF EnterStatement, Parsed, Admitted, SafeForms
  <2> QED BY <1>3, <1>5, <2>1 DEF FrameOK
<1>8. f.jumpPastElsePtr = 0 /\ f.startPtr = code.len /\ f.cond = s.cond
      /\ (s.cond # NoCond => f.condPtr = code.len + CmpLen(s.cond))
  OBVIOUS
<1> HIDE DEF f
<1>9. frames \in Seq(Frame) /\ Len(frames) \in Nat
  BY LenProperties DEF IInv, TypeOK
<1>10. /\ frames' \in Seq(Frame) /\ frames' # <<>> /\ Len(frames') = n
       /\ \A d \in 1 .. Len(frames) : frames'[d] = frames[d]
       /\ frames'[n] = f
  BY <1>4, <1>6, <1>9, AppendProperties
<1>11. /\ IsBuffer(code') /\ Extends(code, code') /\ Intact(code')
       /\ s.cond # NoCond => Reserved(code', code.len + CmpLen(s.cond), 6)
  <2>1. CASE s.cond = NoCond
    BY <2>1, <1>1, <1>4, <1>2 DEF Extends
  <2>2. CASE s.cond # NoCond
    <3> DEFINE b == EmitCmp(code, s.cond)
    <3>1. /\ IsBuffer(b) /\ Extends(code, b) /\ Intact(b)
          /\ b.len = code.len + CmpLen(s.cond)
      <4> DEFINE i == Cmp(CmpLen(s.cond), IF s.cond.a = "reg" THEN "ab" ELSE "ba")
      <4>1. i \in Instruction /\ i.len = CmpLen(s.cond) /\ i.op # "torn"
        <5>1. (IF s.cond.a = "reg" THEN "ab" ELSE "ba") \in {"ab", "ba"}
          OBVIOUS
        <5> QED BY <2>2, <1>3, <5>1, InstructionTypes
      <4>2. b = Emit(code, i)
        BY DEF EmitCmp
      <4> HIDE DEF i, b
      <4> QED BY <4>1, <4>2, <1>1, EmitLemma
    <3>2. code' = EmitNop(b, 6)
      BY <2>2, <1>4
    <3> HIDE DEF b
    <3>3. /\ IsBuffer(code') /\ Extends(b, code') /\ Intact(code')
          /\ Reserved(code', b.len, 6)
      BY <3>1, <3>2, EmitNopLemma
    <3>4. Extends(code, code')
      BY <3>1, <3>3, <1>1 DEF Extends, IsBuffer
    <3> QED BY <3>1, <3>3, <3>4
  <2> QED BY <2>1, <2>2
<1>12. PendingReserved' /\ PlacesGrow
  <2>1. CASE s.cond = NoCond
    <3>1. FrameSlots(frames') \subseteq FrameSlots(frames)
      <4>1. ~CondPending(frames'[n]) /\ ~ElsePending(frames'[n])
        BY <2>1, <1>8, <1>10 DEF CondPending, ElsePending
      <4> QED BY <4>1, <1>9, <1>10 DEF FrameSlots
    <3>2. Slots' \subseteq Slots
      BY <3>1, <1>4 DEF Slots
    <3>3. SlotsReserved(Slots, code')
      BY <1>1, <1>11, SlotsExtend
    <3> QED BY <3>2, <3>3, SlotsSubset DEF PendingReserved, PlacesGrow
  <2>2. CASE s.cond # NoCond
    <3> DEFINE t == Slot("cond", n, code.len + CmpLen(s.cond), 6)
    <3>1. t.p = code.len + CmpLen(s.cond) /\ t.n = 6
      BY DEF Slot
    <3>2. FrameSlots(frames') \subseteq FrameSlots(frames) \cup {t}
      <4>1. ~ElsePending(frames'[n]) /\ frames'[n].condPtr = code.len + CmpLen(s.cond)
        BY <2>2, <1>8, <1>10 DEF ElsePending
      <4> QED BY <4>1, <1>9, <1>10 DEF FrameSlots
    <3>3. Slots' \subseteq Slots \cup {t}
      BY <3>2, <1>4 DEF Slots
    <3> HIDE DEF t
    <3>4. SlotsReserved(Slots \cup {t}, code')
      BY <2>2, <3>1, <1>1, <1>2, <1>3, <1>11, SlotsAdd
    <3>5. PlacesGrow
      BY <2>2, <3>1, <3>3, <1>2, <1>3 DEF PlacesGrow
    <3> QED BY <3>3, <3>4, <3>5, SlotsSubset DEF PendingReserved
  <2> QED BY <2>1, <2>2
<1>13. FramesOK'
  <2>1. \A d \in 1 .. Len(frames') : FrameOK(frames'[d])
    BY <1>7, <1>9, <1>10 DEF IInv, FramesOK
  <2>2. Top' = f
    BY <1>10 DEF Top
  <2>3. f.tag = "text" => code' = code
    BY <1>4, <1>7, <1>8
  <2>4. \A d \in 1 .. Len(frames') - 1 : frames'[d].part # "emit"
    <3> SUFFICES ASSUME NEW d \in 1 .. Len(frames) PROVE frames[d].part # "emit"
      BY <1>9, <1>10
    <3>1. CASE d = Len(frames)
      <4>1. frames # <<>> /\ frames[d] = Top
        BY <3>1 DEF Top
      <4> QED BY <4>1 DEF EnterStatement, InStatementList
    <3>2. CASE d # Len(frames)
      BY <3>2, <1>9 DEF IInv, FramesOK
    <3> QED BY <3>1, <3>2
  <2> QED BY <2>1, <2>2, <2>3, <2>4, <1>4, <1>8 DEF FramesOK
<1>14. TypeOK'
  <2>1. Item(s.tag, s.cond, s.name, Len(frames), code.len) \in Items(Names)
    BY <1>2, <1>3, <1>9 DEF Item, Items
  <2>2. src' \in Seq(Items(Names))
    BY <2>1, <1>4, AppendProperties DEF IInv, TypeOK
  <2> QED BY <2>2, <1>4, <1>10, <1>11 DEF IInv, TypeOK
<1>15. CodeIntact' /\ Keeps(code, code')
  BY <1>11, ExtendsKeeps DEF CodeIntact
<1> QED BY <1>12, <1>13, <1>14, <1>15 DEF IInv

(* Writing at once at a place reserved behind all the code.                *)
LEMMA PatchNew ==
  ASSUME NEW S, IsSlots(S), NEW b, NEW c, IsBuffer(b), IsBuffer(c),
         SlotsReserved(S, b), Extends(b, c), Intact(c),
         NEW i \in Instruction, i.op # "torn", Reserved(c, b.len, i.len)
  PROVE  /\ IsBuffer(Patch(c, {b.len}, i))
         /\ Patch(c, {b.len}, i).len = c.len
         /\ Intact(Patch(c, {b.len}, i))
         /\ SlotsReserved(S, Patch(c, {b.len}, i))
         /\ Keeps(b, Patch(c, {b.len}, i))
<1> DEFINE t == Slot("new", 0, b.len, i.len)
           e == Patch(c, {b.len}, i)
<1>1. t.p = b.len /\ t.n = i.len
  BY DEF Slot
<1>2. b.len \in Nat /\ i.len \in Nat /\ i.len > 0
  BY DEF IsBuffer, Instruction
<1> HIDE DEF t
<1>3. SlotsReserved(S \cup {t}, c) /\ IsSlots(S \cup {t}) /\ t \notin S
  <2>1. SlotsReserved(S \cup {t}, c) /\ IsSlots(S \cup {t})
    BY <1>1, <1>2, SlotsAdd
  <2>2. \A s \in S : s.p \in Nat /\ s.n \in Nat /\ s.p + s.n <= b.len
    BY DEF SlotsReserved, Reserved, IsSlots
  <2> QED BY <1>1, <1>2, <2>1, <2>2
<1>4. /\ {t} \in SUBSET (S \cup {t}) /\ \A u \in {t} : u.n = i.len
      /\ {b.len} = {u.p : u \in {t}}
  BY <1>1
<1>5. IsBuffer(e) /\ Keeps(c, e) /\ e.len = c.len /\ Intact(e)
      /\ SlotsReserved((S \cup {t}) \ {t}, e)
  <2> DEFINE all == S \cup {t}
             new == {t}
             at == {b.len}
  <2>1. SlotsReserved(all, c) /\ IsSlots(all) /\ new \in SUBSET all
        /\ \A u \in new : u.n = i.len
    BY <1>3, <1>4
  <2>2. at = {u.p : u \in new}
    BY <1>1
  <2> HIDE DEF all, new, at
  <2>3. /\ IsBuffer(Patch(c, at, i)) /\ Keeps(c, Patch(c, at, i))
        /\ Intact(Patch(c, at, i))
    BY <2>1, <2>2, SlotsPatch
  <2>4. SlotsReserved(all \ new, Patch(c, at, i))
    BY <2>1, <2>2, SlotsPatch
  <2>5. Patch(c, at, i).len = c.len
    BY DEF Patch
  <2> QED BY <2>3, <2>4, <2>5 DEF all, new, at
<1>6. (S \cup {t}) \ {t} = S
  BY <1>3
<1> HIDE DEF e
<1>7. Keeps(b, e)
  BY <1>5, ExtendsKeeps, KeepsTransitive
<1>8. e = Patch(c, {b.len}, i)
  BY DEF e
<1> QED BY <1>5, <1>6, <1>7, <1>8

(* A string output: its jump is written where the nops are, because the    *)
(* statement has no condition.                                             *)
LEMMA TextStep ==
  ASSUME IInv, NEW n \in TextLens, EmitText(n)
  PROVE  IInv' /\ Keeps(code, code') /\ PlacesGrow
<1> DEFINE reserved == EmitNop(code, 5)
           literal  == IF n = 0 THEN reserved ELSE Emit(reserved, Ins("data", n))
           i == Jmp(literal.len)
           jumped == Patch(literal, {code.len}, i)
           printed == Emit(jumped, Ins("straight", 75))
<1>1. IsBuffer(code) /\ Intact(code) /\ SlotsReserved(Slots, code) /\ IsSlots(Slots)
  BY SlotTypes DEF IInv, TypeOK, CodeIntact, PendingReserved
<1>2. /\ phase = "body" /\ frames # <<>> /\ Top.part = "emit" /\ Top.tag = "text"
      /\ frames' = WithTop(Done)
      /\ UNCHANGED <<phase, todo, src, entry, procedureMap, callTable, uncalled,
                     loopBreaks, loopContinues>>
  BY DEF EmitText, Emitting, InPart
<1>3. Top.startPtr = code.len
  BY <1>2 DEF IInv, FramesOK
<1>4. code' = printed
  BY <1>3 DEF EmitText, WriteJump
<1>5. /\ IsBuffer(reserved) /\ Extends(code, reserved) /\ Intact(reserved)
      /\ Reserved(reserved, code.len, 5) /\ reserved.len = code.len + 5
  BY <1>1, EmitNopLemma
<1> HIDE DEF reserved
<1>6. IsBuffer(literal) /\ Extends(reserved, literal) /\ Intact(literal)
  <2>1. CASE n = 0
    BY <2>1, <1>5 DEF Extends, IsBuffer
  <2>2. CASE n # 0
    <3>1. n \in Nat \ {0}
      BY <2>2, CodeGenAssumption
    <3>2. Ins("data", n) \in Instruction /\ Ins("data", n).op # "torn"
      BY <3>1, InstructionTypes
    <3> QED BY <2>2, <3>2, <1>5, EmitLemma
  <2> QED BY <2>1, <2>2
<1> HIDE DEF literal
<1>7. Extends(code, literal) /\ Reserved(literal, code.len, 5) /\ literal.len \in Nat
  BY <1>5, <1>6, <1>1 DEF Extends, Reserved, IsBuffer
<1>8. i \in Instruction /\ i.len = 5 /\ i.op # "torn"
  BY <1>7, InstructionTypes
<1> HIDE DEF i
<1>9. /\ IsBuffer(jumped) /\ Intact(jumped) /\ SlotsReserved(Slots, jumped)
      /\ Keeps(code, jumped)
  BY <1>1, <1>6, <1>7, <1>8, PatchNew
<1> HIDE DEF jumped
<1>10. /\ IsBuffer(printed) /\ Extends(jumped, printed) /\ Intact(printed)
  <2>1. Ins("straight", 75) \in Instruction /\ Ins("straight", 75).op # "torn"
    BY InstructionTypes
  <2> QED BY <2>1, <1>9, EmitLemma
<1> HIDE DEF printed
<1>11. SlotsReserved(Slots, code') /\ Keeps(code, code') /\ IsBuffer(code') /\ Intact(code')
  BY <1>1, <1>4, <1>9, <1>10, SlotsExtend, ExtendsKeeps, KeepsTransitive
<1>12. frames' \in Seq(Frame) /\ FrameSlots(frames') \subseteq FrameSlots(frames) /\ FramesOK'
  BY <1>2, DoneTop
<1>13. PendingReserved' /\ CodeIntact' /\ PlacesGrow
  <2>1. Slots' \subseteq Slots
    BY <1>2, <1>12 DEF Slots
  <2> QED BY <2>1, <1>11, SlotsSubset DEF PendingReserved, CodeIntact, PlacesGrow
<1>14. TypeOK'
  BY <1>2, <1>11, <1>12 DEF IInv, TypeOK
<1> QED BY <1>11, <1>12, <1>13, <1>14 DEF IInv

(* The end of a loop: the jump back, and the places of every break and     *)
(* continue in the compiler's tables.                                      *)
LEMMA EndLoopStep ==
  ASSUME IInv, EndLoop
  PROVE  IInv' /\ Keeps(code, code') /\ PlacesGrow
<1> DEFINE c == EmitNop(code, 5)
           back == Patch(c, {code.len}, Jmp(Top.startPtr))
           broken == Patch(back, loopBreaks, Jmp(back.len))
           continued == Patch(broken, loopContinues, Jmp(Top.startPtr))
           TB == {Slot("break", 0, p, 5) : p \in loopBreaks}
           TC == {Slot("continue", 0, p, 5) : p \in loopContinues}
<1>1. IsBuffer(code) /\ Intact(code) /\ SlotsReserved(Slots, code) /\ IsSlots(Slots)
  BY SlotTypes DEF IInv, TypeOK, CodeIntact, PendingReserved
<1>2. /\ phase = "body" /\ frames # <<>> /\ Top.part = "loop"
      /\ frames' = WithTop(Done) /\ code' = continued
      /\ loopBreaks' = {} /\ loopContinues' = {}
      /\ src' = Append(src, Marker("end", Len(frames) - 1, code.len))
      /\ UNCHANGED <<phase, todo, entry, procedureMap, callTable, uncalled>>
  BY DEF EndLoop, InPart, WriteJump, JumpBack, BreakTarget, LoopControlTaken
<1>3. Len(frames) \in Nat \ {0} /\ Top.startPtr \in Nat /\ code.len \in Nat
  <2>1. Top \in Frame /\ Len(frames) \in Nat \ {0}
    BY <1>2, TopBelow DEF IInv, TypeOK
  <2> QED BY <2>1, <1>1 DEF Frame, IsBuffer
<1>4. Jmp(Top.startPtr) \in Instruction /\ Jmp(Top.startPtr).len = 5
      /\ Jmp(Top.startPtr).op # "torn"
  BY <1>3, InstructionTypes
<1>5. /\ IsBuffer(c) /\ Extends(code, c) /\ Intact(c) /\ Reserved(c, code.len, 5)
  BY <1>1, EmitNopLemma
<1> HIDE DEF c
<1>6. /\ IsBuffer(back) /\ Intact(back) /\ SlotsReserved(Slots, back) /\ Keeps(code, back)
  BY <1>1, <1>4, <1>5, PatchNew
<1> HIDE DEF back
<1>7. Jmp(back.len) \in Instruction /\ Jmp(back.len).len = 5 /\ Jmp(back.len).op # "torn"
  BY <1>6, InstructionTypes DEF IsBuffer
<1>8. /\ TB \in SUBSET Slots /\ \A t \in TB : t.n = 5
      /\ loopBreaks = {t.p : t \in TB}
      /\ TC \in SUBSET Slots /\ \A t \in TC : t.n = 5
      /\ loopContinues = {t.p : t \in TC}
      /\ TC \cap TB = {}
  <2>1. TB \subseteq Slots /\ TC \subseteq Slots
    BY DEF Slots, TableSlots
  <2>2. \A t \in TB : t.n = 5 /\ t.role = "break"
    BY DEF Slot
  <2>3. \A t \in TC : t.n = 5 /\ t.role = "continue"
    BY DEF Slot
  <2>4. \A role, p : Slot(role, 0, p, 5).p = p
    BY DEF Slot
  <2>5. loopBreaks = {t.p : t \in TB} /\ loopContinues = {t.p : t \in TC}
    BY <2>4
  <2> QED BY <2>1, <2>2, <2>3, <2>5
<1> HIDE DEF TB, TC
<1>9. /\ IsBuffer(broken) /\ Intact(broken) /\ SlotsReserved(Slots \ TB, broken)
      /\ Keeps(back, broken)
  BY <1>1, <1>6, <1>7, <1>8, SlotsPatch
<1> HIDE DEF broken
<1>10. /\ IsBuffer(continued) /\ Intact(continued)
       /\ SlotsReserved((Slots \ TB) \ TC, continued)
       /\ Keeps(broken, continued)
  <2>1. IsSlots(Slots \ TB) /\ TC \in SUBSET (Slots \ TB)
    BY <1>1, <1>8 DEF IsSlots
  <2> QED BY <2>1, <1>4, <1>8, <1>9, SlotsPatch
<1> HIDE DEF continued
<1>11. Keeps(code, code')
  BY <1>1, <1>2, <1>6, <1>9, <1>10, KeepsTransitive
<1>12. frames' \in Seq(Frame) /\ FrameSlots(frames') \subseteq FrameSlots(frames) /\ FramesOK'
  BY <1>2, DoneTop
<1>13. PendingReserved' /\ CodeIntact' /\ PlacesGrow
  <2>1. \A t \in TB \cup TC : t.role \in {"break", "continue"}
    BY DEF TB, TC, Slot
  <2>2. \A t \in FrameSlots(frames) : t.role \in {"cond", "else"}
    BY DEF FrameSlots, Slot
  <2>3. TableSlots(loopBreaks', loopContinues', uncalled')
          \subseteq {t \in TableSlots(loopBreaks, loopContinues, uncalled) : t.role = "call"}
    BY <1>2 DEF TableSlots, Slot
  <2>4. Slots' \subseteq (Slots \ TB) \ TC
    BY <2>1, <2>2, <2>3, <1>12 DEF Slots
  <2> QED BY <2>4, <1>2, <1>10, SlotsSubset DEF PendingReserved, CodeIntact, PlacesGrow
<1>14. TypeOK'
  <2>1. Marker("end", Len(frames) - 1, code.len) \in Items(Names)
    BY <1>3 DEF Marker, Item, Items, MarkerTags
  <2>2. src' \in Seq(Items(Names))
    BY <2>1, <1>2, AppendProperties DEF IInv, TypeOK
  <2> QED BY <2>2, <1>2, <1>10, <1>12 DEF IInv, TypeOK
<1> QED BY <1>11, <1>12, <1>13, <1>14 DEF IInv

(* Writing the instruction one place was reserved for.                     *)
LEMMA WriteOne ==
  ASSUME NEW S, IsSlots(S), NEW b, IsBuffer(b), Intact(b), SlotsReserved(S, b),
         NEW i \in Instruction, i.op # "torn",
         NEW t \in S, t.n = i.len
  PROVE  /\ IsBuffer(Patch(b, {t.p}, i)) /\ Intact(Patch(b, {t.p}, i))
         /\ Keeps(b, Patch(b, {t.p}, i))
         /\ SlotsReserved(S \ {t}, Patch(b, {t.p}, i))
<1> DEFINE one == {t}
           at == {t.p}
<1>1. one \in SUBSET S /\ (\A u \in one : u.n = i.len) /\ at = {u.p : u \in one}
  OBVIOUS
<1> HIDE DEF one, at
<1>2. /\ IsBuffer(Patch(b, at, i)) /\ Intact(Patch(b, at, i)) /\ Keeps(b, Patch(b, at, i))
  BY <1>1, SlotsPatch
<1>3. SlotsReserved(S \ one, Patch(b, at, i))
  BY <1>1, SlotsPatch
<1> QED BY <1>2, <1>3 DEF one, at

(* The jump around a statement, written at the place its activation keeps  *)
(* for it, disturbs no other place and no instruction.                     *)
LEMMA WriteSkipLemma ==
  ASSUME NEW S, IsSlots(S), NEW b, IsBuffer(b), Intact(b), SlotsReserved(S, b),
         NEW f \in Frame, f.cond # NoCond, NEW to \in Nat,
         NEW d, Slot("cond", d, f.condPtr, 6) \in S
  PROVE  /\ IsBuffer(WriteSkip(b, f, to)) /\ Intact(WriteSkip(b, f, to))
         /\ Keeps(b, WriteSkip(b, f, to))
         /\ SlotsReserved(S \ {Slot("cond", d, f.condPtr, 6)}, WriteSkip(b, f, to))
<1> DEFINE t == Slot("cond", d, f.condPtr, 6)
           i == Jcc(SkipComparison(f.cond), to)
<1>1. f.cond \in Condition
  BY CodeGenAssumption DEF Frame
<1>2. i \in Instruction /\ i.op # "torn" /\ i.len = 6
  BY <1>1, ConditionTypes, InstructionTypes
<1>3. t \in S /\ t.n = i.len /\ t.p = f.condPtr
  BY <1>2 DEF Slot
<1>4. WriteSkip(b, f, to) = Patch(b, {t.p}, i)
  BY <1>3 DEF WriteSkip
<1> HIDE DEF t, i
<1>5. /\ IsBuffer(Patch(b, {t.p}, i)) /\ Intact(Patch(b, {t.p}, i))
      /\ Keeps(b, Patch(b, {t.p}, i))
      /\ SlotsReserved(S \ {t}, Patch(b, {t.p}, i))
  BY <1>2, <1>3, WriteOne
<1> QED BY <1>4, <1>5 DEF t

(* The innermost activation's pending places are among the places.         *)
LEMMA TopSlots ==
  ASSUME TypeOK, frames # <<>>
  PROVE  /\ CondPending(Top) => Slot("cond", Len(frames), Top.condPtr, 6) \in Slots
         /\ ElsePending(Top) => Slot("else", Len(frames), Top.jumpPastElsePtr, 5) \in Slots
<1>1. Len(frames) \in 1 .. Len(frames) /\ frames[Len(frames)] = Top
  BY TopBelow DEF TypeOK, Top
<1> QED BY <1>1 DEF Slots, FrameSlots

(* Markers of the source are typed.                                        *)
LEMMA MarkerStep ==
  ASSUME IInv, frames # <<>>, NEW tag \in MarkerTags, NEW at \in Nat
  PROVE  Append(src, Marker(tag, Len(frames) - 1, at)) \in Seq(Items(Names))
<1>1. Len(frames) \in Nat \ {0}
  BY TopBelow DEF IInv, TypeOK
<1>2. Marker(tag, Len(frames) - 1, at) \in Items(Names)
  BY <1>1 DEF Marker, Item, Items
<1> QED BY <1>2, AppendProperties DEF IInv, TypeOK

(* From a then block to its else block.                                    *)
LEMMA BeginElseStep ==
  ASSUME IInv, SafeForms, BeginElse
  PROVE  IInv' /\ Keeps(code, code') /\ PlacesGrow
<1> DEFINE f == [Top EXCEPT !.part = "else", !.ifBlockEndPtr = code.len]
           at == IF Top.jumpPastElsePtr = 0 THEN code.len ELSE Top.jumpPastElsePtr
<1>1. /\ phase = "body" /\ frames # <<>> /\ Top.part = "then" /\ frames' = WithTop(f)
      /\ src' = Append(src, Marker("else", Len(frames) - 1, at))
      /\ UNCHANGED <<phase, todo, code, entry, procedureMap, callTable, uncalled,
                     loopBreaks, loopContinues>>
  BY DEF BeginElse, InPart
<1>2. Top \in Frame /\ code.len \in Nat
  BY <1>1, TopBelow DEF IInv, TypeOK, IsBuffer
<1>3. Top.jumpPastElsePtr \in Nat /\ Top.jumpPastElsePtr > 0
  <2>1. Top.jumpPastElsePtr \in Nat
    BY <1>2 DEF Frame
  <2>2. Top.jumpPastElsePtr # 0
    BY <1>1 DEF BeginElse, OwesStatement, SafeForms
  <2> QED BY <2>1, <2>2
<1>4. /\ f \in Frame /\ f.part = "else" /\ f.tag = Top.tag /\ f.cond = Top.cond
      /\ f.name = Top.name /\ f.condPtr = Top.condPtr
      /\ f.jumpPastElsePtr = Top.jumpPastElsePtr
  <2> DEFINE g == Top
             end == code.len
  <2>1. g \in Frame /\ end \in Nat /\ "else" \in Parts
    BY <1>2 DEF Parts
  <2>2. f = [g EXCEPT !.part = "else", !.ifBlockEndPtr = end]
    OBVIOUS
  <2>3. g = Top
    OBVIOUS
  <2> HIDE DEF g, end, f
  <2> QED BY <2>1, <2>2, <2>3 DEF Frame
<1>5. at \in Nat
  BY <1>2, <1>3
<1> HIDE DEF f, at
<1>6. frames' \in Seq(Frame) /\ FrameSlots(frames') \subseteq FrameSlots(frames) /\ FramesOK'
  BY <1>1, <1>3, <1>4, AdvanceTop
<1>7. src' \in Seq(Items(Names))
  BY <1>1, <1>5, MarkerStep DEF MarkerTags
<1>8. PendingReserved' /\ CodeIntact' /\ Keeps(code, code') /\ PlacesGrow
  <2>1. Slots' \subseteq Slots
    BY <1>1, <1>6 DEF Slots
  <2> QED BY <2>1, <1>1, SlotsSubset, KeepsSame
          DEF IInv, TypeOK, PendingReserved, CodeIntact, PlacesGrow
<1>9. TypeOK'
  BY <1>1, <1>6, <1>7 DEF IInv, TypeOK
<1> QED BY <1>6, <1>8, <1>9 DEF IInv

(* The end of a branch: the jump past the else block, if there is one, and *)
(* the conditional jump to the end of the then block.                      *)
LEMMA EndBranchStep ==
  ASSUME IInv, EndThen \/ EndElse
  PROVE  IInv' /\ Keeps(code, code') /\ PlacesGrow
<1> DEFINE c == Slot("cond", Len(frames), Top.condPtr, 6)
           e == Slot("else", Len(frames), Top.jumpPastElsePtr, 5)
<1>1. /\ phase = "body" /\ frames # <<>> /\ Top.part \in {"then", "else"}
      /\ frames' = WithTop(Done)
      /\ src' = Append(src, Marker("end", Len(frames) - 1, code.len))
      /\ UNCHANGED <<phase, todo, entry, procedureMap, callTable, uncalled,
                     loopBreaks, loopContinues>>
  BY DEF EndThen, EndElse, InPart
<1>2. IsBuffer(code) /\ Intact(code) /\ SlotsReserved(Slots, code) /\ IsSlots(Slots)
  BY SlotTypes DEF IInv, TypeOK, CodeIntact, PendingReserved
<1>3. /\ Top \in Frame /\ code.len \in Nat /\ Len(frames) \in 1 .. Len(frames)
      /\ Top.ifBlockEndPtr \in Nat /\ Top.jumpPastElsePtr \in Nat
  <2>1. Top \in Frame /\ Len(frames) \in 1 .. Len(frames)
    BY <1>1, TopBelow DEF IInv, TypeOK
  <2> QED BY <2>1, <1>2 DEF Frame, IsBuffer
<1>4. /\ Top.tag = "branch" /\ Top.cond # NoCond /\ CondPending(Top)
      /\ Top.part = "else" => ElsePending(Top)
  <2>1. FrameOK(Top)
    BY <1>3 DEF IInv, FramesOK, Top
  <2> QED BY <2>1, <1>1 DEF FrameOK, CondPending, ElsePending
<1>5. c \in Slots /\ (Top.part = "else" => e \in Slots) /\ c # e
      /\ e.n = 5 /\ e.p = Top.jumpPastElsePtr
  <2>1. c \in Slots /\ (Top.part = "else" => e \in Slots)
    BY <1>1, <1>4, TopSlots DEF IInv
  <2>2. c.role = "cond" /\ e.role = "else" /\ e.n = 5 /\ e.p = Top.jumpPastElsePtr
    BY DEF Slot
  <2> QED BY <2>1, <2>2
<1>6. /\ IsBuffer(code') /\ Intact(code') /\ Keeps(code, code')
      /\ SlotsReserved((Slots \ {e}) \ {c}, code')
  <2>1. CASE EndThen
    <3>1. /\ code' = WriteSkip(code, Top, code.len)
      BY <2>1 DEF EndThen
    <3>2. /\ IsBuffer(code') /\ Intact(code') /\ Keeps(code, code')
          /\ SlotsReserved(Slots \ {c}, code')
      BY <3>1, <1>2, <1>3, <1>4, <1>5, WriteSkipLemma
    <3> QED BY <3>2, SlotsSubset
  <2>2. CASE EndElse
    <3> DEFINE i == Jmp(code.len)
               past == Patch(code, {e.p}, i)
    <3>1. code' = WriteSkip(past, Top, Top.ifBlockEndPtr) /\ Top.part = "else"
      BY <2>2, <1>5 DEF EndElse, WriteJump, InPart
    <3>2. i \in Instruction /\ i.len = 5 /\ i.op # "torn"
      BY <1>3, InstructionTypes
    <3> HIDE DEF i
    <3>3. /\ IsBuffer(past) /\ Intact(past) /\ Keeps(code, past)
          /\ SlotsReserved(Slots \ {e}, past)
      <4>1. e \in Slots /\ e.n = i.len
        BY <3>1, <3>2, <1>5
      <4> HIDE DEF e
      <4> QED BY <4>1, <3>2, <1>2, WriteOne
    <3> HIDE DEF past
    <3>4. IsSlots(Slots \ {e}) /\ c \in Slots \ {e}
      BY <1>2, <1>5 DEF IsSlots
    <3>5. /\ IsBuffer(code') /\ Intact(code') /\ Keeps(past, code')
          /\ SlotsReserved((Slots \ {e}) \ {c}, code')
      <4> HIDE DEF e
      <4> QED BY <3>1, <3>3, <3>4, <1>3, <1>4, WriteSkipLemma
    <3> QED BY <3>3, <3>5, <1>2, KeepsTransitive
  <2> QED BY <2>1, <2>2
<1>7. frames' \in Seq(Frame) /\ FrameSlots(frames') \subseteq FrameSlots(frames) /\ FramesOK'
  BY <1>1, DoneTop
<1>8. c \notin Slots' /\ e \notin Slots'
  <2>1. Len(frames') = Len(frames) /\ frames'[Len(frames)] = Done
    <3>1. Done \in Frame
      BY <1>3, FrameChange DEF Done, Parts
    <3> QED BY <3>1, <1>1, <1>3, TopBelow DEF IInv, TypeOK
  <2>2. Done.part = "done" /\ Done.tag = "branch"
    BY <1>3, <1>4, FrameChange, ZenonT(40) DEF Done, Parts
  <2>3. ~CondPending(frames'[Len(frames)]) /\ ~ElsePending(frames'[Len(frames)])
    BY <2>1, <2>2 DEF CondPending, ElsePending
  <2>4. \A t \in FrameSlots(frames') : t.d # Len(frames)
    BY <2>1, <2>3 DEF FrameSlots, Slot
  <2>5. \A t \in TableSlots(loopBreaks', loopContinues', uncalled') :
          t.role \notin {"cond", "else"}
    BY DEF TableSlots, Slot
  <2>6. c.d = Len(frames) /\ e.d = Len(frames) /\ c.role = "cond" /\ e.role = "else"
    BY DEF Slot
  <2> QED BY <2>4, <2>5, <2>6 DEF Slots
<1>9. PendingReserved' /\ CodeIntact' /\ PlacesGrow
  <2>1. Slots' \subseteq (Slots \ {e}) \ {c}
    BY <1>1, <1>7, <1>8 DEF Slots
  <2> QED BY <2>1, <1>6, SlotsSubset DEF PendingReserved, CodeIntact, PlacesGrow
<1>10. TypeOK'
  <2>1. src' \in Seq(Items(Names))
    BY <1>1, <1>3, MarkerStep DEF MarkerTags
  <2> QED BY <2>1, <1>1, <1>6, <1>7 DEF IInv, TypeOK
<1> QED BY <1>6, <1>7, <1>9, <1>10 DEF IInv

(* An activation returns: the others stay as they are, except that a       *)
(* caller in a then block that an else block follows remembers a new place. *)
LEMMA LeaveFrames ==
  ASSUME IInv, LeaveStatement
  PROVE  /\ Len(frames) \in Nat \ {0} /\ Top \in Frame
         /\ frames' \in Seq(Frame) /\ Len(frames') = Len(frames) - 1
         /\ \A d \in 1 .. Len(frames) - 1 :
              /\ frames'[d].tag = frames[d].tag /\ frames'[d].cond = frames[d].cond
              /\ frames'[d].name = frames[d].name /\ frames'[d].part = frames[d].part
              /\ frames'[d].condPtr = frames[d].condPtr
              /\ frames'[d].startPtr = frames[d].startPtr
              /\ frames'[d].ifBlockEndPtr = frames[d].ifBlockEndPtr
              /\ \/ frames'[d].jumpPastElsePtr = frames[d].jumpPastElsePtr
                 \/ /\ Below # <<>> /\ Below[Len(Below)].part = "then"
                    /\ Below[Len(Below)].hasElse
                    /\ d = Len(frames) - 1 /\ frames'[d].part = "then"
                    /\ frames'[d].jumpPastElsePtr = code.len
<1> DEFINE n == Len(frames)
           caller == Below[n - 1]
           skipped == IF Top.cond # NoCond /\ Top.tag # "branch"
                      THEN WriteSkip(code, Top, code.len) ELSE code
           fills == Below # <<>> /\ caller.part = "then" /\ caller.hasElse
<1>1. frames # <<>>
  BY DEF LeaveStatement, InPart
<1>2. /\ n \in Nat \ {0} /\ Top \in Frame
      /\ Below \in Seq(Frame) /\ Len(Below) = n - 1
      /\ \A d \in 1 .. n - 1 : Below[d] = frames[d]
  BY <1>1, TopBelow DEF IInv, TypeOK
<1>3. skipped.len = code.len /\ code.len \in Nat
  BY DEF IInv, TypeOK, IsBuffer, WriteSkip, Patch
<1>4. IF fills THEN frames' = [Below EXCEPT ![n - 1].jumpPastElsePtr = code.len]
               ELSE frames' = Below
  <2>1. IF fills THEN frames' = [Below EXCEPT ![n - 1].jumpPastElsePtr = skipped.len]
                 ELSE frames' = Below
    BY <1>2 DEF LeaveStatement
  <2> HIDE DEF skipped, fills
  <2> QED BY <2>1, <1>3
<1> HIDE DEF skipped
<1>5. CASE fills
  <2> DEFINE g == [caller EXCEPT !.jumpPastElsePtr = code.len]
  <2>1. n - 1 \in 1 .. Len(Below)
    BY <1>5, <1>2, EmptySeq
  <2>2. caller \in Frame /\ caller = frames[n - 1]
    BY <2>1, <1>2, ElementOfSeq
  <2>3. /\ g \in Frame /\ g.part = caller.part /\ g.tag = caller.tag
        /\ g.cond = caller.cond /\ g.name = caller.name
        /\ g.condPtr = caller.condPtr /\ g.jumpPastElsePtr = code.len
        /\ g.startPtr = caller.startPtr /\ g.ifBlockEndPtr = caller.ifBlockEndPtr
    BY <2>2, <1>3 DEF Frame
  <2>4. frames' = [Below EXCEPT ![n - 1] = g]
    BY <1>5, <1>4
  <2> HIDE DEF g
  <2>5. /\ frames' \in Seq(Frame) /\ Len(frames') = n - 1
        /\ \A d \in 1 .. n - 1 : frames'[d] = IF d = n - 1 THEN g ELSE Below[d]
    BY <2>1, <2>3, <2>4, <1>2, ExceptSeq
  <2> QED BY <1>5, <2>2, <2>3, <2>5, <1>2
<1>6. CASE ~fills
  BY <1>6, <1>2, <1>4
<1> QED BY <1>5, <1>6

(* An activation returns: the jump around the statement is written, and    *)
(* the place a caller remembers is reserved.                               *)
LEMMA LeaveStep ==
  ASSUME IInv, LeaveStatement
  PROVE  IInv' /\ Keeps(code, code') /\ PlacesGrow
<1> DEFINE n == Len(frames)
           caller == Below[n - 1]
           c == Slot("cond", n, Top.condPtr, 6)
           rest == {t \in Slots : t.d # n}
           skipped == IF Top.cond # NoCond /\ Top.tag # "branch"
                      THEN WriteSkip(code, Top, code.len) ELSE code
           fills == Below # <<>> /\ caller.part = "then" /\ caller.hasElse
           e == Slot("else", n - 1, code.len, 5)
<1>1. IsBuffer(code) /\ Intact(code) /\ SlotsReserved(Slots, code) /\ IsSlots(Slots)
  BY SlotTypes DEF IInv, TypeOK, CodeIntact, PendingReserved
<1>2. phase = "body" /\ frames # <<>> /\ Top.part = "done"
  BY DEF LeaveStatement, InPart
<1>3. /\ n \in Nat \ {0} /\ Top \in Frame /\ frames \in Seq(Frame)
      /\ Below \in Seq(Frame) /\ Len(Below) = n - 1
      /\ \A d \in 1 .. n - 1 : Below[d] = frames[d]
  BY <1>2, TopBelow DEF IInv, TypeOK
<1>4. /\ IF fills THEN /\ code' = EmitNop(skipped, 5)
                       /\ frames' = [Below EXCEPT ![n - 1].jumpPastElsePtr = skipped.len]
                  ELSE code' = skipped /\ frames' = Below
      /\ UNCHANGED <<phase, todo, src, entry, procedureMap, callTable, uncalled,
                     loopBreaks, loopContinues>>
  BY <1>3 DEF LeaveStatement
<1>5. code.len \in Nat
  BY <1>1 DEF IsBuffer
<1>6. /\ IsBuffer(skipped) /\ Intact(skipped) /\ Keeps(code, skipped)
      /\ SlotsReserved(rest, skipped) /\ IsSlots(rest)
  <2>0. rest \subseteq Slots /\ IsSlots(rest)
    BY <1>1 DEF IsSlots
  <2>1. CASE Top.cond # NoCond /\ Top.tag # "branch"
    <3>1. c \in Slots
      BY <2>1, <1>2, TopSlots DEF CondPending, IInv
    <3>2. skipped = WriteSkip(code, Top, code.len)
      BY <2>1
    <3>3. c.d = n
      BY DEF Slot
    <3> HIDE DEF n, skipped
    <3>4. /\ IsBuffer(skipped) /\ Intact(skipped) /\ Keeps(code, skipped)
          /\ SlotsReserved(Slots \ {c}, skipped)
      BY <2>1, <3>1, <3>2, <1>1, <1>3, <1>5, WriteSkipLemma
    <3>5. rest \subseteq Slots \ {c}
      BY <3>3
    <3> QED BY <2>0, <3>4, <3>5, SlotsSubset
  <2>2. CASE ~(Top.cond # NoCond /\ Top.tag # "branch")
    <3>1. skipped = code
      BY <2>2
    <3> HIDE DEF skipped, rest
    <3> QED BY <3>1, <2>0, <1>1, SlotsSubset, KeepsSame
  <2> QED BY <2>1, <2>2
<1>7. TableSlots(loopBreaks, loopContinues, uncalled) \subseteq rest
  <2>1. \A t \in TableSlots(loopBreaks, loopContinues, uncalled) : t.d = 0
    BY DEF TableSlots, Slot
  <2> QED BY <2>1, <1>3 DEF Slots
<1>8. skipped.len = code.len
  BY DEF WriteSkip, Patch
<1> HIDE DEF skipped
<1>9. /\ frames' \in Seq(Frame) /\ Len(frames') = n - 1
      /\ \A d \in 1 .. n - 1 :
           /\ frames'[d].tag = frames[d].tag /\ frames'[d].cond = frames[d].cond
           /\ frames'[d].name = frames[d].name /\ frames'[d].part = frames[d].part
           /\ frames'[d].condPtr = frames[d].condPtr
           /\ \/ frames'[d].jumpPastElsePtr = frames[d].jumpPastElsePtr
              \/ /\ fills /\ d = n - 1 /\ frames'[d].part = "then"
                 /\ frames'[d].jumpPastElsePtr = code.len
  BY <1>3, LeaveFrames
<1>10. FrameSlots(frames') \subseteq rest \cup (IF fills THEN {e} ELSE {})
  <2> SUFFICES ASSUME NEW t \in FrameSlots(frames')
               PROVE  t \in rest \/ (fills /\ t = e)
    OBVIOUS
  <2>1. PICK d \in 1 .. n - 1 :
          \/ CondPending(frames'[d]) /\ t = Slot("cond", d, frames'[d].condPtr, 6)
          \/ ElsePending(frames'[d]) /\ t = Slot("else", d, frames'[d].jumpPastElsePtr, 5)
    BY <1>9 DEF FrameSlots
  <2>2. d \in 1 .. Len(frames) /\ d # n /\ t.d = d
    BY <2>1, <1>3 DEF Slot
  <2>3. CASE CondPending(frames'[d]) /\ t = Slot("cond", d, frames'[d].condPtr, 6)
    <3>1. CondPending(frames[d]) /\ t = Slot("cond", d, frames[d].condPtr, 6)
      BY <2>3, <1>9 DEF CondPending
    <3> QED BY <2>2, <3>1 DEF Slots, FrameSlots
  <2>4. CASE ElsePending(frames'[d]) /\ t = Slot("else", d, frames'[d].jumpPastElsePtr, 5)
    <3>1. CASE frames'[d].jumpPastElsePtr = frames[d].jumpPastElsePtr
      <4>1. ElsePending(frames[d]) /\ t = Slot("else", d, frames[d].jumpPastElsePtr, 5)
        BY <2>4, <3>1, <1>9 DEF ElsePending
      <4> QED BY <2>2, <4>1 DEF Slots, FrameSlots
    <3>2. CASE frames'[d].jumpPastElsePtr # frames[d].jumpPastElsePtr
      BY <2>4, <3>2, <1>9
    <3> QED BY <3>1, <3>2
  <2> QED BY <2>1, <2>3, <2>4
<1>11. Slots' \subseteq rest \cup (IF fills THEN {e} ELSE {})
  BY <1>4, <1>7, <1>10 DEF Slots
<1>12. /\ IsBuffer(code') /\ Intact(code') /\ Keeps(code, code')
       /\ SlotsReserved(Slots', code')
  <2> HIDE DEF rest
  <2>1. CASE fills
    <3>1. /\ IsBuffer(code') /\ Intact(code') /\ Extends(skipped, code')
          /\ Reserved(code', skipped.len, 5)
      BY <2>1, <1>4, <1>6, EmitNopLemma
    <3>2. e.p = skipped.len /\ e.n = 5
      BY <1>8 DEF Slot
    <3> HIDE DEF e
    <3>3. SlotsReserved(rest \cup {e}, code')
      BY <3>1, <3>2, <1>5, <1>6, <1>8, SlotsAdd
    <3>4. Keeps(code, code')
      BY <3>1, <1>1, <1>6, ExtendsKeeps, KeepsTransitive
    <3> QED BY <2>1, <3>1, <3>3, <3>4, <1>11, SlotsSubset
  <2>2. CASE ~fills
    BY <2>2, <1>4, <1>6, <1>11, SlotsSubset
  <2> QED BY <2>1, <2>2
<1>13. FramesOK'
  <2>1. ASSUME NEW d \in 1 .. Len(frames')
        PROVE  FrameOK(frames'[d]) /\ frames'[d].part # "emit"
    <3>1. d \in 1 .. n - 1 /\ d \in 1 .. Len(frames) /\ d \in 1 .. Len(frames) - 1
      BY <1>3, <1>9
    <3>2. FrameOK(frames[d]) /\ frames[d].part # "emit"
      BY <3>1 DEF IInv, FramesOK
    <3> QED BY <3>1, <3>2, <1>9 DEF FrameOK
  <2>2. frames' # <<>> => Top'.part # "emit"
    <3>1. frames' # <<>> => Len(frames') \in 1 .. Len(frames')
      BY <1>9, EmptySeq
    <3> QED BY <3>1, <2>1 DEF Top
  <2>3. \A d \in 1 .. Len(frames') - 1 : frames'[d].part # "emit"
    BY <2>1, <1>3, <1>9
  <2> QED BY <2>1, <2>2, <2>3, <1>2, <1>4 DEF FramesOK
<1>14. TypeOK'
  BY <1>4, <1>9, <1>12 DEF IInv, TypeOK
<1>15. PlacesGrow
  <2>1. e.p = code.len
    BY DEF Slot
  <2> QED BY <1>5, <1>11, <2>1 DEF PlacesGrow
<1> QED BY <1>12, <1>13, <1>14, <1>15 DEF IInv, PendingReserved, CodeIntact

(* The start procedure: a place for the call of main between saving and    *)
(* restoring the registers.                                                *)
LEMMA CompileStartStep ==
  ASSUME IInv, CompileStart
  PROVE  IInv' /\ Keeps(code, code') /\ PlacesGrow
<1> DEFINE saved    == Ins("enter", 23)
           restored == Ins("leave", 23)
           ret      == Ins("ret", 1)
           pushed   == Emit(code, saved)
           called   == EmitNop(pushed, 5)
           popped   == Emit(called, restored)
           t        == Slot("call", 0, pushed.len, 5)
<1>1. /\ phase = "procs" /\ phase' = "calls" /\ entry' = code.len
      /\ code' = Emit(popped, ret)
      /\ callTable' = [p \in DOMAIN callTable \cup {pushed.len} |->
                         IF p = pushed.len THEN Main ELSE callTable[p]]
      /\ uncalled' = uncalled \cup {pushed.len}
      /\ UNCHANGED <<todo, src, frames, procedureMap, loopBreaks, loopContinues>>
  BY DEF CompileStart
<1>2. IsBuffer(code) /\ Intact(code) /\ SlotsReserved(Slots, code) /\ IsSlots(Slots)
  BY SlotTypes DEF IInv, TypeOK, CodeIntact, PendingReserved
<1>3. /\ saved \in Instruction /\ saved.op # "torn"
      /\ restored \in Instruction /\ restored.op # "torn"
      /\ ret \in Instruction /\ ret.op # "torn"
  BY InstructionTypes
<1>4. t.p = pushed.len /\ t.n = 5
  BY DEF Slot
<1>5. Slots' \subseteq Slots \cup {t}
  BY <1>1 DEF Slots, TableSlots
<1> HIDE DEF saved, restored, ret, t
<1>6. IsBuffer(pushed) /\ Extends(code, pushed) /\ Intact(pushed)
  BY <1>2, <1>3, EmitLemma
<1> HIDE DEF pushed
<1>7. /\ IsBuffer(called) /\ Extends(pushed, called) /\ Intact(called)
      /\ Reserved(called, pushed.len, 5)
  BY <1>6, EmitNopLemma
<1> HIDE DEF called
<1>8. pushed.len \in Nat
  BY <1>6 DEF IsBuffer
<1>9. SlotsReserved(Slots \cup {t}, called) /\ IsSlots(Slots \cup {t})
  <2>1. SlotsReserved(Slots, pushed)
    BY <1>2, <1>6, SlotsExtend
  <2> QED BY <2>1, <1>2, <1>4, <1>6, <1>7, <1>8, SlotsAdd
<1>10. IsBuffer(popped) /\ Extends(called, popped) /\ Intact(popped)
  BY <1>3, <1>7, EmitLemma
<1> HIDE DEF popped
<1>11. IsBuffer(code') /\ Extends(popped, code') /\ Intact(code')
  BY <1>1, <1>3, <1>10, EmitLemma
<1>12. PendingReserved' /\ CodeIntact'
  <2> DEFINE all == Slots \cup {t}
  <2>1. IsSlots(all) /\ SlotsReserved(all, called) /\ Slots' \subseteq all
    BY <1>5, <1>9
  <2> HIDE DEF all
  <2>2. SlotsReserved(all, popped)
    BY <2>1, <1>7, <1>10, SlotsExtend
  <2>3. SlotsReserved(all, code')
    BY <2>1, <2>2, <1>10, <1>11, SlotsExtend
  <2> QED BY <2>1, <2>3, <1>11, SlotsSubset DEF PendingReserved, CodeIntact
<1>13. Keeps(code, code')
  <2>1. Keeps(code, called)
    BY <1>2, <1>6, <1>7, ExtendsKeeps, KeepsTransitive
  <2>2. Keeps(called, code')
    BY <1>7, <1>10, <1>11, ExtendsKeeps, KeepsTransitive
  <2> QED BY <2>1, <2>2, <1>2, <1>7, <1>11, KeepsTransitive
<1>14. FramesOK'
  <2>1. frames = <<>> /\ frames' = <<>> /\ Len(frames') = 0
    BY <1>1 DEF IInv, FramesOK
  <2> QED BY <2>1 DEF FramesOK
<1>15. PlacesGrow
  <2>1. code.len <= pushed.len
    BY <1>6 DEF Extends
  <2> QED BY <1>4, <1>5, <1>8, <2>1 DEF PlacesGrow
<1>16. TypeOK'
  <2>1. Main \in Names
    BY CodeGenAssumption
  <2>2. code.len \in Nat
    BY <1>2 DEF IsBuffer
  <2>3. /\ DOMAIN callTable' \subseteq Nat
        /\ \A p \in DOMAIN callTable' : callTable'[p] \in Names
        /\ uncalled' \subseteq DOMAIN callTable'
    BY <2>1, <1>1, <1>8 DEF IInv, TypeOK
  <2> QED BY <2>2, <2>3, <1>1, <1>11 DEF IInv, TypeOK, Phases
<1> QED BY <1>12, <1>13, <1>14, <1>15, <1>16 DEF IInv

(* A call is written at its place.                                         *)
LEMMA LinkCallStep ==
  ASSUME IInv, NEW p \in uncalled, LinkCall(p)
  PROVE  IInv' /\ Keeps(code, code') /\ PlacesGrow
<1> DEFINE to == procedureMap[callTable[p]]
           i  == CallTo(to)
           t  == Slot("call", 0, p, 5)
<1>1. /\ phase = "calls" /\ callTable[p] \in DOMAIN procedureMap
      /\ code' = WriteCall(code, p, to) /\ uncalled' = uncalled \ {p}
      /\ UNCHANGED <<phase, todo, src, frames, entry, procedureMap, callTable,
                     loopBreaks, loopContinues>>
  BY DEF LinkCall
<1>2. IsBuffer(code) /\ Intact(code) /\ SlotsReserved(Slots, code) /\ IsSlots(Slots)
  BY SlotTypes DEF IInv, TypeOK, CodeIntact, PendingReserved
<1>3. i \in Instruction /\ i.len = 5 /\ i.op # "torn"
  <2>1. to \in Nat
    BY <1>1 DEF IInv, TypeOK
  <2> QED BY <2>1, InstructionTypes
<1>4. t \in Slots /\ t.n = 5 /\ t.p = p
  BY DEF Slots, TableSlots, Slot
<1>5. code' = Patch(code, {t.p}, i)
  BY <1>1, <1>4 DEF WriteCall
<1>6. frames = <<>>
  BY <1>1 DEF IInv, FramesOK
<1>7. Slots' \subseteq Slots \ {t}
  <2>1. FrameSlots(frames') = {}
    <3>1. Len(frames') = 0
      BY <1>1, <1>6
    <3> QED BY <3>1 DEF FrameSlots
  <2>2. TableSlots(loopBreaks', loopContinues', uncalled') \subseteq Slots \ {t}
    BY <1>1 DEF Slots, TableSlots, Slot
  <2> QED BY <2>1, <2>2 DEF Slots
<1> HIDE DEF i, t
<1>8. /\ IsBuffer(code') /\ Intact(code') /\ Keeps(code, code')
      /\ SlotsReserved(Slots \ {t}, code')
  BY <1>2, <1>3, <1>4, <1>5, WriteOne
<1>9. PendingReserved' /\ CodeIntact'
  BY <1>7, <1>8, SlotsSubset DEF PendingReserved, CodeIntact
<1>10. FramesOK'
  BY <1>1, <1>6 DEF IInv, FramesOK
<1>11. TypeOK'
  BY <1>1, <1>8 DEF IInv, TypeOK
<1> QED BY <1>7, <1>8, <1>9, <1>10, <1>11 DEF IInv, PlacesGrow

----------------------------------------------------------------------------
(* The invariant holds initially.                                          *)
LEMMA InitInvariant == Init => IInv
<1> SUFFICES ASSUME Init PROVE IInv
  OBVIOUS
<1>1. TypeOK
  BY DEF Init, TypeOK, IsBuffer, EmptyBuffer, Phases
<1>2. Len(frames) = 0
  BY DEF Init
<1>3. Slots = {}
  BY <1>2 DEF Init, Slots, TableSlots, FrameSlots
<1>4. PendingReserved
  BY <1>3 DEF PendingReserved, SlotsReserved
<1>5. CodeIntact
  BY DEF Init, CodeIntact, Intact, NoneTorn, Disjoint, Tiled, EmptyBuffer
<1>6. FramesOK
  BY <1>2 DEF Init, FramesOK
<1> QED BY <1>1, <1>4, <1>5, <1>6 DEF IInv

(* Every step keeps the invariant and the generated code, and remembers no *)
(* place inside it.                                                        *)
LEMMA NextInvariant ==
  ASSUME IInv, SafeForms, [Next]_vars
  PROVE  IInv' /\ Keeps(code, code') /\ PlacesGrow
<1>1. ASSUME NEW n \in Names, BeginProcedure(n) PROVE IInv' /\ Keeps(code, code') /\ PlacesGrow
  BY <1>1, BeginProcedureStep
<1>2. CASE EndProcedure
  BY <1>2, EndProcedureStep
<1>3. ASSUME NEW s \in Statement, EnterStatement(s) PROVE IInv' /\ Keeps(code, code') /\ PlacesGrow
  BY <1>3, EnterStep
<1>4. CASE \/ (\E n \in BodyLens : EmitStraight(n)) \/ EmitReturn
  BY <1>4, PlainEmitStep
<1>5. CASE EmitBreak \/ EmitContinue \/ EmitCallStatement
  BY <1>5, ReserveStep
<1>6. ASSUME NEW n \in TextLens, EmitText(n) PROVE IInv' /\ Keeps(code, code') /\ PlacesGrow
  BY <1>6, TextStep
<1>7. CASE EndLoop
  BY <1>7, EndLoopStep
<1>8. CASE BeginElse
  BY <1>8, BeginElseStep
<1>9. CASE EndThen \/ EndElse
  BY <1>9, EndBranchStep
<1>10. CASE LeaveStatement
  BY <1>10, LeaveStep
<1>11. CASE CompileStart
  BY <1>11, CompileStartStep
<1>12. ASSUME NEW p \in uncalled, LinkCall(p) PROVE IInv' /\ Keeps(code, code') /\ PlacesGrow
  BY <1>12, LinkCallStep
<1>13. CASE \/ StrayLoopControl \/ EmitLonghand \/ Compiled \/ UNCHANGED vars
            \/ \E s \in Statement : BadCondition(s)
            \/ \E p \in uncalled : MissingProcedure(p)
  BY <1>13, PhaseSteps
<1>14. CASE Returned
  BY <1>14, PhaseSteps DEF Returned
<1> QED BY <1>1, <1>2, <1>3, <1>4, <1>5, <1>6, <1>7, <1>8, <1>9, <1>10, <1>11,
           <1>12, <1>13, <1>14 DEF Next, Compile

(* The inductive invariant is an invariant.                                *)
LEMMA Invariant ==
  ASSUME SafeForms PROVE Spec => []IInv
<1>1. IInv /\ [Next]_vars => IInv'
  BY NextInvariant
<1> QED BY <1>1, InitInvariant, PTL DEF Spec

----------------------------------------------------------------------------
(* Whatever program is compiled, the tables, the activations and the code  *)
(* buffer hold values of their types.                                      *)
THEOREM TypeCorrect ==
  ASSUME SafeForms PROVE Spec => []TypeOK
<1>1. IInv => TypeOK
  BY DEF IInv
<1> QED BY <1>1, Invariant, PTL

(* Whatever program is compiled, loops inside branches, calls anywhere and *)
(* any number of pending breaks included, no place a later jump or call    *)
(* goes to is ever overwritten or shared.                                  *)
THEOREM PlacesReserved ==
  ASSUME SafeForms PROVE Spec => []PendingReserved
<1>1. IInv => PendingReserved
  BY DEF IInv
<1> QED BY <1>1, Invariant, PTL

(* Whatever program is compiled, the code decodes as it was generated.     *)
THEOREM CodeStaysIntact ==
  ASSUME SafeForms PROVE Spec => []CodeIntact
<1>1. IInv => CodeIntact
  BY DEF IInv
<1> QED BY <1>1, Invariant, PTL

(* Whatever program is compiled, a jump or a call is only ever written     *)
(* over nops: no step changes or moves an instruction generated before.    *)
THEOREM PatchedInPlace ==
  ASSUME SafeForms PROVE Spec => PatchesInPlace
<1>1. IInv /\ [Next]_vars =>
        [\A p \in DOMAIN code.at :
           code.at[p] = Nop \/ (p \in DOMAIN code'.at /\ code'.at[p] = code.at[p])]_vars
  BY NextInvariant DEF Keeps
<1> QED BY <1>1, Invariant, PTL DEF Spec, PatchesInPlace
============================================================================
