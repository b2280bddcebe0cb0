----------------------------- MODULE ItemProofs -----------------------------
(***************************************************************************)
(* Which code belongs to which item of the program.  The code of items     *)
(* lies in the order of the program, with nothing but nops in between;     *)
(* every block is closed by the markers the program has for it; and the    *)
(* jump over a statement goes behind its last item.                        *)
(***************************************************************************)
EXTENDS StatementProofs

----------------------------------------------------------------------------
(* The block structure.                                                    *)

(* Block j is the one that marker e belongs to.                            *)
Opens(s, j, e) ==
  /\ j \in 1 .. e - 1 /\ s[j].tag \in BlockTags /\ s[j].depth = s[e].depth
  /\ \A k \in j + 1 .. e - 1 : s[k].tag = "else" \/ s[k].depth > s[j].depth

EndsLoop(s, e) == s[e].tag = "end" /\ s[Opener(s, e)].tag = "loop"

(* The length of the code of an item behind its condition, and where it    *)
(* ends.                                                                   *)
BodyLen(i) ==
  CASE src[i].tag \in {"break", "continue", "call", "else"} -> 5
    [] src[i].tag \in {"return", "endproc"} -> 1
    [] src[i].tag = "straight" -> code.at[BodyPtr(i)].len
    [] src[i].tag = "text" -> code.at[BodyPtr(i)].to + 75 - BodyPtr(i)
    [] src[i].tag = "end" /\ EndsLoop(src, i) -> 5
    [] OTHER -> 0

CodeEnd(i) == BodyPtr(i) + BodyLen(i)

(* The jump over the statement of item j, if it has a condition, is        *)
(* written and goes to q.                                                  *)
SkipsTo(j, q) ==
  src[j].cond # NoCond =>
    LET p == src[j].at + CmpLen(src[j].cond)
    IN p \in DOMAIN code.at /\ code.at[p].op = "jcc" /\ code.at[p].to = q

(* The items between j and e are inside statement j, but for m.            *)
Within(j, e, m) == \A k \in j + 1 .. e - 1 : k # m => src[k].depth > src[j].depth

JumpAt(p, to) == p \in DOMAIN code.at /\ code.at[p] = Jmp(to)

(* Statement j is compiled and e is its last item.                         *)
BuiltLoop(j, e) ==
  /\ src[j].tag = "loop" /\ Within(j, e, 0) /\ JumpAt(src[e].at, src[j].at)

BuiltBranch(j, e) ==
  /\ src[j].tag = "branch"
  /\ \/ Within(j, e, 0) /\ SkipsTo(j, src[e].at)
     \/ \E m \in j + 1 .. e - 1 :
          /\ src[m].tag = "else" /\ src[m].depth = src[j].depth /\ Within(j, e, m)
          /\ JumpAt(src[m].at, src[e].at) /\ SkipsTo(j, src[m].at + 5)

Built(j, e) ==
  \/ src[j].tag \in SimpleTags /\ e = j
  \/ /\ e \in j + 1 .. Len(src) /\ src[e].tag = "end" /\ src[e].depth = src[j].depth
     /\ BuiltLoop(j, e) \/ BuiltBranch(j, e)

(* Activation d compiles statement j.                                      *)
Runs(d, j) ==
  /\ src[j].tag = frames[d].tag /\ src[j].cond = frames[d].cond
  /\ src[j].depth = d - 1 /\ src[j].at = frames[d].startPtr
  /\ src[j].cond # NoCond => frames[d].condPtr = src[j].at + CmpLen(src[j].cond)
  /\ frames[d].part = "emit" => src[j].tag \in SimpleTags /\ j = Len(src)
  /\ frames[d].part \in {"loop", "then"} => Within(j, Len(src) + 1, 0)
  /\ frames[d].part = "loop" <=> src[j].tag = "loop" /\ frames[d].part # "done"
  /\ frames[d].part = "else" =>
       \E m \in j + 1 .. Len(src) :
         /\ src[m].tag = "else" /\ src[m].depth = src[j].depth
         /\ Within(j, Len(src) + 1, m)
         /\ src[m].at = frames[d].jumpPastElsePtr
         /\ frames[d].ifBlockEndPtr = src[m].at + 5
  /\ frames[d].part = "done" => Built(j, Len(src))

(* A statement that no activation compiles any more.                       *)
Completed(j) ==
  \E e \in j .. Len(src) :
    Built(j, e) /\ (src[j].tag # "branch" => SkipsTo(j, CodeEnd(e)))

StatementsTracked ==
  /\ \A d \in 1 .. Len(frames) : \E j \in 1 .. Len(src) : Runs(d, j)
  /\ \A d \in 1 .. Len(frames) - 1 : frames[d].part # "done"
  /\ \A j \in 1 .. Len(src) : src[j].tag \in StatementTags =>
       Completed(j) \/ \E d \in 1 .. Len(frames) : Runs(d, j)
  /\ \A e \in 1 .. Len(src) : src[e].tag \in {"else", "end"} => \E j \in 1 .. e : Opens(src, j, e)

----------------------------------------------------------------------------
(* The layout.                                                             *)

(* The code of item i is there.                                            *)
Written(i) == i < Len(src) \/ ~InPart("emit")

(* What code that is.                                                      *)
BodyIs(i) ==
  /\ src[i].tag = "straight" =>
       BodyPtr(i) \in DOMAIN code.at /\ code.at[BodyPtr(i)].op = "straight"
  /\ src[i].tag \in {"return", "endproc"} => 
       BodyPtr(i) \in DOMAIN code.at /\ code.at[BodyPtr(i)] = Ins("ret", 1)
  /\ src[i].tag = "text" =>
       LET behind == code.at[BodyPtr(i)].to
       IN /\ JumpAt(BodyPtr(i), behind) /\ behind \in DOMAIN code.at
          /\ BodyPtr(i) < behind /\ code.at[behind] = Ins("straight", 75)
  /\ src[i].tag # "longhand"

(* Where the code behind item i and its nops ends.                         *)
Ahead(i) ==
  IF i < Len(src) THEN src[i + 1].at
  ELSE IF phase \in {"calls", "done"} THEN entry ELSE code.len

(* The places that will be written: of the then blocks an else block       *)
(* follows, only the last jump past it is, once the then block has ended.  *)
Writable == {t \in Slots : t.role = "else" => frames[t.d].part # "then"}

Outside(p, t) == p < t.p \/ t.p + t.n <= p

(* Nothing but nops that stay between item i and the next.                 *)
Spare(p) == code.at[p] = Nop /\ \A t \in Writable : Outside(p, t)

Gap(i) ==
  \A p \in DOMAIN code.at : CodeEnd(i) <= p /\ p < Ahead(i) =>
    Spare(p) /\ \E j \in 1 .. i : src[j].tag = "branch"

ItemLaid(i) ==
  IF Written(i) THEN BodyIs(i) /\ CodeEnd(i) <= Ahead(i) /\ Gap(i) ELSE BodyPtr(i) <= Ahead(i)

ItemsInOrder ==
  /\ \A i \in 1 .. Len(src) : src[i].at <= code.len
  /\ \A i \in 1 .. Len(src), k \in 1 .. Len(src) : i <= k => src[i].at <= src[k].at
  /\ phase \in {"calls", "done"} => entry <= code.len

LastLaid ==
  /\ InPart("done") => CodeEnd(Len(src)) = code.len
  /\ InPart("then") /\ Top.hasElse /\ Top.jumpPastElsePtr > 0 =>
       Top.jumpPastElsePtr + 5 = code.len /\ CodeEnd(Len(src)) <= Top.jumpPastElsePtr

ItemsLaid == (\A i \in 1 .. Len(src) : ItemLaid(i)) /\ ItemsInOrder /\ LastLaid

(* The program ends with the end of a procedure.                           *)
ProceduresClosed ==
  phase \in {"procs", "calls", "done"} /\ src # <<>> => src[Len(src)].tag = "endproc"

ItemInv == phase # "error" => StatementsTracked /\ ItemsLaid /\ ProceduresClosed

----------------------------------------------------------------------------
(* What is said of the program and of the code stays when items are added  *)
(* and places are written.                                                 *)
LEMMA ItemTypes ==
  ASSUME IInv, NEW i \in 1 .. Len(src)
  PROVE  /\ src[i].depth \in Nat /\ src[i].at \in Nat
         /\ src[i].tag \in StatementTags \cup MarkerTags
         /\ src[i].name \in Names \cup {NoName}
         /\ src[i].cond # NoCond =>
              src[i].cond \in Condition /\ CmpLen(src[i].cond) \in Nat \ {0}
         /\ BodyPtr(i) \in Nat /\ src[i].at <= BodyPtr(i)
<1>1. src[i] \in Items(Names)
  BY ElementOfSeq DEF IInv, TypeOK
<1>2. src[i].cond # NoCond => src[i].cond \in Condition /\ CmpLen(src[i].cond) \in Nat \ {0}
  BY <1>1, ConditionTypes DEF Items
<1> QED BY <1>1, <1>2 DEF Items, BodyPtr

LEMMA SourceLength == IInv => Len(src) \in Nat
  BY LenProperties DEF IInv, TypeOK

LEMMA NotNops ==
  /\ \A to : Jmp(to) # Nop
  /\ \A n : Ins("ret", n) # Nop /\ Ins("straight", n) # Nop
  /\ Nop.op = "nop"
BY DEF Jmp, Ins, Nop

LEMMA JumpStays ==
  ASSUME Keeps(code, code'), NEW p, NEW to, JumpAt(p, to) PROVE JumpAt(p, to)'
BY NotNops DEF JumpAt, Keeps

LEMMA SkipStays ==
  ASSUME Grown(src, src'), Keeps(code, code'),
         NEW j \in 1 .. Len(src), NEW q, SkipsTo(j, q)
  PROVE  SkipsTo(j, q)'
<1>1. src'[j] = src[j]
  BY DEF Grown
<1> QED BY <1>1, NotNops DEF SkipsTo, Keeps

LEMMA WithinStays ==
  ASSUME Grown(src, src'), NEW j \in 1 .. Len(src), NEW e \in 1 .. Len(src) + 1, NEW m,
         Within(j, e, m)
  PROVE  Within(j, e, m)'
<1>1. src'[j] = src[j]
  BY DEF Grown
<1>2. \A k \in j + 1 .. e - 1 : k \in 1 .. Len(src)
  BY DEF Grown
<1>3. \A k \in j + 1 .. e - 1 : src'[k] = src[k]
  BY <1>2 DEF Grown
<1> QED BY <1>1, <1>3 DEF Within

LEMMA BuiltStays ==
  ASSUME Grown(src, src'), Keeps(code, code'),
         NEW j \in 1 .. Len(src), NEW e \in j .. Len(src), Built(j, e)
  PROVE  Built(j, e)' /\ e \in 1 .. Len(src')
<1>1. /\ e \in 1 .. Len(src) + 1 /\ e \in 1 .. Len(src) /\ e \in 1 .. Len(src')
      /\ src'[j] = src[j] /\ src'[e] = src[e]
  BY DEF Grown
<1>2. CASE src[j].tag \in SimpleTags /\ e = j
  BY <1>1, <1>2 DEF Built
<1>3. ASSUME e \in j + 1 .. Len(src), BuiltLoop(j, e) PROVE BuiltLoop(j, e)'
  <2>1. /\ src[j].tag = "loop" /\ Within(j, e, 0) /\ JumpAt(src[e].at, src[j].at)
    BY <1>3 DEF BuiltLoop
  <2>2. PICK p, q : p = src[e].at /\ q = src[j].at
    OBVIOUS
  <2>3. JumpAt(p, q)'
    BY <2>1, <2>2, JumpStays
  <2>4. JumpAt(src[e].at, src[j].at)'
    BY <2>3, <2>2, <1>1 DEF JumpAt
  <2>5. Within(j, e, 0)'
    BY <2>1, <1>1, WithinStays
  <2> QED BY <2>1, <2>4, <2>5, <1>1 DEF BuiltLoop
<1>4. ASSUME e \in j + 1 .. Len(src), BuiltBranch(j, e) PROVE BuiltBranch(j, e)'
  <2>1. CASE Within(j, e, 0) /\ SkipsTo(j, src[e].at)
    <3>1. PICK q : q = src[e].at
      OBVIOUS
    <3>2. SkipsTo(j, q)'
      BY <2>1, <3>1, SkipStays
    <3>3. SkipsTo(j, src[e].at)'
      BY <3>1, <3>2, <1>1 DEF SkipsTo
    <3>4. Within(j, e, 0)'
      BY <2>1, <1>1, WithinStays
    <3> QED BY <1>4, <3>3, <3>4, <1>1 DEF BuiltBranch
  <2>2. ASSUME NEW m \in j + 1 .. e - 1,
               src[m].tag = "else", src[m].depth = src[j].depth, Within(j, e, m),
               JumpAt(src[m].at, src[e].at), SkipsTo(j, src[m].at + 5)
        PROVE  BuiltBranch(j, e)'
    <3>1. m \in 1 .. Len(src)
      BY <1>1 DEF Grown
    <3>2. src'[m] = src[m]
      BY <3>1 DEF Grown
    <3>3. PICK p, q, r : p = src[m].at /\ q = src[e].at /\ r = src[m].at + 5
      OBVIOUS
    <3>4. JumpAt(p, q)' /\ SkipsTo(j, r)'
      BY <2>2, <3>3, SkipStays, JumpStays
    <3>5. JumpAt(src[m].at, src[e].at)' /\ SkipsTo(j, src[m].at + 5)'
      BY <3>2, <3>3, <3>4, <1>1 DEF SkipsTo, JumpAt
    <3>6. Within(j, e, m)'
      BY <2>2, <1>1, WithinStays
    <3> QED BY <1>4, <2>2, <3>2, <3>5, <3>6, <1>1 DEF BuiltBranch
  <2> QED BY <1>4, <2>1, <2>2 DEF BuiltBranch
<1>5. CASE e \in j + 1 .. Len(src)
  <2>1. e \in j + 1 .. Len(src')
    BY <1>5 DEF Grown
  <2> QED BY <1>1, <1>2, <1>3, <1>4, <1>5, <2>1 DEF Built
<1> QED BY <1>1, <1>2, <1>5 DEF Built

(* The block a marker belongs to.                                          *)
LEMMA OpensStays ==
  ASSUME NEW s, NEW t, Grown(s, t), NEW e \in 1 .. Len(s), NEW j, Opens(s, j, e)
  PROVE  Opens(t, j, e)
<1>1. j \in 1 .. Len(s) /\ t[j] = s[j] /\ t[e] = s[e]
  BY DEF Opens, Grown
<1>2. \A k \in j + 1 .. e - 1 : k \in 1 .. Len(s) /\ t[k] = s[k]
  BY <1>1 DEF Grown
<1> QED BY <1>1, <1>2 DEF Opens

LEMMA OpenerStays ==
  ASSUME NEW s, NEW t, Grown(s, t), NEW e \in 1 .. Len(s)
  PROVE  Opener(t, e) = Opener(s, e)
<1>1. t[e] = s[e] /\ \A j \in 1 .. e - 1 : t[j] = s[j]
  BY DEF Grown
<1>2. {j \in 1 .. e - 1 : t[j].tag \in BlockTags /\ t[j].depth = t[e].depth}
        = {j \in 1 .. e - 1 : s[j].tag \in BlockTags /\ s[j].depth = s[e].depth}
  BY <1>1
<1> QED BY <1>2 DEF Opener

LEMMA OpenerIs ==
  ASSUME NEW s \in Seq(Items(Names)), NEW e \in 1 .. Len(s), NEW j, Opens(s, j, e)
  PROVE  Opener(s, e) = j /\ j \in 1 .. Len(s)
<1> DEFINE S == {k \in 1 .. e - 1 : s[k].tag \in BlockTags /\ s[k].depth = s[e].depth}
<1>0. Len(s) \in Nat
  BY LenProperties
<1>1. S \in SUBSET Int /\ j \in S
  BY DEF Opens
<1>2. ASSUME NEW k \in S PROVE k <= j
  <2> SUFFICES ASSUME k \in j + 1 .. e - 1 PROVE FALSE
    BY <1>1
  <2>1. s[k].depth = s[j].depth /\ s[k].tag # "else"
    BY DEF Opens, BlockTags
  <2>2. k \in 1 .. Len(s) /\ j \in 1 .. Len(s)
    BY <1>0 DEF Opens
  <2>3. s[k] \in Items(Names)
    BY <2>2, ElementOfSeq
  <2>4. s[k].depth \in Nat
    BY <2>3 DEF Items
  <2> QED BY <2>1, <2>4 DEF Opens
<1>3. Opener(s, e) = Greatest(S)
  BY DEF Opener
<1>4. j \in 1 .. Len(s)
  BY <1>0 DEF Opens
<1> HIDE DEF S
<1> QED BY <1>1, <1>2, <1>3, <1>4, GreatestIs

(* The code of an item that is there stays.                                *)
LEMMA BodyStays ==
  ASSUME IInv, Grown(src, src'), Keeps(code, code'), NEW i \in 1 .. Len(src), BodyIs(i),
         src[i].tag = "end" => \E j \in 1 .. i : Opens(src, j, i)
  PROVE  /\ BodyIs(i)' /\ BodyPtr(i)' = BodyPtr(i) /\ BodyLen(i)' = BodyLen(i)
         /\ CodeEnd(i)' = CodeEnd(i)
<1>1. src'[i] = src[i]
  BY DEF Grown
<1>2. BodyPtr(i)' = BodyPtr(i)
  BY <1>1 DEF BodyPtr
<1>3. PICK b : b = BodyPtr(i)
  OBVIOUS
<1>4. src[i].tag = "straight" =>
        /\ b \in DOMAIN code'.at /\ code'.at[b] = code.at[b] /\ code.at[b].op = "straight"
  BY <1>3, NotNops DEF BodyIs, Keeps
<1>5. src[i].tag \in {"return", "endproc"} => b \in DOMAIN code'.at /\ code'.at[b] = Ins("ret", 1)
  BY <1>3, NotNops DEF BodyIs, Keeps
<1>6. src[i].tag = "text" =>
        /\ b \in DOMAIN code'.at /\ code'.at[b] = code.at[b]
        /\ LET behind == code.at[b].to
           IN /\ JumpAt(b, behind) /\ JumpAt(b, behind)' /\ behind \in DOMAIN code'.at
              /\ b < behind /\ code'.at[behind] = Ins("straight", 75)
  BY <1>3, NotNops DEF BodyIs, Keeps, JumpAt
<1>7. BodyIs(i)'
  BY <1>1, <1>2, <1>3, <1>4, <1>5, <1>6 DEF BodyIs
<1>8. src[i].tag = "end" => EndsLoop(src', i) = EndsLoop(src, i)
  <2> SUFFICES ASSUME src[i].tag = "end" PROVE EndsLoop(src', i) = EndsLoop(src, i)
    OBVIOUS
  <2>1. PICK j \in 1 .. i : Opens(src, j, i)
    OBVIOUS
  <2>2. Opener(src', i) = j /\ Opener(src, i) = j /\ j \in 1 .. Len(src)
    BY <2>1, OpenerIs, OpenerStays DEF IInv, TypeOK
  <2>3. src'[j] = src[j]
    BY <2>2 DEF Grown
  <2> QED BY <2>2, <2>3, <1>1 DEF EndsLoop
<1> QED BY <1>1, <1>2, <1>3, <1>4, <1>6, <1>7 DEF BodyLen, CodeEnd

(* Activations that go on compiling the statement they compile.            *)
Goes(d) ==
  /\ d \in 1 .. Len(frames) /\ d \in 1 .. Len(frames')
  /\ frames'[d].tag = frames[d].tag /\ frames'[d].cond = frames[d].cond
  /\ frames'[d].part = frames[d].part /\ frames'[d].startPtr = frames[d].startPtr
  /\ frames'[d].condPtr = frames[d].condPtr
  /\ frames'[d].ifBlockEndPtr = frames[d].ifBlockEndPtr
  /\ frames[d].part = "else" => frames'[d].jumpPastElsePtr = frames[d].jumpPastElsePtr
  /\ frames[d].part \in {"emit", "done"} => src' = src
  /\ \A k \in 1 .. Len(src') : k \notin 1 .. Len(src) =>
       src'[k].depth \in Nat /\ src'[k].depth >= d

LEMMA RunsStays ==
  ASSUME IInv, Grown(src, src'), Keeps(code, code'), NEW d, Goes(d),
         NEW j \in 1 .. Len(src), Runs(d, j)
  PROVE  Runs(d, j)' /\ j \in 1 .. Len(src')
<1>1. /\ src'[j] = src[j] /\ j \in 1 .. Len(src') /\ src[j].depth = d - 1
      /\ Len(src) \in Nat /\ Len(src') \in Nat /\ d \in Nat
  BY DEF Grown, Runs, Goes
<1>2. ASSUME NEW m, Within(j, Len(src) + 1, m) PROVE Within(j, Len(src) + 1, m)'
  <2> SUFFICES ASSUME NEW k \in j + 1 .. Len(src'), k # m
               PROVE  src'[k].depth > src[j].depth
    BY <1>1 DEF Within
  <2>1. CASE k \in 1 .. Len(src)
    <3>1. k \in j + 1 .. (Len(src) + 1) - 1 /\ src'[k] = src[k]
      BY <2>1, <1>1 DEF Grown
    <3> QED BY <3>1, <1>2 DEF Within
  <2>2. CASE k \notin 1 .. Len(src)
    <3>1. k \in 1 .. Len(src') /\ src'[k].depth \in Nat /\ src'[k].depth >= d
      BY <2>2, <1>1 DEF Goes
    <3> QED BY <3>1, <1>1
  <2> QED BY <2>1, <2>2
<1>3. frames[d].part = "done" => Built(j, Len(src))'
  <2> SUFFICES ASSUME frames[d].part = "done" PROVE Built(j, Len(src))'
    OBVIOUS
  <2>1. src' = src /\ Len(src) \in j .. Len(src) /\ Built(j, Len(src))
    BY <1>1 DEF Goes, Runs
  <2>2. PICK e \in j .. Len(src) : e = Len(src)
    BY <2>1
  <2>3. Built(j, e)'
    BY <2>1, <2>2, BuiltStays
  <2> QED BY <2>1, <2>2, <2>3
<1>4. frames[d].part = "else" =>
        \E m \in j + 1 .. Len(src') :
          /\ src'[m].tag = "else" /\ src'[m].depth = src'[j].depth
          /\ Within(j, Len(src) + 1, m)'
          /\ src'[m].at = frames'[d].jumpPastElsePtr
          /\ frames'[d].ifBlockEndPtr = src'[m].at + 5
  <2> SUFFICES ASSUME frames[d].part = "else"
               PROVE  \E m \in j + 1 .. Len(src') :
                        /\ src'[m].tag = "else" /\ src'[m].depth = src'[j].depth
                        /\ Within(j, Len(src) + 1, m)'
                        /\ src'[m].at = frames'[d].jumpPastElsePtr
                        /\ frames'[d].ifBlockEndPtr = src'[m].at + 5
    OBVIOUS
  <2>1. PICK m \in j + 1 .. Len(src) :
          /\ src[m].tag = "else" /\ src[m].depth = src[j].depth
          /\ Within(j, Len(src) + 1, m)
          /\ src[m].at = frames[d].jumpPastElsePtr
          /\ frames[d].ifBlockEndPtr = src[m].at + 5
    BY DEF Runs
  <2>2. m \in 1 .. Len(src) /\ m \in j + 1 .. Len(src') /\ src'[m] = src[m]
    BY <1>1 DEF Grown
  <2>3. Within(j, Len(src) + 1, m)'
    BY <2>1, <1>2
  <2> QED BY <2>1, <2>2, <2>3, <1>1 DEF Goes
<1>5. frames[d].part \in {"loop", "then"} => Within(j, Len(src) + 1, 0)'
  BY <1>2 DEF Runs
<1>6. frames[d].part = "emit" => j = Len(src')
  BY DEF Goes, Runs
<1>7. /\ src'[j].tag = frames'[d].tag /\ src'[j].cond = frames'[d].cond
      /\ src'[j].depth = d - 1 /\ src'[j].at = frames'[d].startPtr
      /\ src'[j].cond # NoCond => frames'[d].condPtr = src'[j].at + CmpLen(src'[j].cond)
      /\ frames'[d].part = "emit" => src'[j].tag \in SimpleTags
      /\ frames'[d].part = "loop" <=> src'[j].tag = "loop" /\ frames'[d].part # "done"
      /\ frames'[d].part = frames[d].part
  BY <1>1 DEF Runs, Goes
<1> QED BY <1>1, <1>3, <1>4, <1>5, <1>6, <1>7 DEF Runs

(* A statement that is finished stays finished.                            *)
LEMMA CompletedStays ==
  ASSUME IInv, StatementsTracked, Grown(src, src'), Keeps(code, code'),
         \A i \in 1 .. Len(src) : Written(i) => BodyIs(i),
         NEW j \in 1 .. Len(src), Completed(j), ~ \E d \in 1 .. Len(frames) : Runs(d, j)
  PROVE  Completed(j)'
<1>1. PICK e \in j .. Len(src) :
        Built(j, e) /\ (src[j].tag # "branch" => SkipsTo(j, CodeEnd(e)))
  BY DEF Completed
<1>2. e \in 1 .. Len(src) /\ Len(src) \in Nat /\ Len(src') \in Nat /\ e \in j .. Len(src')
  BY DEF Grown
<1>3. Written(e)
  <2> SUFFICES ASSUME e = Len(src), InPart("emit") PROVE FALSE
    BY <1>2 DEF Written
  <2>1. Len(frames) \in 1 .. Len(frames) /\ frames[Len(frames)].part = "emit"
    BY TopBelow DEF InPart, Top, IInv, TypeOK
  <2>2. PICK i \in 1 .. Len(src) : Runs(Len(frames), i)
    BY <2>1 DEF StatementsTracked
  <2>3. i = e /\ src[e].tag \in SimpleTags
    BY <2>1, <2>2 DEF Runs
  <2>4. e = j
    BY <1>1, <2>3 DEF Built, SimpleTags
  <2> QED BY <2>1, <2>2, <2>3, <2>4
<1>4. src[e].tag = "end" => \E i \in 1 .. e : Opens(src, i, e)
  BY <1>2 DEF StatementsTracked
<1>5. CodeEnd(e)' = CodeEnd(e)
  BY <1>2, <1>3, <1>4, BodyStays
<1>6. Built(j, e)'
  BY <1>1, BuiltStays
<1>7. src[j].tag # "branch" => SkipsTo(j, CodeEnd(e))'
  <2>1. PICK q : q = CodeEnd(e)
    OBVIOUS
  <2>2. src[j].tag # "branch" => SkipsTo(j, q)'
    BY <1>1, <2>1, SkipStays
  <2> QED BY <2>1, <2>2, <1>5 DEF SkipsTo
<1>8. src'[j] = src[j]
  BY DEF Grown
<1> QED BY <1>2, <1>6, <1>7, <1>8 DEF Completed

BodiesAre == \A i \in 1 .. Len(src) : Written(i) => BodyIs(i)

(* What is left to show of a step that leaves the first n activations.     *)
LEMMA TrackedStep ==
  ASSUME IInv, StatementsTracked, BodiesAre, Grown(src, src'), Keeps(code, code'),
         NEW n \in Nat, n <= Len(frames), \A d \in 1 .. n : Goes(d),
         \A d \in 1 .. Len(frames') : d \notin 1 .. n => \E j \in 1 .. Len(src') : Runs(d, j)',
         \A d \in 1 .. Len(frames') - 1 : frames'[d].part # "done",
         \A d \in 1 .. Len(frames), j \in 1 .. Len(src) : d \notin 1 .. n /\ Runs(d, j) =>
           Completed(j)' \/ \E f \in 1 .. Len(frames') : Runs(f, j)',
         \A j \in 1 .. Len(src') : j \notin 1 .. Len(src) /\ src'[j].tag \in StatementTags =>
           \E f \in 1 .. Len(frames') : Runs(f, j)',
         \A e \in 1 .. Len(src') : e \notin 1 .. Len(src) /\ src'[e].tag \in {"else", "end"} =>
           \E j \in 1 .. e : Opens(src', j, e)
  PROVE  StatementsTracked'
<1>1. ASSUME NEW d \in 1 .. Len(frames') PROVE \E j \in 1 .. Len(src') : Runs(d, j)'
  <2> SUFFICES ASSUME d \in 1 .. n PROVE \E j \in 1 .. Len(src') : Runs(d, j)'
    OBVIOUS
  <2>1. Goes(d) /\ d \in 1 .. Len(frames)
    BY DEF Goes
  <2>2. PICK j \in 1 .. Len(src) : Runs(d, j)
    BY <2>1 DEF StatementsTracked
  <2>3. Runs(d, j)' /\ j \in 1 .. Len(src')
    BY <2>1, <2>2, RunsStays
  <2> QED BY <2>3
<1>2. ASSUME NEW j \in 1 .. Len(src'), src'[j].tag \in StatementTags
      PROVE  Completed(j)' \/ \E d \in 1 .. Len(frames') : Runs(d, j)'
  <2> SUFFICES ASSUME j \in 1 .. Len(src)
               PROVE  Completed(j)' \/ \E d \in 1 .. Len(frames') : Runs(d, j)'
    BY <1>2
  <2>1. src[j].tag \in StatementTags
    BY <1>2 DEF Grown
  <2>2. ASSUME NEW d \in 1 .. Len(frames), Runs(d, j)
        PROVE  Completed(j)' \/ \E f \in 1 .. Len(frames') : Runs(f, j)'
    <3>1. CASE d \in 1 .. n
      <4>1. Goes(d) /\ d \in 1 .. Len(frames')
        BY <3>1 DEF Goes
      <4>2. Runs(d, j)'
        BY <2>2, <4>1, RunsStays
      <4> QED BY <4>1, <4>2
    <3> QED BY <2>2, <3>1
  <2>3. CASE Completed(j) /\ ~ \E d \in 1 .. Len(frames) : Runs(d, j)
    BY <2>3, CompletedStays DEF BodiesAre
  <2> QED BY <2>1, <2>2, <2>3 DEF StatementsTracked
<1>3. ASSUME NEW e \in 1 .. Len(src'), src'[e].tag \in {"else", "end"}
      PROVE  \E j \in 1 .. e : Opens(src', j, e)
  <2> SUFFICES ASSUME e \in 1 .. Len(src) PROVE \E j \in 1 .. e : Opens(src', j, e)
    BY <1>3
  <2>1. src[e].tag \in {"else", "end"}
    BY <1>3 DEF Grown
  <2>2. PICK j \in 1 .. e : Opens(src, j, e)
    BY <2>1 DEF StatementsTracked
  <2> QED BY <2>2, OpensStays
<1> QED BY <1>1, <1>2, <1>3 DEF StatementsTracked

----------------------------------------------------------------------------
(* The statements, step by step.                                           *)

(* Steps that leave the program and the activations as they are.           *)
LEMMA StillTracked ==
  ASSUME IInv, StatementsTracked, BodiesAre, Keeps(code, code'), UNCHANGED <<src, frames>>
  PROVE  StatementsTracked'
<1>1. Grown(src, src') /\ Len(frames) \in Nat
  BY SourceSame, LenProperties DEF IInv, TypeOK
<1>2. \A d \in 1 .. Len(frames) : Goes(d)
  BY DEF Goes
<1>3. \A d \in 1 .. Len(frames') - 1 : frames'[d].part # "done"
  BY DEF StatementsTracked
<1> QED BY <1>1, <1>2, <1>3, TrackedStep

(* A procedure begins or ends.                                             *)
LEMMA ProcedureTracked ==
  ASSUME IInv, StatementsTracked, BodiesAre, Keeps(code, code'), frames = <<>>, frames' = <<>>,
         NEW it \in Items(Names), it.tag \in {"proc", "endproc"}, src' = Append(src, it)
  PROVE  StatementsTracked'
<1>1. /\ Grown(src, src') /\ Len(frames) = 0 /\ Len(frames') = 0
      /\ src'[Len(src')] = it
      /\ \A i \in 1 .. Len(src') : i \notin 1 .. Len(src) => i = Len(src')
  BY SourceMore
<1>2. it.tag \notin StatementTags /\ it.tag \notin {"else", "end"}
  BY DEF StatementTags, SimpleTags, BlockTags
<1> QED BY <1>1, <1>2, TrackedStep

(* The code of a simple statement is emitted.                              *)
LEMMA EmitTracked ==
  ASSUME IInv, StatementsTracked, BodiesAre, Keeps(code, code'),
         InPart("emit"), src' = src, frames' = WithTop(Done)
  PROVE  StatementsTracked'
<1>0. PICK n : n = Len(frames)
  OBVIOUS
<1>1. /\ frames # <<>> /\ n \in Nat \ {0} /\ Len(frames') = n /\ frames[n] = Top
      /\ Top.part = "emit"
      /\ \A d \in 1 .. n :
           /\ frames'[d].part = IF d = n THEN "done" ELSE frames[d].part
           /\ frames'[d].tag = frames[d].tag /\ frames'[d].cond = frames[d].cond
           /\ frames'[d].condPtr = frames[d].condPtr
           /\ frames'[d].startPtr = frames[d].startPtr
           /\ frames'[d].jumpPastElsePtr = frames[d].jumpPastElsePtr
           /\ frames'[d].ifBlockEndPtr = frames[d].ifBlockEndPtr
  BY <1>0, DoneFrames DEF InPart
<1>2. n = Len(frames) /\ n \in 1 .. n /\ n - 1 \in Nat
  BY <1>0, <1>1
<1>3. Grown(src, src')
  BY SourceSame
<1>4. \A d \in 1 .. n - 1 : Goes(d)
  BY <1>1, <1>2 DEF Goes
<1>5. \A d \in 1 .. Len(frames') - 1 : frames'[d].part # "done"
  BY <1>1, <1>2, SMTT(30) DEF StatementsTracked
<1>6. ASSUME NEW j \in 1 .. Len(src), Runs(n, j) PROVE Runs(n, j)'
  <2>1. src[j].tag \in SimpleTags /\ j = Len(src) /\ src[j].tag # "loop"
    BY <1>1, <1>6 DEF Runs, SimpleTags
  <2>2. Built(j, Len(src))'
    BY <2>1 DEF Built
  <2> QED BY <1>1, <1>2, <1>6, <2>1, <2>2 DEF Runs
<1>7. PICK j \in 1 .. Len(src) : Runs(n, j)
  BY <1>2 DEF StatementsTracked
<1>8. \A d \in 1 .. n : d \notin 1 .. n - 1 => d = n
  BY <1>1
<1>9. ASSUME NEW d \in 1 .. Len(frames'), d \notin 1 .. n - 1
      PROVE  \E i \in 1 .. Len(src') : Runs(d, i)'
  BY <1>1, <1>6, <1>7, <1>8, <1>9
<1>10. ASSUME NEW d \in 1 .. Len(frames), NEW i \in 1 .. Len(src), d \notin 1 .. n - 1, Runs(d, i)
       PROVE  \E f \in 1 .. Len(frames') : Runs(f, i)'
  BY <1>1, <1>2, <1>6, <1>8, <1>10
<1>11. n - 1 <= Len(frames)
  BY <1>2
<1> QED BY <1>2, <1>3, <1>4, <1>5, <1>9, <1>10, <1>11, TrackedStep

(* A statement is entered.                                                 *)
LEMMA EnterTracked ==
  ASSUME IInv, StatementsTracked, BodiesAre, Keeps(code, code'),
         NEW s \in Statement, EnterStatement(s)
  PROVE  StatementsTracked'
<1>0. PICK n, it, e : n = Len(frames) /\ it = EnteredItem(s) /\ e = Len(src) + 1
  OBVIOUS
<1>1. /\ n \in Nat /\ code.len \in Nat
      /\ s.tag \in StatementTags /\ s.name \in Names \cup {NoName}
      /\ s.cond # NoCond => s.cond \in Condition
      /\ Len(frames') = n + 1 /\ \A d \in 1 .. n : frames'[d] = frames[d]
      /\ frames'[n + 1].tag = s.tag /\ frames'[n + 1].cond = s.cond
      /\ frames'[n + 1].part = FirstPart(s.tag)
      /\ frames'[n + 1].startPtr = code.len
      /\ s.cond # NoCond => frames'[n + 1].condPtr = code.len + CmpLen(s.cond)
  BY <1>0, EnterFrames
<1>2. /\ it \in Items(Names) /\ it.tag = s.tag /\ it.cond = s.cond
      /\ it.depth = n /\ it.at = code.len /\ src' = Append(src, it)
  BY <1>0, <1>1 DEF EnteredItem, Item, Items, EnterStatement
<1>3. /\ Grown(src, src') /\ Len(src') = e /\ src'[e] = it /\ e \in 1 .. e
      /\ \A i \in 1 .. Len(src') : i \notin 1 .. Len(src) => i = e
      /\ e = Len(src')
  BY <1>0, <1>2, SourceMore
<1>4. ASSUME NEW d \in 1 .. n PROVE Goes(d)
  <2>1. d = n => frames[d] = Top /\ frames # <<>>
    BY <1>0 DEF Top
  <2>2. frames[d].part \notin {"emit", "done"}
    <3>1. d = n => frames[d].part \in {"loop", "then", "else"}
      BY <2>1 DEF EnterStatement, InStatementList
    <3>2. d \in 1 .. n - 1 \/ d = n
      BY <1>1
    <3>3. d \in 1 .. n - 1 => frames[d].part # "emit"
      BY <1>0 DEF IInv, FramesOK
    <3>4. d \in 1 .. n - 1 => frames[d].part # "done"
      BY <1>0 DEF StatementsTracked
    <3> QED BY <3>1, <3>2, <3>3, <3>4
  <2> QED BY <1>0, <1>1, <1>2, <1>3, <2>2 DEF Goes
<1>5. \A d \in 1 .. Len(frames') - 1 : frames'[d].part # "done"
  <2>1. ASSUME NEW d \in 1 .. n PROVE frames[d].part # "done"
    <3>1. d \in 1 .. n - 1 \/ d = n
      BY <1>1
    <3>2. n # 0 => frames # <<>> /\ Top = frames[n]
      BY <1>0 DEF Top
    <3>3. n # 0 => frames[n].part # "done"
      BY <3>2 DEF EnterStatement, InStatementList
    <3> QED BY <1>0, <1>1, <3>1, <3>3 DEF StatementsTracked
  <2>2. Len(frames') - 1 = n
    BY <1>1
  <2> QED BY <1>1, <2>1, <2>2
<1>6. PICK top : top = n + 1
  OBVIOUS
<1>7. Runs(top, e)'
  <2>1. src'[e].tag = s.tag /\ src'[e].cond = s.cond /\ src'[e].depth = top - 1
        /\ src'[e].at = code.len
    BY <1>1, <1>2, <1>3, <1>6
  <2>2. frames'[top].part \notin {"else", "done"}
        /\ (frames'[top].part = "loop" <=> s.tag = "loop")
        /\ (frames'[top].part = "emit" => s.tag \in SimpleTags)
    BY <1>1, <1>6 DEF FirstPart, StatementTags, BlockTags
  <2>3. Within(e, Len(src) + 1, 0)'
    BY <1>0, <1>3 DEF Within, Grown
  <2> QED BY <1>1, <1>3, <1>6, <2>1, <2>2, <2>3 DEF Runs
<1>8. it.tag \notin {"else", "end"}
  BY <1>1, <1>2 DEF StatementTags, SimpleTags, BlockTags
<1>9. ASSUME NEW d \in 1 .. Len(frames'), d \notin 1 .. n
      PROVE  \E i \in 1 .. Len(src') : Runs(d, i)'
  <2>1. d = top
    BY <1>1, <1>6, <1>9
  <2> QED BY <1>3, <1>7, <2>1
<1>10. ASSUME NEW j \in 1 .. Len(src'), j \notin 1 .. Len(src)
       PROVE  \E f \in 1 .. Len(frames') : Runs(f, j)'
  BY <1>1, <1>3, <1>6, <1>7, <1>10
<1>11. ASSUME NEW d \in 1 .. Len(frames), d \notin 1 .. n PROVE FALSE
  BY <1>0, <1>11
<1>12. \A i \in 1 .. Len(src') : i \notin 1 .. Len(src) => src'[i].tag \notin {"else", "end"}
  BY <1>3, <1>8
<1>13. n <= Len(frames)
  BY <1>0, <1>1
<1> QED BY <1>1, <1>3, <1>4, <1>5, <1>9, <1>10, <1>11, <1>12, <1>13, TrackedStep

(* The statement that the end of its last list belongs to.                 *)
LEMMA EndOpens ==
  ASSUME IInv, frames # <<>>, Top.part \in {"loop", "then", "else"},
         NEW it \in Items(Names), it.tag = "end", it.depth = Len(frames) - 1,
         src' = Append(src, it),
         NEW j \in 1 .. Len(src), Runs(Len(frames), j), NEW e, e = Len(src')
  PROVE  /\ Opens(src', j, e) /\ src'[j] = src[j] /\ src[j].tag = Top.tag
         /\ Top.tag = IF Top.part = "loop" THEN "loop" ELSE "branch"
<1>0. PICK n : n = Len(frames)
  OBVIOUS
<1>1. n \in Nat \ {0} /\ frames[n] = Top /\ n \in 1 .. n
  BY <1>0, TopBelow DEF IInv, TypeOK, Top
<1>2. /\ Grown(src, src') /\ Len(src') = e /\ src'[e] = it /\ e = Len(src) + 1
      /\ Len(src) \in Nat
  BY SourceMore
<1>3. /\ src'[j] = src[j] /\ j \in 1 .. e - 1
      /\ src[j].tag = Top.tag /\ src[j].depth = n - 1
      /\ Top.tag = IF Top.part = "loop" THEN "loop" ELSE "branch"
  <2>1. /\ src[j].tag = Top.tag /\ src[j].depth = n - 1
        /\ (Top.part = "loop" <=> src[j].tag = "loop" /\ Top.part # "done")
    BY <1>0, <1>1 DEF Runs
  <2>2. Top.part \in {"then", "else"} => Top.tag = "branch"
    BY <1>0, <1>1 DEF IInv, FramesOK, FrameOK
  <2> QED BY <1>2, <2>1, <2>2 DEF Grown
<1>4. ASSUME NEW k \in j + 1 .. e - 1
      PROVE  src'[k].tag = "else" \/ src'[k].depth > src'[j].depth
  <2>1. k \in 1 .. Len(src) /\ k \in j + 1 .. (Len(src) + 1) - 1
    BY <1>2
  <2>2. src'[k] = src[k]
    BY <2>1, <1>2 DEF Grown
  <2>3. src[k].tag = "else" \/ src[k].depth > src[j].depth
    BY <2>1, <1>0, <1>1 DEF Runs, Within
  <2> QED BY <2>2, <2>3, <1>3
<1>5. Opens(src', j, e)
  BY <1>0, <1>2, <1>3, <1>4 DEF Opens, BlockTags
<1> QED BY <1>3, <1>5

(* The last statement list of a block ends.                                *)
LEMMA EndTracked ==
  ASSUME IInv, StatementsTracked, BodiesAre, Keeps(code, code'),
         phase = "body", frames # <<>>, Top.part \in {"loop", "then", "else"},
         frames' = WithTop(Done),
         NEW it \in Items(Names), it.tag = "end", it.depth = Len(frames) - 1,
         src' = Append(src, it),
         \A j \in 1 .. Len(src) : Runs(Len(frames), j) => Built(j, Len(src))'
  PROVE  StatementsTracked'
<1>0. PICK n, e : n = Len(frames) /\ e = Len(src) + 1
  OBVIOUS
<1>1. /\ n \in Nat \ {0} /\ Len(frames') = n /\ frames[n] = Top
      /\ \A d \in 1 .. n :
           /\ frames'[d].part = IF d = n THEN "done" ELSE frames[d].part
           /\ frames'[d].tag = frames[d].tag /\ frames'[d].cond = frames[d].cond
           /\ frames'[d].condPtr = frames[d].condPtr
           /\ frames'[d].startPtr = frames[d].startPtr
           /\ frames'[d].jumpPastElsePtr = frames[d].jumpPastElsePtr
           /\ frames'[d].ifBlockEndPtr = frames[d].ifBlockEndPtr
  BY <1>0, DoneFrames
<1>2. /\ n - 1 \in Nat /\ n \in 1 .. n /\ n - 1 <= Len(frames)
      /\ \A d \in 1 .. n : d \notin 1 .. n - 1 => d = n
  BY <1>0, <1>1
<1>3. /\ Grown(src, src') /\ Len(src') = e /\ src'[e] = it /\ e \in 1 .. e
      /\ \A i \in 1 .. Len(src') : i \notin 1 .. Len(src) => i = e
      /\ Len(src) \in Nat
  BY <1>0, SourceMore
<1>4. ASSUME NEW d \in 1 .. n - 1 PROVE Goes(d)
  <2>1. frames[d].part \notin {"emit", "done"}
    BY <1>0 DEF IInv, FramesOK, StatementsTracked
  <2>2. it.depth \in Nat /\ it.depth >= d
    BY <1>0, <1>1
  <2> QED BY <1>0, <1>1, <1>3, <2>1, <2>2 DEF Goes
<1>5. \A d \in 1 .. Len(frames') - 1 : frames'[d].part # "done"
  <2>1. ASSUME NEW d \in 1 .. n - 1 PROVE frames'[d].part # "done"
    <3>1. d \in 1 .. n /\ d # n /\ d \in 1 .. Len(frames) - 1
      BY <1>0, <1>1
    <3>2. frames'[d].part = frames[d].part
      BY <3>1, <1>1
    <3> QED BY <3>1, <3>2 DEF StatementsTracked
  <2>2. Len(frames') - 1 = n - 1
    BY <1>1
  <2> QED BY <2>1, <2>2
<1>6. ASSUME NEW j \in 1 .. Len(src), Runs(n, j)
      PROVE  Runs(n, j)' /\ Opens(src', j, e) /\ j \in 1 .. Len(src')
  <2>1. Opens(src', j, e) /\ src'[j] = src[j] /\ src[j].tag = Top.tag
        /\ Top.tag = IF Top.part = "loop" THEN "loop" ELSE "branch"
    BY <1>0, <1>3, <1>6, EndOpens
  <2>2. Built(j, Len(src))'
    BY <1>0, <1>6
  <2>3. j \in 1 .. Len(src')
    BY <1>0, <1>3
  <2>4. Runs(n, j)'
    BY <1>1, <1>2, <1>6, <2>1, <2>2 DEF Runs
  <2> QED BY <2>1, <2>3, <2>4
<1>7. PICK j \in 1 .. Len(src) : Runs(n, j)
  BY <1>0, <1>2 DEF StatementsTracked
<1>8. ASSUME NEW d \in 1 .. Len(frames'), d \notin 1 .. n - 1
      PROVE  \E i \in 1 .. Len(src') : Runs(d, i)'
  BY <1>1, <1>2, <1>6, <1>7, <1>8
<1>9. ASSUME NEW d \in 1 .. Len(frames), NEW i \in 1 .. Len(src), d \notin 1 .. n - 1, Runs(d, i)
      PROVE  \E f \in 1 .. Len(frames') : Runs(f, i)'
  BY <1>0, <1>1, <1>2, <1>6, <1>9
<1>10. \A i \in 1 .. Len(src') : i \notin 1 .. Len(src) =>
         src'[i].tag \notin StatementTags /\ \E k \in 1 .. i : Opens(src', k, i)
  <2>1. it.tag \notin StatementTags
    BY DEF StatementTags, SimpleTags, BlockTags
  <2>2. Opens(src', j, e) /\ j \in 1 .. e
    BY <1>0, <1>6, <1>7
  <2> QED BY <1>3, <2>1, <2>2
<1> QED BY <1>2, <1>3, <1>4, <1>5, <1>8, <1>9, <1>10, TrackedStep

LEMMA SkipGoes ==
  ASSUME NEW b, NEW f, NEW to
  PROVE  /\ f.condPtr \in DOMAIN WriteSkip(b, f, to).at
         /\ WriteSkip(b, f, to).at[f.condPtr].op = "jcc"
         /\ WriteSkip(b, f, to).at[f.condPtr].to = to
BY DEF WriteSkip, Patch, Jcc

(* What is compiled when the last statement list of a branch ends.         *)
LEMMA BranchBuilt ==
  ASSUME IInv, EndThen \/ EndElse, NEW j \in 1 .. Len(src), Runs(Len(frames), j)
  PROVE  Built(j, Len(src))'
<1> DEFINE c == Slot("cond", Len(frames), Top.condPtr, 6)
           x == Slot("else", Len(frames), Top.jumpPastElsePtr, 5)
<1>0. PICK n, e, it : n = Len(frames) /\ e = Len(src) + 1 /\ it = Marker("end", n - 1, code.len)
  OBVIOUS
<1>1. /\ phase = "body" /\ frames # <<>> /\ Top.part \in {"then", "else"}
      /\ EndThen => Top.part = "then"
      /\ EndElse => Top.part = "else"
      /\ src' = Append(src, it)
  BY <1>0 DEF EndThen, EndElse, InPart
<1>2. IsBuffer(code) /\ Intact(code) /\ SlotsReserved(Slots, code) /\ IsSlots(Slots)
  BY SlotTypes DEF IInv, TypeOK, CodeIntact, PendingReserved
<1>3. /\ Top \in Frame /\ code.len \in Nat /\ n \in Nat \ {0} /\ frames[n] = Top
      /\ Top.ifBlockEndPtr \in Nat /\ Top.jumpPastElsePtr \in Nat
  <2>1. Top \in Frame /\ n \in Nat \ {0} /\ frames[n] = Top
    BY <1>0, <1>1, TopBelow DEF IInv, TypeOK, Top
  <2> QED BY <2>1, <1>2 DEF Frame, IsBuffer
<1>4. /\ Top.tag = "branch" /\ Top.cond # NoCond /\ CondPending(Top)
      /\ Top.part = "else" => ElsePending(Top)
  <2>1. FrameOK(Top)
    BY <1>0, <1>3 DEF IInv, FramesOK
  <2> QED BY <2>1, <1>1 DEF FrameOK, CondPending, ElsePending
<1>5. c \in Slots /\ (Top.part = "else" => x \in Slots) /\ c # x
      /\ x.n = 5 /\ x.p = Top.jumpPastElsePtr
  <2>1. c \in Slots /\ (Top.part = "else" => x \in Slots)
    BY <1>1, <1>4, TopSlots DEF IInv
  <2>2. c.role = "cond" /\ x.role = "else" /\ x.n = 5 /\ x.p = Top.jumpPastElsePtr
    BY DEF Slot
  <2> QED BY <2>1, <2>2
<1>6. /\ it \in Items(Names) /\ it.tag = "end" /\ it.depth = n - 1 /\ it.at = code.len
      /\ it.cond = NoCond
  BY <1>0, <1>3 DEF Marker, Item, Items, MarkerTags
<1>7. /\ Grown(src, src') /\ Len(src') = e /\ src'[e] = it /\ Len(src) \in Nat
      /\ e \in j + 1 .. Len(src')
  BY <1>0, <1>1, <1>6, SourceMore
<1>8. src[j].tag = "branch" /\ src[j].depth = n - 1 /\ src[j].cond = Top.cond
      /\ Top.condPtr = src[j].at + CmpLen(src[j].cond) /\ src'[j] = src[j]
  BY <1>0, <1>3, <1>4, <1>7 DEF Runs, Grown
<1>9. ASSUME NEW m, Within(j, Len(src) + 1, m) PROVE Within(j, e, m)'
  BY <1>0, <1>7, <1>9, WithinStays
<1>10. CASE EndThen
  <2>1. code' = WriteSkip(code, Top, code.len)
    BY <1>10 DEF EndThen
  <2>2. Top.condPtr \in DOMAIN code'.at /\ code'.at[Top.condPtr].op = "jcc"
        /\ code'.at[Top.condPtr].to = code.len
    BY <2>1, SkipGoes
  <2>3. SkipsTo(j, src[e].at)'
    BY <2>2, <1>6, <1>7, <1>8 DEF SkipsTo
  <2>4. Within(j, e, 0)'
    BY <1>0, <1>1, <1>3, <1>9, <1>10 DEF Runs
  <2>5. BuiltBranch(j, e)'
    BY <2>3, <2>4, <1>8 DEF BuiltBranch
  <2> QED BY <2>5, <1>6, <1>7, <1>8 DEF Built
<1>11. CASE EndElse
  <2> DEFINE i == Jmp(code.len)
             past == Patch(code, {x.p}, i)
  <2>1. code' = WriteSkip(past, Top, Top.ifBlockEndPtr)
    BY <1>11, <1>5 DEF EndElse, WriteJump
  <2>2. i \in Instruction /\ i.len = 5 /\ i.op # "torn"
    BY <1>3, InstructionTypes
  <2>3. x.p \in DOMAIN past.at /\ past.at[x.p] = i
    BY DEF Patch
  <2> HIDE DEF c, x, i
  <2>4. /\ IsBuffer(past) /\ Intact(past) /\ SlotsReserved(Slots \ {x}, past)
    BY <1>1, <1>2, <1>5, <1>11, <2>2, WriteOne
  <2> HIDE DEF past
  <2>5. c \in Slots \ {x} /\ IsSlots(Slots \ {x})
    BY <1>2, <1>5 DEF IsSlots
  <2>6. Keeps(past, code')
    BY <2>1, <2>4, <2>5, <1>3, <1>4, WriteSkipLemma DEF c
  <2>7. x.p \in DOMAIN code'.at /\ code'.at[x.p] = Jmp(code.len)
    BY <2>3, <2>6, NotNops DEF Keeps, i
  <2>8. Top.condPtr \in DOMAIN code'.at /\ code'.at[Top.condPtr].op = "jcc"
        /\ code'.at[Top.condPtr].to = Top.ifBlockEndPtr
    BY <2>1, SkipGoes
  <2>9. PICK m \in j + 1 .. Len(src) :
          /\ src[m].tag = "else" /\ src[m].depth = src[j].depth
          /\ Within(j, Len(src) + 1, m)
          /\ src[m].at = Top.jumpPastElsePtr /\ Top.ifBlockEndPtr = src[m].at + 5
    BY <1>0, <1>1, <1>3, <1>11 DEF Runs
  <2>10. m \in 1 .. Len(src) /\ m \in j + 1 .. e - 1 /\ src'[m] = src[m]
    BY <1>0, <1>7, <2>9 DEF Grown
  <2>11. SkipsTo(j, src[m].at + 5)'
    BY <2>8, <2>9, <2>10, <1>8 DEF SkipsTo
  <2>12. JumpAt(src[m].at, src[e].at)'
    BY <2>7, <2>9, <2>10, <1>5, <1>6, <1>7 DEF JumpAt
  <2>13. Within(j, e, m)'
    BY <2>9, <1>9
  <2>14. BuiltBranch(j, e)'
    BY <2>9, <2>10, <2>11, <2>12, <2>13, <1>8 DEF BuiltBranch
  <2> QED BY <2>14, <1>6, <1>7, <1>8 DEF Built
<1> QED BY <1>10, <1>11

(* Writing behind an instruction leaves it alone.                          *)
LEMMA PatchElsewhere ==
  ASSUME NEW b, NEW S, NEW i, i.len \in Nat \ {0}, NEW p \in Nat, p \in DOMAIN b.at,
         \A s \in S : s \in Nat /\ s + i.len <= p
  PROVE  p \in DOMAIN Patch(b, S, i).at /\ Patch(b, S, i).at[p] = b.at[p]
<1>1. p \notin S /\ ~ \E s \in S : p < s
  OBVIOUS
<1>2. p \in DOMAIN Patch(b, S, i).at
  BY DEF Patch
<1> QED BY <1>1, <1>2 DEF Patch

LEMMA LoopBuilt ==
  ASSUME IInv, EndLoop, NEW j \in 1 .. Len(src), Runs(Len(frames), j)
  PROVE  Built(j, Len(src))'
<1> DEFINE back == JumpBack(code, Top.startPtr)
           broken == WriteJump(back, loopBreaks, back.len)
<1>0. PICK n, e, it : n = Len(frames) /\ e = Len(src) + 1 /\ it = Marker("end", n - 1, code.len)
  OBVIOUS
<1>1. phase = "body" /\ frames # <<>> /\ Top.part = "loop" /\ src' = Append(src, it)
  BY <1>0 DEF EndLoop, InPart
<1>2. code.len \in Nat /\ SlotsReserved(Slots, code)
  BY DEF IInv, TypeOK, IsBuffer, PendingReserved
<1>3. n \in Nat \ {0} /\ frames[n] = Top
  BY <1>0, <1>1, TopBelow DEF IInv, TypeOK, Top
<1>4. /\ it \in Items(Names) /\ it.tag = "end" /\ it.depth = n - 1 /\ it.at = code.len
      /\ it.cond = NoCond
  BY <1>0, <1>2, <1>3 DEF Marker, Item, Items, MarkerTags
<1>5. /\ Grown(src, src') /\ Len(src') = e /\ src'[e] = it /\ Len(src) \in Nat
      /\ e \in j + 1 .. Len(src')
  BY <1>0, <1>1, <1>4, SourceMore
<1>6. src[j].tag = "loop" /\ src[j].depth = n - 1 /\ src[j].at = Top.startPtr
      /\ src'[j] = src[j] /\ Within(j, Len(src) + 1, 0)
  BY <1>0, <1>1, <1>3, <1>5 DEF Runs, Grown
<1>7. code' = Patch(broken, loopContinues, Jmp(Top.startPtr))
      /\ broken = Patch(back, loopBreaks, Jmp(back.len))
  BY DEF EndLoop, WriteJump, BreakTarget
<1>8. code.len \in DOMAIN back.at /\ back.at[code.len] = Jmp(Top.startPtr)
  BY DEF JumpBack, WriteJump, Patch
<1> HIDE DEF back, broken
<1>9. \A p \in loopBreaks \cup loopContinues : p \in Nat /\ p + 5 <= code.len
  <2> SUFFICES ASSUME NEW p \in loopBreaks \cup loopContinues PROVE p \in Nat /\ p + 5 <= code.len
    OBVIOUS
  <2>1. \E role : Slot(role, 0, p, 5) \in Slots
    BY DEF Slots, TableSlots
  <2>2. PICK t \in Slots : t.p = p /\ t.n = 5
    BY <2>1 DEF Slot
  <2>3. p + 5 <= code.len
    BY <2>2, <1>2 DEF SlotsReserved, Reserved
  <2>4. p \in Nat
    BY DEF IInv, TypeOK
  <2> QED BY <2>3, <2>4
<1>10. \A to : Jmp(to).len = 5
  BY DEF Jmp
<1>11. code.len \in DOMAIN broken.at /\ broken.at[code.len] = Jmp(Top.startPtr)
  BY <1>2, <1>7, <1>8, <1>9, <1>10, PatchElsewhere
<1>12. code.len \in DOMAIN code'.at /\ code'.at[code.len] = Jmp(Top.startPtr)
  BY <1>2, <1>7, <1>9, <1>10, <1>11, PatchElsewhere
<1>13. JumpAt(src[e].at, src[j].at)'
  BY <1>12, <1>4, <1>5, <1>6 DEF JumpAt
<1>14. Within(j, e, 0)'
  BY <1>0, <1>5, <1>6, WithinStays
<1>15. BuiltLoop(j, e)'
  BY <1>6, <1>13, <1>14 DEF BuiltLoop
<1> QED BY <1>4, <1>5, <1>6, <1>15 DEF Built

LEMMA BlockEndTracked ==
  ASSUME IInv, StatementsTracked, BodiesAre, Keeps(code, code'), EndLoop \/ EndThen \/ EndElse
  PROVE  StatementsTracked'
<1>0. PICK it : it = Marker("end", Len(frames) - 1, code.len)
  OBVIOUS
<1>1. /\ phase = "body" /\ frames # <<>> /\ Top.part \in {"loop", "then", "else"}
      /\ frames' = WithTop(Done) /\ src' = Append(src, it)
  BY <1>0 DEF EndLoop, EndThen, EndElse, InPart
<1>2. Len(frames) \in Nat \ {0} /\ code.len \in Nat
  BY <1>1, TopBelow DEF IInv, TypeOK, IsBuffer
<1>3. it \in Items(Names) /\ it.tag = "end" /\ it.depth = Len(frames) - 1
  BY <1>0, <1>2 DEF Marker, Item, Items, MarkerTags
<1>4. \A j \in 1 .. Len(src) : Runs(Len(frames), j) => Built(j, Len(src))'
  BY BranchBuilt, LoopBuilt
<1> QED BY <1>1, <1>3, <1>4, EndTracked

(* The else block of a branch begins.                                      *)
LEMMA ElseTracked ==
  ASSUME IInv, StatementsTracked, ItemsLaid, SafeForms, BeginElse
  PROVE  StatementsTracked'
<1>0. PICK n, e, it : /\ n = Len(frames) /\ e = Len(src) + 1
                      /\ it = Marker("else", n - 1, Top.jumpPastElsePtr)
  OBVIOUS
<1>1. /\ phase = "body" /\ frames # <<>> /\ Top.part = "then" /\ Top.hasElse
      /\ Top.jumpPastElsePtr # 0 /\ code' = code /\ src' = Append(src, it)
      /\ frames' = WithTop([Top EXCEPT !.part = "else", !.ifBlockEndPtr = code.len])
  BY <1>0 DEF BeginElse, InPart, OwesStatement, SafeForms
<1>2. /\ n \in Nat \ {0} /\ n - 1 \in Nat /\ Top \in Frame /\ Top.jumpPastElsePtr \in Nat
      /\ n \in 1 .. n
  <2>1. n \in Nat \ {0} /\ Top \in Frame
    BY <1>0, <1>1, TopBelow DEF IInv, TypeOK
  <2> QED BY <2>1 DEF Frame
<1>3. /\ Len(frames') = n /\ frames[n] = Top /\ frames'[n].ifBlockEndPtr = code.len
      /\ \A d \in 1 .. n :
           /\ d # n => frames'[d] = frames[d]
           /\ frames'[d].part = IF d = n THEN "else" ELSE frames[d].part
           /\ frames'[d].tag = frames[d].tag /\ frames'[d].cond = frames[d].cond
           /\ frames'[d].condPtr = frames[d].condPtr
           /\ frames'[d].startPtr = frames[d].startPtr
           /\ frames'[d].jumpPastElsePtr = frames[d].jumpPastElsePtr
  <2>1. Len(frames') = n /\ frames[n] = Top /\ frames' # <<>> /\ Top'.ifBlockEndPtr = code.len
    BY <1>0, ElseFrames
  <2>2. Top' = frames'[n]
    BY <2>1 DEF Top
  <2> QED BY <1>0, <2>1, <2>2, ElseFrames
<1>4. /\ it \in Items(Names) /\ it.tag = "else" /\ it.depth = n - 1 /\ it.cond = NoCond
      /\ it.at = Top.jumpPastElsePtr
  BY <1>0, <1>2 DEF Marker, Item, Items, MarkerTags
<1>5. /\ Grown(src, src') /\ Len(src') = e /\ src'[e] = it /\ e \in 1 .. e
      /\ \A i \in 1 .. Len(src') : i \notin 1 .. Len(src) => i = e
      /\ Len(src) \in Nat
  BY <1>0, <1>1, <1>4, SourceMore
<1>6. Keeps(code, code')
  BY <1>1, KeepsSame DEF IInv, TypeOK
<1>7. ASSUME NEW d \in 1 .. n - 1 PROVE Goes(d)
  <2>1. frames[d].part \notin {"emit", "done"} /\ frames'[d] = frames[d]
    BY <1>0, <1>2, <1>3 DEF IInv, FramesOK, StatementsTracked
  <2>2. it.depth \in Nat /\ it.depth >= d
    BY <1>2, <1>4
  <2> QED BY <1>0, <1>2, <1>3, <1>5, <2>1, <2>2 DEF Goes
<1>8. \A d \in 1 .. Len(frames') - 1 : frames'[d].part # "done"
  <2>1. ASSUME NEW d \in 1 .. n - 1 PROVE frames'[d].part # "done"
    <3>1. d \in 1 .. n /\ d # n /\ d \in 1 .. Len(frames) - 1
      BY <1>0, <1>2
    <3>2. frames'[d] = frames[d]
      BY <3>1, <1>3
    <3> QED BY <3>1, <3>2 DEF StatementsTracked
  <2> QED BY <1>3, <2>1
<1>9. ASSUME NEW j \in 1 .. Len(src), Runs(n, j)
      PROVE  Runs(n, j)' /\ Opens(src', j, e) /\ j \in 1 .. Len(src')
  <2>1. /\ src'[j] = src[j] /\ j \in 1 .. Len(src') /\ j \in 1 .. e - 1
        /\ src[j].tag = "branch" /\ src[j].depth = n - 1 /\ Within(j, Len(src) + 1, 0)
    <3>1. src[j].tag = frames[n].tag /\ src[j].depth = n - 1 /\ Within(j, Len(src) + 1, 0)
      BY <1>1, <1>3, <1>9 DEF Runs
    <3>2. frames[n].tag = "branch"
      BY <1>0, <1>1, <1>2, <1>3 DEF IInv, FramesOK, FrameOK
    <3> QED BY <1>0, <1>5, <3>1, <3>2 DEF Grown
  <2>2. \A k \in j + 1 .. Len(src) : src'[k] = src[k] /\ src[k].depth > src[j].depth
    <3> SUFFICES ASSUME NEW k \in j + 1 .. Len(src)
                 PROVE  src'[k] = src[k] /\ src[k].depth > src[j].depth
      OBVIOUS
    <3>1. k \in 1 .. Len(src) /\ k \in j + 1 .. (Len(src) + 1) - 1 /\ k # 0
      BY <1>5
    <3>2. src'[k] = src[k]
      BY <3>1, <1>5 DEF Grown
    <3> QED BY <3>1, <3>2, <2>1 DEF Within
  <2>3. Within(j, Len(src) + 1, e)'
    <3> SUFFICES ASSUME NEW k \in j + 1 .. Len(src'), k # e PROVE src'[k].depth > src'[j].depth
      BY <1>0, <1>5 DEF Within
    <3>1. k \in j + 1 .. Len(src)
      BY <1>0, <1>5
    <3> QED BY <3>1, <2>1, <2>2
  <2>4. /\ src'[e].tag = "else" /\ src'[e].depth = src'[j].depth
        /\ src'[e].at = frames'[n].jumpPastElsePtr
        /\ frames'[n].ifBlockEndPtr = src'[e].at + 5
        /\ e \in j + 1 .. Len(src')
    <3>1. Top.jumpPastElsePtr + 5 = code.len
      BY <1>1, <1>2 DEF ItemsLaid, LastLaid, InPart
    <3> QED BY <3>1, <1>0, <1>2, <1>3, <1>4, <1>5, <2>1
  <2>5. /\ src'[j].tag = frames'[n].tag /\ src'[j].cond = frames'[n].cond
        /\ src'[j].at = frames'[n].startPtr
        /\ src'[j].cond # NoCond => frames'[n].condPtr = src'[j].at + CmpLen(src'[j].cond)
        /\ frames'[n].part = "else"
    BY <1>2, <1>3, <1>9, <2>1 DEF Runs
  <2>6. Runs(n, j)'
    BY <2>1, <2>3, <2>4, <2>5 DEF Runs
  <2>7. Opens(src', j, e)
    <3>1. \A k \in j + 1 .. e - 1 : src'[k].depth > src'[j].depth
      BY <1>0, <1>5, <2>1, <2>2
    <3> QED BY <3>1, <1>4, <1>5, <2>1 DEF Opens, BlockTags
  <2> QED BY <2>1, <2>6, <2>7
<1>10. PICK j \in 1 .. Len(src) : Runs(n, j)
  BY <1>0, <1>2 DEF StatementsTracked
<1>11. ASSUME NEW d \in 1 .. Len(frames'), d \notin 1 .. n - 1
       PROVE  \E i \in 1 .. Len(src') : Runs(d, i)'
  <2>1. d = n
    BY <1>2, <1>3, <1>11
  <2> QED BY <2>1, <1>9, <1>10
<1>12. ASSUME NEW d \in 1 .. Len(frames), NEW i \in 1 .. Len(src), d \notin 1 .. n - 1, Runs(d, i)
       PROVE  \E f \in 1 .. Len(frames') : Runs(f, i)'
  <2>1. d = n
    BY <1>0, <1>2, <1>12
  <2> QED BY <2>1, <1>2, <1>3, <1>9, <1>12
<1>13. \A i \in 1 .. Len(src') : i \notin 1 .. Len(src) =>
         src'[i].tag \notin StatementTags /\ \E k \in 1 .. i : Opens(src', k, i)
  <2>1. it.tag \notin StatementTags
    BY <1>4 DEF StatementTags, SimpleTags, BlockTags
  <2>2. Opens(src', j, e) /\ j \in 1 .. e
    BY <1>0, <1>9, <1>10
  <2> QED BY <1>5, <2>1, <2>2
<1>14. n - 1 <= Len(frames) /\ BodiesAre
  BY <1>0, <1>2 DEF ItemsLaid, ItemLaid, BodiesAre
<1> QED BY <1>2, <1>5, <1>6, <1>7, <1>8, <1>11, <1>12, <1>13, <1>14, TrackedStep

(* A statement is left.                                                    *)
LEMMA LeaveTracked ==
  ASSUME IInv, StatementsTracked, ItemsLaid, Keeps(code, code'), LeaveStatement
  PROVE  StatementsTracked'
<1>0. PICK n, e : n = Len(frames) /\ e = Len(src)
  OBVIOUS
<1>1. /\ n \in Nat \ {0} /\ n - 1 \in Nat /\ n \in 1 .. n /\ Len(frames') = n - 1
      /\ phase = "body" /\ frames # <<>> /\ Top.part = "done" /\ frames[n] = Top
      /\ src' = src
  BY <1>0, LeaveFrames DEF LeaveStatement, InPart, Top
<1>2. \A d \in 1 .. n - 1 :
        /\ frames'[d].tag = frames[d].tag /\ frames'[d].cond = frames[d].cond
        /\ frames'[d].part = frames[d].part
        /\ frames'[d].condPtr = frames[d].condPtr
        /\ frames'[d].startPtr = frames[d].startPtr
        /\ frames'[d].ifBlockEndPtr = frames[d].ifBlockEndPtr
        /\ frames'[d].part # "then" => frames'[d].jumpPastElsePtr = frames[d].jumpPastElsePtr
  BY <1>0, LeaveFrames
<1>3. Grown(src, src') /\ Len(src) \in Nat
  BY <1>1, SourceSame, SourceLength
<1>4. ASSUME NEW d \in 1 .. n - 1 PROVE Goes(d)
  <2>1. d \in 1 .. Len(frames) /\ d \in 1 .. Len(frames')
    BY <1>0, <1>1
  <2>2. frames[d].part = "else" => frames'[d].jumpPastElsePtr = frames[d].jumpPastElsePtr
    BY <1>2
  <2> QED BY <1>1, <1>2, <2>1, <2>2 DEF Goes
<1>5. \A d \in 1 .. Len(frames') - 1 : frames'[d].part # "done"
  <2> SUFFICES ASSUME NEW d \in 1 .. Len(frames') - 1 PROVE frames'[d].part # "done"
    OBVIOUS
  <2>1. d \in 1 .. n - 1 /\ d \in 1 .. Len(frames) - 1
    BY <1>0, <1>1
  <2> QED BY <1>2, <2>1 DEF StatementsTracked
<1>6. ASSUME NEW j \in 1 .. Len(src), Runs(n, j) PROVE Completed(j)'
  <2>1. Built(j, e) /\ e \in j .. Len(src) /\ src[j].cond = Top.cond /\ src[j].tag = Top.tag
        /\ src[j].at = Top.startPtr
        /\ (src[j].cond # NoCond => Top.condPtr = src[j].at + CmpLen(src[j].cond))
    BY <1>0, <1>1, <1>3, <1>6 DEF Runs
  <2>2. e \in 1 .. Len(src) /\ Written(e) /\ BodyIs(e) /\ CodeEnd(e) = code.len
    <3>1. e \in 1 .. Len(src) /\ Written(e)
      BY <1>0, <1>1, <1>3 DEF Written, InPart
    <3> QED BY <3>1, <1>0, <1>1 DEF ItemsLaid, ItemLaid, LastLaid, InPart
  <2>3. src[e].tag = "end" => \E i \in 1 .. e : Opens(src, i, e)
    BY <2>2 DEF StatementsTracked
  <2>4. CodeEnd(e)' = code.len
    BY <1>3, <2>2, <2>3, BodyStays
  <2>5. Built(j, e)'
    BY <1>3, <2>1, BuiltStays
  <2>6. PICK q : q = code.len
    OBVIOUS
  <2>7. src[j].tag # "branch" => SkipsTo(j, q)'
    <3> SUFFICES ASSUME src[j].tag # "branch", src[j].cond # NoCond
                 PROVE  SkipsTo(j, q)'
      BY <1>1 DEF SkipsTo
    <3> DEFINE skipped == WriteSkip(code, Top, code.len)
    <3>1. code' = skipped \/ code' = EmitNop(skipped, 5)
      BY <2>1 DEF LeaveStatement
    <3>2. /\ Top.condPtr \in DOMAIN skipped.at /\ skipped.at[Top.condPtr].op = "jcc"
          /\ skipped.at[Top.condPtr].to = q
      BY <2>6, SkipGoes
    <3> HIDE DEF skipped
    <3>3. /\ Top.condPtr \in DOMAIN code'.at /\ code'.at[Top.condPtr].op = "jcc"
          /\ code'.at[Top.condPtr].to = q
      BY <3>1, <3>2 DEF EmitNop
    <3> QED BY <3>3, <1>1, <2>1 DEF SkipsTo
  <2>8. src'[j] = src[j] /\ e \in j .. Len(src')
    BY <1>1, <2>1
  <2>9. src[j].tag # "branch" => SkipsTo(j, CodeEnd(e))'
    BY <2>4, <2>6, <2>7 DEF SkipsTo
  <2> QED BY <2>5, <2>8, <2>9 DEF Completed
<1>7. ASSUME NEW d \in 1 .. Len(frames'), d \notin 1 .. n - 1 PROVE FALSE
  BY <1>1, <1>7
<1>8. ASSUME NEW d \in 1 .. Len(frames), NEW i \in 1 .. Len(src), d \notin 1 .. n - 1, Runs(d, i)
      PROVE  Completed(i)'
  <2>1. d = n
    BY <1>0, <1>1, <1>8
  <2> QED BY <2>1, <1>6, <1>8
<1>9. n - 1 <= Len(frames) /\ BodiesAre
  BY <1>0, <1>1 DEF ItemsLaid, ItemLaid, BodiesAre
<1>10. \A i \in 1 .. Len(src') : i \notin 1 .. Len(src) => FALSE
  BY <1>1
<1> QED BY <1>1, <1>3, <1>4, <1>5, <1>7, <1>8, <1>9, <1>10, TrackedStep

LEMMA NextTracked ==
  ASSUME IInv, ItemInv, EmittedItem, SafeForms, Keeps(code, code'), [Next]_vars, phase' # "error"
  PROVE  StatementsTracked'
<1>1. CASE phase = "error"
  BY <1>1 DEF Next, Compile, Returned, BeginProcedure, EndProcedure, StrayLoopControl,
       EnterStatement, InStatementList, BadCondition, EmitStraight, EmitLonghand, EmitBreak,
       EmitContinue, EmitReturn, EmitCallStatement, EmitText, Emitting, InPart, EndLoop,
       BeginElse, EndThen, EndElse, LeaveStatement, CompileStart, LinkCall,
       MissingProcedure, Compiled, vars
<1>2. CASE phase # "error"
  <2>1. StatementsTracked /\ ItemsLaid /\ BodiesAre
    BY <1>2 DEF ItemInv, ItemsLaid, ItemLaid, BodiesAre
  <2>2. CASE \E n \in Names : BeginProcedure(n)
    <3>1. PICK n \in Names : BeginProcedure(n)
      BY <2>2
    <3>2. PICK it : it = Item("proc", NoCond, n, 0, code.len)
      OBVIOUS
    <3>3. it \in Items(Names) /\ it.tag \in {"proc", "endproc"}
      BY <3>2 DEF Item, Items, MarkerTags, IInv, TypeOK, IsBuffer
    <3>4. frames = <<>> /\ frames' = <<>> /\ src' = Append(src, it)
      BY <3>1, <3>2 DEF BeginProcedure, IInv, FramesOK
    <3> QED BY <2>1, <3>3, <3>4, ProcedureTracked
  <2>3. CASE EndProcedure
    <3>1. PICK it : it = Marker("endproc", 0, code.len)
      OBVIOUS
    <3>2. it \in Items(Names) /\ it.tag \in {"proc", "endproc"}
      BY <3>1 DEF Marker, Item, Items, MarkerTags, IInv, TypeOK, IsBuffer
    <3>3. frames = <<>> /\ frames' = <<>> /\ src' = Append(src, it)
      BY <2>3, <3>1 DEF EndProcedure
    <3> QED BY <2>1, <3>2, <3>3, ProcedureTracked
  <2>4. CASE \E s \in Statement : EnterStatement(s)
    BY <2>1, <2>4, EnterTracked
  <2>5. CASE \/ \E n \in BodyLens : EmitStraight(n)
             \/ \E n \in TextLens : EmitText(n)
             \/ EmitBreak \/ EmitContinue \/ EmitReturn \/ EmitCallStatement
    <3>1. InPart("emit") /\ src' = src /\ frames' = WithTop(Done)
      BY <2>5 DEF EmitStraight, EmitText, EmitBreak, EmitContinue, EmitReturn,
           EmitCallStatement, Emitting
    <3> QED BY <2>1, <3>1, EmitTracked
  <2>6. CASE EndLoop \/ EndThen \/ EndElse
    BY <2>1, <2>6, BlockEndTracked
  <2>7. CASE BeginElse
    BY <2>1, <2>7, ElseTracked
  <2>8. CASE LeaveStatement
    BY <2>1, <2>8, LeaveTracked
  <2>9. CASE CompileStart \/ Compiled \/ UNCHANGED vars \/ \E p \in uncalled : LinkCall(p)
    <3>1. UNCHANGED <<src, frames>>
      BY <2>9 DEF CompileStart, Compiled, LinkCall, vars
    <3> QED BY <2>1, <3>1, StillTracked
  <2>10. ~(StrayLoopControl \/ EmitLonghand \/ (\E s \in Statement : BadCondition(s))
            \/ (\E p \in uncalled : MissingProcedure(p)))
    BY DEF StrayLoopControl, EmitLonghand, BadCondition, MissingProcedure
  <2> QED BY <2>2, <2>3, <2>4, <2>5, <2>6, <2>7, <2>8, <2>9, <2>10 DEF Next, Compile, Returned
<1> QED BY <1>1, <1>2

----------------------------------------------------------------------------
(* Writing at places of S leaves the other nops of b, and adds none.       *)
Leaves(b, c, S) ==
  /\ b.len <= c.len
  /\ \A p \in Nat : p < b.len /\ p \in DOMAIN c.at /\ (\A t \in S : Outside(p, t)) =>
       p \in DOMAIN b.at /\ (b.at[p] = Nop => c.at[p] = Nop)

LEMMA LeavesTransitive ==
  ASSUME NEW b, NEW c, NEW d, NEW S, b.len \in Nat, c.len \in Nat, d.len \in Nat,
         Leaves(b, c, S), Leaves(c, d, S)
  PROVE  Leaves(b, d, S)
BY DEF Leaves

LEMMA EmitLeaves ==
  ASSUME NEW b, b.len \in Nat, NEW S, NEW i, i.len \in Nat
  PROVE  Leaves(b, Emit(b, i), S)
BY DEF Leaves, Emit

LEMMA NopLeaves ==
  ASSUME NEW b, b.len \in Nat, NEW S, NEW n \in Nat
  PROVE  Leaves(b, EmitNop(b, n), S)
BY DEF Leaves, EmitNop

LEMMA PatchLeaves ==
  ASSUME NEW b, b.len \in Nat, NEW S, NEW W \in SUBSET Nat,
         NEW i, i.len \in Nat \ {0}, \A s \in W : \E t \in S : t.p = s /\ t.n = i.len
  PROVE  Leaves(b, Patch(b, W, i), S)
<1> DEFINE c == Patch(b, W, i)
<1>1. c.len = b.len
  BY DEF Patch
<1>2. ASSUME NEW p \in Nat, p \in DOMAIN c.at, \A t \in S : Outside(p, t)
      PROVE  p \in DOMAIN b.at /\ (b.at[p] = Nop => c.at[p] = Nop)
  <2>1. p \notin W
    <3> SUFFICES ASSUME p \in W PROVE FALSE
      OBVIOUS
    <3>1. PICK t \in S : t.p = p /\ t.n = i.len
      OBVIOUS
    <3> QED BY <1>2, <3>1 DEF Outside
  <2>2. p \in DOMAIN b.at
    BY <1>2, <2>1 DEF Patch
  <2>3. ASSUME b.at[p] = Nop PROVE c.at[p] = Nop
    <3>1. ~ \E s \in W : p < s /\ s < p + b.at[p].len
      BY <2>3, NopIsInstruction
    <3> QED BY <1>2, <2>1, <2>3, <3>1 DEF Patch
  <2> QED BY <2>2, <2>3
<1> QED BY <1>1, <1>2 DEF Leaves

(* The nops between the items stay.                                        *)
LEMMA SpareStays ==
  ASSUME IInv, Leaves(code, code', Writable), NEW K \in Nat, K <= code.len,
         \A t \in Writable' : t \in Writable \/ (t.p \in Nat /\ K <= t.p),
         NEW p \in Nat, p < K, p \in DOMAIN code'.at, p \in DOMAIN code.at => Spare(p)
  PROVE  p \in DOMAIN code.at /\ Spare(p)'
<1>0. p < code.len
  BY DEF IInv, TypeOK, IsBuffer
<1>1. p \in DOMAIN code.at
  <2>1. CASE \A t \in Writable : Outside(p, t)
    BY <1>0, <2>1 DEF Leaves
  <2>2. ASSUME NEW t \in Writable, ~Outside(p, t) PROVE p \in DOMAIN code.at
    <3>1. t \in Slots /\ t.p \in Nat /\ t.n \in Nat
      BY SlotTypes DEF Writable, IInv, IsSlots
    <3>2. p \in t.p .. t.p + t.n - 1
      BY <2>2, <3>1 DEF Outside
    <3>3. Reserved(code, t.p, t.n)
      BY <3>1 DEF IInv, PendingReserved, SlotsReserved
    <3> QED BY <3>2, <3>3 DEF Reserved
  <2> QED BY <2>1, <2>2
<1>2. Spare(p)
  BY <1>1
<1>3. code'.at[p] = Nop
  BY <1>0, <1>1, <1>2 DEF Spare, Leaves
<1>4. \A t \in Writable' : Outside(p, t)
  BY <1>2 DEF Spare, Outside
<1> QED BY <1>1, <1>3, <1>4 DEF Spare

LEMMA CodeEndTypes ==
  ASSUME IInv, NEW i \in 1 .. Len(src), BodyIs(i)
  PROVE  CodeEnd(i) \in Nat /\ BodyLen(i) \in Nat /\ BodyPtr(i) <= CodeEnd(i)
<1>1. PICK b : b = BodyPtr(i)
  OBVIOUS
<1>2. b \in Nat /\ IsBuffer(code)
  BY <1>1, ItemTypes DEF IInv, TypeOK
<1>3. src[i].tag = "straight" => code.at[b].len \in Nat
  BY <1>1, <1>2 DEF BodyIs, IsBuffer, Instruction
<1>4. src[i].tag = "text" => code.at[b].to + 75 - b \in Nat
  <2> SUFFICES ASSUME src[i].tag = "text" PROVE code.at[b].to + 75 - b \in Nat
    OBVIOUS
  <2>1. code.at[b].to \in DOMAIN code.at /\ b < code.at[b].to
    BY <1>1 DEF BodyIs
  <2>2. code.at[b].to \in Nat
    BY <1>2, <2>1 DEF IsBuffer
  <2> QED BY <1>2, <2>1, <2>2
<1>5. BodyLen(i) \in Nat
  BY <1>1, <1>3, <1>4 DEF BodyLen
<1> QED BY <1>1, <1>2, <1>5 DEF CodeEnd

(* The layout of an item whose code is there stays, up to the next item.   *)
LEMMA LaidStays ==
  ASSUME IInv, IInv', StatementsTracked, Grown(src, src'), Keeps(code, code'),
         Leaves(code, code', Writable), NEW K \in Nat, K <= code.len,
         \A t \in Writable' : t \in Writable \/ (t.p \in Nat /\ K <= t.p),
         NEW i \in 1 .. Len(src), Written(i), ItemLaid(i), Written(i)',
         Ahead(i)' \in Nat, Ahead(i) \in Nat, CodeEnd(i) <= Ahead(i)',
         Ahead(i)' <= Ahead(i), Ahead(i)' <= K
  PROVE  ItemLaid(i)'
<1>1. BodyIs(i) /\ Gap(i) /\ src'[i] = src[i]
  BY DEF ItemLaid, Grown
<1>2. src[i].tag = "end" => \E j \in 1 .. i : Opens(src, j, i)
  BY DEF StatementsTracked
<1>3. BodyIs(i)' /\ CodeEnd(i)' = CodeEnd(i)
  BY <1>1, <1>2, BodyStays
<1>4. CodeEnd(i) \in Nat
  BY <1>1, CodeEndTypes
<1>5. Gap(i)'
  <2> SUFFICES ASSUME NEW p \in DOMAIN code'.at, CodeEnd(i) <= p, p < Ahead(i)'
               PROVE  Spare(p)' /\ \E j \in 1 .. i : src'[j].tag = "branch"
    BY <1>3 DEF Gap
  <2>1. p \in Nat
    BY DEF IInv, TypeOK, IsBuffer
  <2>2. p \in DOMAIN code.at => Spare(p)
    BY <1>1, <1>4, <2>1 DEF Gap
  <2>3. p \in DOMAIN code.at /\ Spare(p)'
    BY <2>1, <2>2, SpareStays
  <2>4. \E j \in 1 .. i : src[j].tag = "branch"
    BY <1>1, <1>4, <2>1, <2>3 DEF Gap
  <2> QED BY <2>3, <2>4, SMTT(30) DEF Grown
<1> QED BY <1>3, <1>5 DEF ItemLaid

(* No place becomes writable but behind all the code.                      *)
WritableGrows == \A t \in Writable' : t \in Writable \/ (t.p \in Nat /\ code.len <= t.p)

LEMMA NoElseBegins ==
  ASSUME PlacesGrow, \A d \in 1 .. Len(frames') : frames'[d].part = "else" => frames[d].part = "else"
  PROVE  WritableGrows
<1> SUFFICES ASSUME NEW t \in Writable', t \in Slots
             PROVE  t \in Writable
  BY DEF WritableGrows, Writable, PlacesGrow
<1> SUFFICES ASSUME t.role = "else" PROVE frames[t.d].part # "then"
  BY DEF Writable
<1>1. t \in Slots' /\ frames'[t.d].part # "then"
  BY DEF Writable
<1>2. \A s \in TableSlots(loopBreaks', loopContinues', uncalled') : s.role # "else"
  BY DEF TableSlots, Slot
<1>3. t \in FrameSlots(frames')
  BY <1>1, <1>2 DEF Slots
<1>4. \A d : \A c : Slot("cond", d, c, 6).role = "cond"
  BY DEF Slot
<1>5. PICK d \in {f \in 1 .. Len(frames') : ElsePending(frames'[f])} :
        t = Slot("else", d, frames'[d].jumpPastElsePtr, 5)
  BY <1>3, <1>4 DEF FrameSlots
<1>6. t.d = d /\ frames'[d].part = "else"
  BY <1>1, <1>5 DEF Slot, ElsePending
<1> QED BY <1>5, <1>6

(* The last item of the program, when its code ends where all code ends.   *)
LEMMA LastItemLaid ==
  ASSUME IInv', NEW e \in 1 .. Len(src'), e = Len(src'), phase' \notin {"calls", "done"},
         BodyIs(e)', CodeEnd(e)' = code'.len, Written(e)'
  PROVE  ItemLaid(e)'
<1>1. Ahead(e)' = code'.len /\ code'.len \in Nat /\ DOMAIN code'.at \subseteq Nat
  BY DEF Ahead, IInv, TypeOK, IsBuffer
<1>2. Gap(e)'
  BY <1>1 DEF Gap
<1> QED BY <1>1, <1>2 DEF ItemLaid

LEMMA OrderStays ==
  ASSUME IInv, ItemsInOrder, Grown(src, src'), code'.len \in Nat, code.len <= code'.len,
         \A i \in 1 .. Len(src') : i \in 1 .. Len(src) \/ i = Len(src'),
         Len(src') \notin 1 .. Len(src) /\ src' # <<>> =>
           /\ src'[Len(src')].at \in Nat /\ src'[Len(src')].at <= code'.len
           /\ \A i \in 1 .. Len(src) : src[i].at <= src'[Len(src')].at,
         phase' \in {"calls", "done"} => entry' <= code'.len
  PROVE  ItemsInOrder'

<1>0. code.len \in Nat /\ Len(src) \in Nat /\ Len(src') \in Nat
  BY DEF Grown, IInv, TypeOK, IsBuffer
<1>1. \A i \in 1 .. Len(src) : src'[i] = src[i] /\ src[i].at \in Nat /\ src[i].at <= code.len
  BY ItemTypes DEF Grown, ItemsInOrder
<1>2. \A i \in 1 .. Len(src') : i \notin 1 .. Len(src) =>
        /\ i = Len(src') /\ src'[i].at \in Nat /\ src'[i].at <= code'.len
        /\ \A k \in 1 .. Len(src) : src[k].at <= src'[i].at
  <2> SUFFICES ASSUME NEW i \in 1 .. Len(src'), i \notin 1 .. Len(src)
               PROVE  /\ i = Len(src') /\ src'[i].at \in Nat /\ src'[i].at <= code'.len
                      /\ \A k \in 1 .. Len(src) : src[k].at <= src'[i].at
    OBVIOUS
  <2>1. i = Len(src')
    OBVIOUS
  <2>2. src' # <<>>
    BY <1>0, LenProperties
  <2> QED BY <2>1, <2>2
<1>3. \A i \in 1 .. Len(src') : src'[i].at <= code'.len
  BY <1>0, <1>1, <1>2
<1>4. ASSUME NEW i \in 1 .. Len(src'), NEW k \in 1 .. Len(src'), i <= k
      PROVE  src'[i].at <= src'[k].at
  <2>1. CASE k \in 1 .. Len(src)
    <3>1. i \in 1 .. Len(src)
      BY <1>0, <1>4, <2>1
    <3> QED BY <1>1, <1>4, <2>1, <3>1 DEF ItemsInOrder
  <2>2. CASE k \notin 1 .. Len(src) /\ i \in 1 .. Len(src)
    BY <1>1, <1>2, <2>2
  <2>3. CASE k \notin 1 .. Len(src) /\ i \notin 1 .. Len(src)
    BY <1>2, <2>3
  <2> QED BY <2>1, <2>2, <2>3
<1> QED BY <1>3, <1>4 DEF ItemsInOrder

(* What is left to show of a step that adds an item where the code ends.   *)
LEMMA MoreLaid ==
  ASSUME IInv, IInv', StatementsTracked, ItemsLaid, Keeps(code, code'),
         Leaves(code, code', Writable), WritableGrows,
         phase \in {"procs", "body"}, phase' \in {"procs", "body"}, ~InPart("emit"),
         NEW it \in Items(Names), src' = Append(src, it), it.at = code.len,
         NEW e \in Nat, e = Len(src'), ItemLaid(e)', LastLaid'
  PROVE  ItemsLaid'
<1>0. e = Len(src) + 1
  BY SourceMore
<1>1. /\ Grown(src, src') /\ Len(src') = e /\ src'[e] = it /\ src' # <<>>
      /\ \A i \in 1 .. Len(src') : i \notin 1 .. Len(src) => i = e
      /\ Len(src) \in Nat
  BY <1>0, SourceMore
<1>2. code.len \in Nat /\ code'.len \in Nat /\ code.len <= code'.len
  BY DEF IInv, TypeOK, IsBuffer, Keeps
<1>3. ItemsInOrder'
  <2>1. \A i \in 1 .. Len(src) : src[i].at <= code.len
    BY DEF ItemsLaid, ItemsInOrder
  <2> QED BY <1>1, <1>2, <2>1, OrderStays DEF ItemsLaid
<1>4. ASSUME NEW i \in 1 .. Len(src) PROVE ItemLaid(i)'
  <2>1. Written(i) /\ Written(i)' /\ ItemLaid(i) /\ i \in 1 .. Len(src')
    BY <1>0, <1>1 DEF Written, ItemsLaid
  <2>2. Ahead(i)' = Ahead(i) /\ Ahead(i) \in Nat /\ Ahead(i) <= code.len
    <3>1. CASE i < Len(src)
      <4>1. i + 1 \in 1 .. Len(src) /\ src'[i + 1] = src[i + 1]
        BY <1>0, <1>1, <3>1 DEF Grown
      <4>2. src[i + 1].at \in Nat /\ src[i + 1].at <= code.len
        BY <4>1, ItemTypes DEF ItemsLaid, ItemsInOrder
      <4> QED BY <1>0, <1>1, <3>1, <4>1, <4>2 DEF Ahead
    <3>2. CASE i = Len(src)
      <4>1. src'[i + 1].at = code.len /\ i + 1 = e
        BY <1>0, <1>1, <3>2
      <4> QED BY <1>0, <1>1, <1>2, <3>2, <4>1 DEF Ahead
    <3> QED BY <1>1, <3>1, <3>2
  <2>3. CodeEnd(i) <= Ahead(i)
    BY <2>1 DEF ItemLaid
  <2> QED BY <1>1, <1>2, <2>1, <2>2, <2>3, LaidStays, SMTT(30) DEF WritableGrows
<1>5. \A i \in 1 .. Len(src') : ItemLaid(i)'
  BY <1>1, <1>4
<1> QED BY <1>3, <1>5 DEF ItemsLaid

(* What is left to show of a step that keeps the program.                  *)
LEMMA SameLaid ==
  ASSUME IInv, IInv', StatementsTracked, ItemsLaid, Keeps(code, code'),
         Leaves(code, code', Writable), WritableGrows,
         src' = src, NEW e \in Nat, e = Len(src),
         phase' = "body" /\ src # <<>> => ItemLaid(e)', LastLaid',
         phase' \in {"calls", "done"} =>
           /\ entry' <= code.len /\ frames = <<>>
           /\ entry' = IF phase \in {"calls", "done"} THEN entry ELSE code.len,
         phase' \in {"body", "calls", "done"}
  PROVE  ItemsLaid'
<1>1. Grown(src, src') /\ Len(src) \in Nat
  BY SourceSame, SourceLength
<1>2. /\ code.len \in Nat /\ code'.len \in Nat /\ code.len <= code'.len
      /\ entry \in Nat /\ entry' \in Nat
  BY DEF IInv, TypeOK, IsBuffer, Keeps
<1>3. ItemsInOrder'
  BY <1>1, <1>2, OrderStays DEF ItemsLaid
<1>4. ASSUME NEW i \in 1 .. Len(src), i = Len(src) => phase' # "body" PROVE ItemLaid(i)'
  <2>1. Written(i) /\ Written(i)' /\ ItemLaid(i) /\ i \in 1 .. Len(src')
    <3>1. i # Len(src) => i < Len(src)
      BY <1>1
    <3>2. i = Len(src) => frames = <<>> /\ phase' # "body"
      BY <1>4
    <3> QED BY <1>1, <3>1, <3>2 DEF Written, ItemsLaid, InPart
  <2>2. Ahead(i)' = Ahead(i) /\ Ahead(i) \in Nat /\ Ahead(i) <= code.len
    <3>1. CASE i < Len(src)
      <4>1. i + 1 \in 1 .. Len(src)
        BY <1>1, <3>1
      <4>2. src[i + 1].at \in Nat /\ src[i + 1].at <= code.len
        BY <4>1, ItemTypes DEF ItemsLaid, ItemsInOrder
      <4> QED BY <3>1, <4>1, <4>2 DEF Ahead
    <3>2. CASE i = Len(src)
      BY <1>2, <1>4, <3>2 DEF Ahead
    <3> QED BY <1>1, <3>1, <3>2
  <2>3. CodeEnd(i) <= Ahead(i)
    BY <2>1 DEF ItemLaid
  <2> QED BY <1>1, <1>2, <2>1, <2>2, <2>3, LaidStays DEF WritableGrows
<1>5. \A i \in 1 .. Len(src') : ItemLaid(i)'
  <2> SUFFICES ASSUME NEW i \in 1 .. Len(src'), i = Len(src) /\ phase' = "body"
               PROVE  ItemLaid(i)'
    BY <1>4
  <2>1. src # <<>> /\ i = e
    BY <1>1
  <2> QED BY <2>1
<1> QED BY <1>3, <1>5 DEF ItemsLaid

LEMMA LeavesSame ==
  ASSUME NEW b, b.len \in Nat, NEW S PROVE Leaves(b, b, S)
BY DEF Leaves

(* A procedure begins or ends.                                             *)
LEMMA ProcedureLaid ==
  ASSUME IInv, IInv', StatementsTracked, ItemsLaid, Keeps(code, code'), PlacesGrow,
         (\E n \in Names : BeginProcedure(n)) \/ EndProcedure
  PROVE  ItemsLaid'
<1>1. PICK it :
        /\ \/ /\ \E n \in Names : it = Item("proc", NoCond, n, 0, code.len)
              /\ phase = "procs" /\ phase' = "body" /\ code' = code
           \/ /\ it = Marker("endproc", 0, code.len)
              /\ phase = "body" /\ phase' = "procs" /\ code' = Emit(code, Ins("ret", 1))
        /\ src' = Append(src, it) /\ frames = <<>> /\ frames' = <<>>
  BY DEF BeginProcedure, EndProcedure, IInv, FramesOK
<1>2. code.len \in Nat /\ code'.len \in Nat
  BY DEF IInv, TypeOK, IsBuffer
<1>3. it \in Items(Names) /\ it.at = code.len /\ it.cond = NoCond /\ it.tag \in {"proc", "endproc"}
  BY <1>1, <1>2 DEF Item, Marker, Items, MarkerTags
<1>4. PICK e : e = Len(src) + 1
  OBVIOUS
<1>5. Len(src') = e /\ src'[e] = it /\ e \in 1 .. Len(src') /\ e \in Nat /\ e = Len(src')
  BY <1>1, <1>3, <1>4, SourceMore
<1>6. Ins("ret", 1).len = 1
  BY DEF Ins
<1>7. Leaves(code, code', Writable)
  BY <1>1, <1>2, <1>6, LeavesSame, EmitLeaves
<1>8. WritableGrows
  BY <1>1, NoElseBegins
<1>9. BodyPtr(e)' = code.len
  BY <1>2, <1>3, <1>5 DEF BodyPtr
<1>10. BodyIs(e)' /\ CodeEnd(e)' = code'.len
  <2>1. CASE it.tag = "proc"
    <3>1. code' = code
      BY <1>1, <2>1 DEF Marker, Item
    <3> QED BY <1>2, <1>5, <1>9, <2>1, <3>1 DEF BodyIs, CodeEnd, BodyLen
  <2>2. CASE it.tag = "endproc"
    <3>1. code' = Emit(code, Ins("ret", 1))
      BY <1>1, <2>2 DEF Marker, Item
    <3>2. code'.len = code.len + 1 /\ code.len \in DOMAIN code'.at
          /\ code'.at[code.len] = Ins("ret", 1)
      BY <3>1, <1>6 DEF Emit
    <3> QED BY <1>2, <1>5, <1>9, <2>2, <3>2 DEF BodyIs, CodeEnd, BodyLen
  <2> QED BY <1>3, <2>1, <2>2
<1>11. ItemLaid(e)'
  BY <1>1, <1>5, <1>10, LastItemLaid DEF Written, InPart
<1>12. LastLaid'
  BY <1>1 DEF LastLaid, InPart
<1>13. ~InPart("emit") /\ phase \in {"procs", "body"} /\ phase' \in {"procs", "body"}
  BY <1>1 DEF InPart
<1> QED BY <1>1, <1>3, <1>5, <1>7, <1>8, <1>11, <1>12, <1>13, MoreLaid

(* A statement is entered.                                                 *)
LEMMA EnterLaid ==
  ASSUME IInv, IInv', StatementsTracked, ItemsLaid, Keeps(code, code'), PlacesGrow,
         NEW s \in Statement, EnterStatement(s)
  PROVE  ItemsLaid'
<1>0. PICK n, it, e : n = Len(frames) /\ it = EnteredItem(s) /\ e = Len(src) + 1
  OBVIOUS
<1>1. /\ n \in Nat /\ code.len \in Nat /\ code'.len \in Nat
      /\ s.tag \in StatementTags /\ s.name \in Names \cup {NoName}
      /\ s.cond # NoCond => s.cond \in Condition /\ CmpLen(s.cond) \in Nat \ {0}
      /\ frames' # <<>> /\ Len(frames') = n + 1 /\ \A d \in 1 .. n : frames'[d] = frames[d]
      /\ Top'.tag = s.tag /\ Top'.part = FirstPart(s.tag) /\ frames'[n + 1] = Top'
      /\ Top'.jumpPastElsePtr = 0
  BY <1>0, EnterFrames DEF IInv, TypeOK, IsBuffer
<1>2. /\ it \in Items(Names) /\ it.tag = s.tag /\ it.cond = s.cond
      /\ it.at = code.len /\ src' = Append(src, it)
  BY <1>0, <1>1 DEF EnteredItem, Item, Items, EnterStatement
<1>3. Len(src') = e /\ src'[e] = it /\ e \in 1 .. Len(src') /\ e \in Nat /\ e = Len(src')
  BY <1>0, <1>2, SourceMore
<1>4. /\ Leaves(code, code', Writable)
      /\ code'.len = code.len + (IF s.cond = NoCond THEN 0 ELSE CmpLen(s.cond) + 6)
  <2>1. CASE s.cond = NoCond
    BY <1>1, <2>1, LeavesSame DEF EnterStatement
  <2>2. CASE s.cond # NoCond
    <3> DEFINE i == Cmp(CmpLen(s.cond), IF s.cond.a = "reg" THEN "ab" ELSE "ba")
    <3>1. code' = EmitNop(Emit(code, i), 6) /\ i.len = CmpLen(s.cond)
      BY <2>2 DEF EnterStatement, EmitCmp, Cmp
    <3> HIDE DEF i
    <3>2. Emit(code, i).len = code.len + CmpLen(s.cond) /\ code'.len = Emit(code, i).len + 6
      BY <3>1 DEF Emit, EmitNop
    <3>3. Leaves(code, Emit(code, i), Writable)
      BY <1>1, <2>2, <3>1, EmitLeaves
    <3>4. Leaves(Emit(code, i), code', Writable)
      <4> PICK b : b = Emit(code, i)
        OBVIOUS
      <4>1. b.len \in Nat /\ code' = EmitNop(b, 6)
        BY <1>1, <2>2, <3>1, <3>2
      <4> QED BY <4>1, NopLeaves
    <3> QED BY <1>1, <2>2, <3>2, <3>3, <3>4, LeavesTransitive
  <2> QED BY <2>1, <2>2
<1>5. WritableGrows
  <2>1. \A d \in 1 .. Len(frames') : d \in 1 .. n \/ d = n + 1
    BY <1>1
  <2>2. FirstPart(s.tag) # "else"
    BY <1>1 DEF FirstPart
  <2> QED BY <1>1, <2>1, <2>2, NoElseBegins
<1>6. BodyPtr(e)' = code'.len
  BY <1>1, <1>2, <1>3, <1>4 DEF BodyPtr
<1>7. phase = "body" /\ phase' = "body" /\ ~InPart("emit")
  BY DEF EnterStatement, InStatementList, InPart
<1>8. ItemLaid(e)'
  <2>1. CASE s.tag \in BlockTags
    <3>1. BodyIs(e)' /\ CodeEnd(e)' = code'.len
      BY <1>1, <1>2, <1>3, <1>6, <2>1 DEF BodyIs, CodeEnd, BodyLen, BlockTags
    <3>2. Written(e)'
      BY <1>1, <2>1 DEF Written, InPart, FirstPart, BlockTags
    <3> QED BY <1>3, <1>7, <3>1, <3>2, LastItemLaid
  <2>2. CASE s.tag \in SimpleTags
    <3>1. ~Written(e)'
      BY <1>1, <1>3, <1>7, <2>2 DEF Written, InPart, FirstPart, SimpleTags
    <3>2. Ahead(e)' = code'.len
      BY <1>3, <1>7 DEF Ahead
    <3> QED BY <1>1, <1>6, <3>1, <3>2 DEF ItemLaid
  <2> QED BY <1>1, <2>1, <2>2 DEF StatementTags
<1>9. LastLaid'
  BY <1>1 DEF LastLaid, InPart, FirstPart
<1> QED BY <1>2, <1>3, <1>4, <1>5, <1>7, <1>8, <1>9, MoreLaid

LEMMA PatchBehindLeaves ==
  ASSUME NEW b, b.len \in Nat, NEW c, NEW S, NEW i, Leaves(b, c, S)
  PROVE  Leaves(b, Patch(c, {b.len}, i), S)
<1> DEFINE d == Patch(c, {b.len}, i)
<1>1. b.len <= d.len
  BY DEF Leaves, Patch
<1>2. ASSUME NEW p \in Nat, p < b.len, p \in DOMAIN d.at, \A t \in S : Outside(p, t)
      PROVE  p \in DOMAIN b.at /\ (b.at[p] = Nop => d.at[p] = Nop)
  <2>1. p \in DOMAIN c.at /\ p \notin {b.len}
    BY <1>2 DEF Patch
  <2>2. p \in DOMAIN b.at /\ (b.at[p] = Nop => c.at[p] = Nop)
    BY <1>2, <2>1 DEF Leaves
  <2>3. ASSUME b.at[p] = Nop PROVE d.at[p] = Nop
    <3>1. c.at[p] = Nop
      BY <2>2, <2>3
    <3>2. ~ \E s \in {b.len} : p < s /\ s < p + c.at[p].len
      BY <3>1, NopIsInstruction
    <3> QED BY <1>2, <2>1, <3>1, <3>2 DEF Patch
  <2> QED BY <2>2, <2>3
<1> QED BY <1>1, <1>2 DEF Leaves

LEMMA EmitIs ==
  ASSUME NEW b, NEW i
  PROVE  /\ DOMAIN Emit(b, i).at = DOMAIN b.at \cup {b.len}
         /\ Emit(b, i).at[b.len] = i
         /\ \A p \in DOMAIN b.at : p # b.len => Emit(b, i).at[p] = b.at[p]
BY SMTT(30) DEF Emit

LEMMA TextCode ==
  ASSUME IInv, NEW m \in TextLens, EmitText(m), Top.startPtr = code.len
  PROVE  \E q \in Nat :
           /\ Leaves(code, code', Writable) /\ code.len + 5 <= q
           /\ code.len \in DOMAIN code'.at /\ code'.at[code.len] = Jmp(q)
           /\ q \in DOMAIN code'.at /\ code'.at[q] = Ins("straight", 75)
           /\ code'.len = q + 75
<1>0. PICK b, c, S, n, reserved, literal, jumped :
        /\ b = code /\ c = code' /\ S = Writable /\ n = m
        /\ reserved = EmitNop(b, 5)
        /\ literal = IF n = 0 THEN reserved ELSE Emit(reserved, Ins("data", n))
        /\ jumped = Patch(literal, {b.len}, Jmp(literal.len))
        /\ c = Emit(jumped, Ins("straight", 75))
  BY ZenonT(40) DEF EmitText, WriteJump
<1>11. b.len \in Nat /\ n \in Nat
  BY <1>0, CodeGenAssumption DEF IInv, TypeOK, IsBuffer
<1>1. reserved.len = b.len + 5 /\ Leaves(b, reserved, S)
  BY <1>0, <1>11, NopLeaves DEF EmitNop
<1>2. Ins("data", n).len = n /\ Ins("straight", 75).len = 75
  BY DEF Ins
<1>3. literal.len = b.len + 5 + n /\ Leaves(reserved, literal, S)
  <2>1. CASE n = 0
    BY <1>0, <1>1, <1>11, <2>1, LeavesSame
  <2>2. CASE n # 0
    <3>1. PICK i : i = Ins("data", n)
      OBVIOUS
    <3>2. literal = Emit(reserved, i) /\ i.len \in Nat /\ i.len = n /\ reserved.len \in Nat
      BY <1>0, <1>1, <1>2, <1>11, <2>2, <3>1
    <3>3. Leaves(reserved, literal, S)
      BY <3>2, EmitLeaves
    <3> QED BY <1>1, <1>11, <3>2, <3>3 DEF Emit
  <2> QED BY <2>1, <2>2
<1>4. Leaves(b, literal, S)
  BY <1>1, <1>3, <1>11, LeavesTransitive, SMTT(30)
<1>5. jumped.len = literal.len /\ Leaves(b, jumped, S)
  BY <1>0, <1>4, <1>11, PatchBehindLeaves, SMTT(30) DEF Patch
<1>6. b.len \in DOMAIN jumped.at /\ jumped.at[b.len] = Jmp(literal.len)
  BY <1>0 DEF Patch
<1>7. c.len = literal.len + 75 /\ Leaves(jumped, c, S)
  <2>1. PICK i : i = Ins("straight", 75)
    OBVIOUS
  <2>2. c = Emit(jumped, i) /\ i.len \in Nat /\ i.len = 75 /\ jumped.len \in Nat
    BY <1>0, <1>2, <1>3, <1>5, <1>11, <2>1
  <2>3. Leaves(jumped, c, S)
    BY <2>2, EmitLeaves
  <2>4. c.len = jumped.len + i.len
    BY <2>2 DEF Emit
  <2> QED BY <1>5, <2>2, <2>3, <2>4
<1>8. Leaves(b, c, S)
  BY <1>3, <1>5, <1>7, <1>11, LeavesTransitive
<1>9. /\ b.len \in DOMAIN c.at /\ c.at[b.len] = Jmp(literal.len)
      /\ literal.len \in DOMAIN c.at /\ c.at[literal.len] = Ins("straight", 75)
  <2>1. b.len # jumped.len
    BY <1>3, <1>5, <1>11
  <2>2. /\ DOMAIN c.at = DOMAIN jumped.at \cup {jumped.len}
        /\ c.at[jumped.len] = Ins("straight", 75)
        /\ \A p \in DOMAIN jumped.at : p # jumped.len => c.at[p] = jumped.at[p]
    BY <1>0, EmitIs
  <2>3. jumped.len = literal.len
    BY <1>5
  <2> QED BY <1>6, <2>1, <2>2, <2>3
<1>10. literal.len \in Nat /\ b.len + 5 <= literal.len
  BY <1>3, <1>11
<1> QED BY <1>0, <1>7, <1>8, <1>9, <1>10

(* The code of a simple statement is emitted.                              *)
LEMMA EmitLaid ==
  ASSUME IInv, IInv', StatementsTracked, ItemsLaid, EmittedItem, Keeps(code, code'), PlacesGrow,
         \/ \E n \in BodyLens : EmitStraight(n)
         \/ \E n \in TextLens : EmitText(n)
         \/ EmitBreak \/ EmitContinue \/ EmitReturn \/ EmitCallStatement
  PROVE  ItemsLaid'
<1>0. PICK e, x : e = Len(src) /\ x = code.len
  OBVIOUS
<1>1. /\ InPart("emit") /\ src' = src /\ frames' = WithTop(Done) /\ phase = "body" /\ phase' = "body"
      /\ Top.tag \in {"straight", "text", "break", "continue", "return", "call"}
      /\ frames # <<>>
  BY DEF EmitStraight, EmitText, EmitBreak, EmitContinue, EmitReturn,
         EmitCallStatement, Emitting, InPart
<1>2. /\ e \in 1 .. Len(src) /\ e \in Nat /\ src[e].tag = Top.tag /\ BodyPtr(e) = x
      /\ src' # <<>> /\ e = Len(src')
  <2>1. e \in Nat
    BY <1>0, SourceLength
  <2> QED BY <1>0, <1>1, <2>1, LenProperties DEF EmittedItem, IInv, TypeOK
<1>3. BodyPtr(e)' = x /\ src'[e].tag = Top.tag
  BY <1>1, <1>2 DEF BodyPtr
<1>4. x \in Nat /\ code'.len \in Nat
  BY <1>0 DEF IInv, TypeOK, IsBuffer
<1>5. Leaves(code, code', Writable) /\ BodyIs(e)' /\ CodeEnd(e)' = code'.len
  <2>1. CASE \E n \in BodyLens : EmitStraight(n)
    <3>1. PICK n \in BodyLens : EmitStraight(n)
      BY <2>1
    <3>2. n \in Nat \ {0} /\ Ins("straight", n).len = n /\ Ins("straight", n).op = "straight"
      BY CodeGenAssumption DEF Ins
    <3>3. code' = Emit(code, Ins("straight", n)) /\ Top.tag = "straight"
      BY <3>1 DEF EmitStraight, Emitting
    <3>4. x \in DOMAIN code'.at /\ code'.at[x] = Ins("straight", n) /\ code'.len = x + n
      BY <1>0, <3>2, <3>3 DEF Emit
    <3>5. Leaves(code, code', Writable)
      BY <1>0, <1>4, <3>2, <3>3, EmitLeaves
    <3> QED BY <1>3, <3>2, <3>3, <3>4, <3>5 DEF BodyIs, CodeEnd, BodyLen
  <2>2. CASE EmitReturn
    <3>1. code' = Emit(code, Ins("ret", 1)) /\ Top.tag = "return"
      BY <2>2 DEF EmitReturn, Emitting
    <3>2. Ins("ret", 1).len = 1
      BY DEF Ins
    <3>3. x \in DOMAIN code'.at /\ code'.at[x] = Ins("ret", 1) /\ code'.len = x + 1
      BY <1>0, <3>1, <3>2 DEF Emit
    <3>4. Leaves(code, code', Writable)
      BY <1>0, <1>4, <3>1, <3>2, EmitLeaves
    <3> QED BY <1>3, <3>1, <3>3, <3>4 DEF BodyIs, CodeEnd, BodyLen
  <2>3. CASE EmitBreak \/ EmitContinue \/ EmitCallStatement
    <3>1. code' = EmitNop(code, 5) /\ Top.tag \in {"break", "continue", "call"}
      BY <2>3 DEF EmitBreak, EmitContinue, EmitCallStatement, Emitting
    <3>2. code'.len = x + 5
      BY <1>0, <3>1 DEF EmitNop
    <3>3. Leaves(code, code', Writable)
      BY <1>0, <1>4, <3>1, NopLeaves
    <3> QED BY <1>3, <3>1, <3>2, <3>3 DEF BodyIs, CodeEnd, BodyLen
  <2>4. CASE \E n \in TextLens : EmitText(n)
    <3>1. PICK n \in TextLens : EmitText(n)
      BY <2>4
    <3>2. n \in Nat /\ Top.tag = "text" /\ Top.startPtr = x
      BY <1>0, <1>1, <3>1, CodeGenAssumption DEF EmitText, Emitting, IInv, FramesOK, InPart
    <3>3. PICK y \in Nat :
            /\ Leaves(code, code', Writable) /\ x + 5 <= y
            /\ x \in DOMAIN code'.at /\ code'.at[x] = Jmp(y)
            /\ y \in DOMAIN code'.at /\ code'.at[y] = Ins("straight", 75)
            /\ code'.len = y + 75
      BY <1>0, <3>1, <3>2, TextCode
    <3>6. code'.at[x].to = y
      BY <3>3 DEF Jmp
    <3>7. BodyIs(e)'
      BY <1>3, <1>4, <3>2, <3>3, <3>6 DEF BodyIs, JumpAt
    <3>8. CodeEnd(e)' = code'.len
      BY <1>3, <1>4, <3>2, <3>3, <3>6 DEF CodeEnd, BodyLen
    <3> QED BY <3>3, <3>7, <3>8
  <2> QED BY <2>1, <2>2, <2>3, <2>4
<1>6. Len(frames') = Len(frames) /\ Len(frames) \in Nat \ {0} /\ Top'.part = "done"
      /\ \A d \in 1 .. Len(frames) :
           frames'[d].part = IF d = Len(frames) THEN "done" ELSE frames[d].part
  BY <1>1, DoneFrames
<1>7. WritableGrows
  BY <1>6, NoElseBegins
<1>8. LastLaid'
  BY <1>1, <1>2, <1>5, <1>6 DEF LastLaid, InPart
<1>9. ItemLaid(e)'
  <2>1. Written(e)'
    BY <1>6 DEF Written, InPart
  <2> QED BY <1>1, <1>2, <1>5, <2>1, LastItemLaid
<1> QED BY <1>0, <1>1, <1>2, <1>5, <1>7, <1>8, <1>9, SameLaid

(* The last statement list of a block ends.                                *)
LEMMA EndLoopLeaves ==
  ASSUME IInv, EndLoop
  PROVE  Leaves(code, code', Writable) /\ code'.len = code.len + 5
<1> DEFINE reserved == EmitNop(code, 5)
           back == Patch(reserved, {code.len}, Jmp(Top.startPtr))
           broken == Patch(back, loopBreaks, Jmp(back.len))
<1>1. code.len \in Nat /\ loopBreaks \in SUBSET Nat /\ loopContinues \in SUBSET Nat
  BY DEF IInv, TypeOK, IsBuffer
<1>2. code' = Patch(broken, loopContinues, Jmp(Top.startPtr))
  BY DEF EndLoop, WriteJump, BreakTarget, JumpBack
<1>3. reserved.len = code.len + 5 /\ Leaves(code, reserved, Writable)
  BY <1>1, NopLeaves DEF EmitNop
<1> HIDE DEF reserved
<1>4. back.len = code.len + 5 /\ Leaves(code, back, Writable)
  BY <1>1, <1>3, PatchBehindLeaves DEF Patch
<1> HIDE DEF back
<1>5. /\ \A s \in loopBreaks : \E t \in Writable : t.p = s /\ t.n = 5
      /\ \A s \in loopContinues : \E t \in Writable : t.p = s /\ t.n = 5
  <2>1. /\ \A s \in loopBreaks : Slot("break", 0, s, 5) \in Writable
        /\ \A s \in loopContinues : Slot("continue", 0, s, 5) \in Writable
    BY DEF Writable, Slots, TableSlots, Slot
  <2>2. \A r, s : Slot(r, 0, s, 5).p = s /\ Slot(r, 0, s, 5).n = 5
    BY DEF Slot
  <2> QED BY <2>1, <2>2
<1>6. \A to : Jmp(to).len = 5
  BY DEF Jmp
<1>7. broken.len = code.len + 5 /\ Leaves(back, broken, Writable)
  <2>1. PICK i : i = Jmp(back.len)
    OBVIOUS
  <2>2. i.len = 5 /\ i.len \in Nat \ {0} /\ back.len \in Nat /\ broken = Patch(back, loopBreaks, i)
    BY <1>1, <1>4, <1>6, <2>1
  <2>3. Leaves(back, broken, Writable)
    BY <1>1, <1>5, <2>2, PatchLeaves
  <2> QED BY <1>4, <2>2, <2>3 DEF Patch
<1> HIDE DEF broken
<1>8. code'.len = code.len + 5 /\ Leaves(broken, code', Writable)
  <2>1. PICK i : i = Jmp(Top.startPtr)
    OBVIOUS
  <2>2. i.len = 5 /\ i.len \in Nat \ {0} /\ broken.len \in Nat /\ code' = Patch(broken, loopContinues, i)
    BY <1>1, <1>2, <1>6, <1>7, <2>1
  <2>3. Leaves(broken, code', Writable)
    BY <1>1, <1>5, <2>2, PatchLeaves
  <2> QED BY <1>7, <2>2, <2>3 DEF Patch
<1>9. Leaves(code, broken, Writable)
  BY <1>1, <1>4, <1>7, LeavesTransitive
<1> QED BY <1>1, <1>7, <1>8, <1>9, LeavesTransitive

LEMMA SkipLeaves ==
  ASSUME NEW b, b.len \in Nat, NEW S, NEW f, f.condPtr \in Nat, NEW to,
         \E t \in S : t.p = f.condPtr /\ t.n = 6
  PROVE  Leaves(b, WriteSkip(b, f, to), S) /\ WriteSkip(b, f, to).len = b.len
<1>1. PICK i : i = Jcc(SkipComparison(f.cond), to)
  OBVIOUS
<1>2. i.len = 6 /\ i.len \in Nat \ {0} /\ WriteSkip(b, f, to) = Patch(b, {f.condPtr}, i)
  BY <1>1 DEF Jcc, WriteSkip
<1>3. Leaves(b, Patch(b, {f.condPtr}, i), S)
  BY <1>2, PatchLeaves
<1> QED BY <1>2, <1>3 DEF Patch

LEMMA EndBranchLeaves ==
  ASSUME IInv, EndThen \/ EndElse
  PROVE  Leaves(code, code', Writable) /\ code'.len = code.len
<1> DEFINE c == Slot("cond", Len(frames), Top.condPtr, 6)
           x == Slot("else", Len(frames), Top.jumpPastElsePtr, 5)
<1>1. /\ frames # <<>> /\ Top.part \in {"then", "else"}
      /\ EndElse => Top.part = "else"
  BY DEF EndThen, EndElse, InPart
<1>2. /\ Top \in Frame /\ code.len \in Nat /\ frames[Len(frames)] = Top
      /\ Top.condPtr \in Nat /\ Top.jumpPastElsePtr \in Nat /\ Len(frames) \in 1 .. Len(frames)
  <2>1. Top \in Frame /\ Len(frames) \in 1 .. Len(frames) /\ frames[Len(frames)] = Top
    BY <1>1, TopBelow DEF IInv, TypeOK, Top
  <2> QED BY <2>1 DEF Frame, IInv, TypeOK, IsBuffer
<1>3. CondPending(Top) /\ (Top.part = "else" => ElsePending(Top))
  <2>1. FrameOK(Top)
    BY <1>2 DEF IInv, FramesOK
  <2> QED BY <2>1, <1>1 DEF FrameOK, CondPending, ElsePending
<1>4. /\ c \in Slots /\ (Top.part = "else" => x \in Slots)
      /\ c.role = "cond" /\ c.p = Top.condPtr /\ c.n = 6
      /\ x.role = "else" /\ x.d = Len(frames) /\ x.p = Top.jumpPastElsePtr /\ x.n = 5
  <2>1. c \in Slots /\ (Top.part = "else" => x \in Slots)
    BY <1>1, <1>3, TopSlots DEF IInv
  <2>2. c.role = "cond" /\ c.p = Top.condPtr /\ c.n = 6
    BY DEF Slot
  <2>3. x.role = "else" /\ x.d = Len(frames) /\ x.p = Top.jumpPastElsePtr /\ x.n = 5
    BY DEF Slot
  <2> QED BY <2>1, <2>2, <2>3
<1> HIDE DEF c, x
<1>5. c \in Writable /\ (Top.part = "else" => x \in Writable)
  BY <1>2, <1>4 DEF Writable
<1>8. \E t \in Writable : t.p = Top.condPtr /\ t.n = 6
  BY <1>4, <1>5
<1>6. CASE EndThen
  <2>1. code' = WriteSkip(code, Top, code.len)
    BY <1>6 DEF EndThen
  <2> QED BY <2>1, <1>2, <1>8, SkipLeaves
<1>7. CASE EndElse
  <2>1. PICK i : i = Jmp(code.len)
    OBVIOUS
  <2> DEFINE past == Patch(code, {Top.jumpPastElsePtr}, i)
  <2>2. code' = WriteSkip(past, Top, Top.ifBlockEndPtr)
    BY <1>7, <2>1 DEF EndElse, WriteJump
  <2>3. i.len = 5 /\ i.len \in Nat \ {0}
    BY <2>1 DEF Jmp
  <2>4. Leaves(code, past, Writable)
    BY <1>1, <1>2, <1>4, <1>5, <1>7, <2>3, PatchLeaves
  <2>5. past.len = code.len
    BY DEF Patch
  <2> HIDE DEF past
  <2>6. Leaves(past, code', Writable) /\ code'.len = code.len
    <3>1. PICK b : b = past
      OBVIOUS
    <3>2. b.len \in Nat /\ b.len = code.len /\ code' = WriteSkip(b, Top, Top.ifBlockEndPtr)
      BY <1>2, <2>2, <2>5, <3>1
    <3> PICK f, to : f = Top /\ to = Top.ifBlockEndPtr
      OBVIOUS
    <3>4. b.len \in Nat /\ f.condPtr \in Nat /\ \E t \in Writable : t.p = f.condPtr /\ t.n = 6
      BY <1>2, <1>8, <3>2
    <3>5. Leaves(b, WriteSkip(b, f, to), Writable) /\ WriteSkip(b, f, to).len = b.len
      BY <3>4, SkipLeaves
    <3>3. Leaves(b, code', Writable) /\ code'.len = b.len
      BY <3>2, <3>5
    <3> QED BY <3>1, <3>2, <3>3
  <2> QED BY <1>2, <2>4, <2>5, <2>6, LeavesTransitive
<1> QED BY <1>6, <1>7

LEMMA BlockEndLaid ==
  ASSUME IInv, IInv', StatementsTracked, ItemsLaid, Keeps(code, code'), PlacesGrow,
         EndLoop \/ EndThen \/ EndElse
  PROVE  ItemsLaid'
<1>0. PICK n, e, it : n = Len(frames) /\ e = Len(src) + 1 /\ it = Marker("end", n - 1, code.len)
  OBVIOUS
<1>1. /\ phase = "body" /\ phase' = "body" /\ frames # <<>>
      /\ Top.part \in {"loop", "then", "else"} /\ (EndLoop <=> Top.part = "loop")
      /\ frames' = WithTop(Done) /\ src' = Append(src, it)
  BY <1>0 DEF EndLoop, EndThen, EndElse, InPart
<1>2. n \in Nat \ {0} /\ code.len \in Nat /\ frames[n] = Top /\ n \in 1 .. Len(frames)
  BY <1>0, <1>1, TopBelow DEF IInv, TypeOK, IsBuffer, Top
<1>3. it \in Items(Names) /\ it.tag = "end" /\ it.depth = n - 1 /\ it.at = code.len
      /\ it.cond = NoCond
  BY <1>0, <1>2 DEF Marker, Item, Items, MarkerTags
<1>4. /\ Len(src') = e /\ src'[e] = it /\ e \in 1 .. Len(src') /\ e \in Nat /\ e = Len(src')
      /\ src' # <<>>
  BY <1>0, <1>1, <1>3, SourceMore
<1>5. Leaves(code, code', Writable) /\ code'.len = code.len + (IF Top.part = "loop" THEN 5 ELSE 0)
  <2>1. CASE EndLoop
    BY <1>1, <2>1, EndLoopLeaves
  <2>2. CASE EndThen \/ EndElse
    <3>1. Top.part # "loop"
      BY <2>2 DEF EndThen, EndElse, InPart
    <3> QED BY <1>2, <2>2, <3>1, EndBranchLeaves
  <2> QED BY <2>1, <2>2
<1>6. Len(frames') = n /\ Top'.part = "done"
      /\ \A d \in 1 .. n : frames'[d].part = IF d = n THEN "done" ELSE frames[d].part
  BY <1>0, <1>1, DoneFrames
<1>7. WritableGrows
  BY <1>6, NoElseBegins
<1>8. BodyIs(e)' /\ CodeEnd(e)' = code'.len
  <2>1. PICK j \in 1 .. Len(src) : Runs(n, j)
    BY <1>2 DEF StatementsTracked
  <2>2. Opens(src', j, e) /\ (src'[j].tag = "loop" <=> Top.part = "loop")
    BY <1>0, <1>1, <1>3, <1>4, <2>1, EndOpens
  <2>3. Opener(src', e) = j
    BY <1>4, <2>2, OpenerIs DEF IInv, TypeOK
  <2>4. EndsLoop(src', e) <=> Top.part = "loop"
    BY <1>3, <1>4, <2>2, <2>3 DEF EndsLoop
  <2>5. BodyPtr(e)' = code.len
    BY <1>2, <1>3, <1>4 DEF BodyPtr
  <2>6. BodyLen(e)' = IF Top.part = "loop" THEN 5 ELSE 0
    BY <1>3, <1>4, <2>4 DEF BodyLen
  <2>7. BodyIs(e)'
    BY <1>3, <1>4 DEF BodyIs
  <2> QED BY <1>5, <2>5, <2>6, <2>7 DEF CodeEnd
<1>9. LastLaid'
  BY <1>1, <1>4, <1>6, <1>8 DEF LastLaid, InPart
<1>10. ItemLaid(e)'
  <2>1. Written(e)'
    BY <1>6 DEF Written, InPart
  <2> QED BY <1>1, <1>4, <1>8, <2>1, LastItemLaid
<1>11. ~InPart("emit")
  BY <1>1 DEF InPart
<1> QED BY <1>1, <1>3, <1>4, <1>5, <1>7, <1>9, <1>10, <1>11, MoreLaid

(* An else block begins.                                                   *)
LEMMA ElsePlaces ==
  ASSUME NEW t \in Slots, t.role = "else"
  PROVE  t.d \in 1 .. Len(frames) /\ t.p = frames[t.d].jumpPastElsePtr
<1>1. \A s \in TableSlots(loopBreaks, loopContinues, uncalled) : s.role # "else"
  BY DEF TableSlots, Slot
<1>2. \A d : \A c : Slot("cond", d, c, 6).role = "cond"
  BY DEF Slot
<1>3. PICK d \in {f \in 1 .. Len(frames) : ElsePending(frames[f])} :
        t = Slot("else", d, frames[d].jumpPastElsePtr, 5)
  BY <1>1, <1>2 DEF Slots, FrameSlots
<1> QED BY <1>3 DEF Slot

LEMMA ElseLaid ==
  ASSUME IInv, IInv', StatementsTracked, ItemsLaid, Keeps(code, code'), PlacesGrow,
         SafeForms, BeginElse
  PROVE  ItemsLaid'
<1>0. PICK n, l, e, x, it : /\ n = Len(frames) /\ l = Len(src) /\ e = l + 1
                            /\ x = Top.jumpPastElsePtr /\ it = Marker("else", n - 1, x)
  OBVIOUS
<1>1. /\ phase = "body" /\ phase' = "body" /\ frames # <<>> /\ Top.part = "then" /\ Top.hasElse
      /\ x # 0 /\ code' = code /\ src' = Append(src, it)
  BY <1>0 DEF BeginElse, InPart, OwesStatement, SafeForms
<1>2. /\ n \in Nat \ {0} /\ x \in Nat /\ x > 0 /\ n \in 1 .. Len(frames) /\ frames[n] = Top
      /\ code.len \in Nat
  <2>1. n \in Nat \ {0} /\ Top \in Frame
    BY <1>0, <1>1, TopBelow DEF IInv, TypeOK
  <2>2. Top.jumpPastElsePtr \in Nat
    BY <2>1 DEF Frame
  <2>3. x \in Nat /\ x > 0
    BY <1>0, <1>1, <2>2
  <2>4. n \in 1 .. Len(frames) /\ frames[n] = Top
    BY <1>0, <2>1 DEF Top
  <2>5. code.len \in Nat
    BY DEF IInv, TypeOK, IsBuffer
  <2> QED BY <2>1, <2>3, <2>4, <2>5
<1>3. it \in Items(Names) /\ it.tag = "else" /\ it.at = x /\ it.cond = NoCond
  BY <1>0, <1>2 DEF Marker, Item, Items, MarkerTags
<1>4. /\ Grown(src, src') /\ Len(src') = e /\ src'[e] = it /\ e \in 1 .. Len(src') /\ e \in Nat
      /\ e = Len(src') /\ src' # <<>> /\ l \in Nat
      /\ \A i \in 1 .. Len(src') : i \notin 1 .. l => i = e
  BY <1>0, <1>1, <1>3, SourceMore
<1>5. l \in 1 .. Len(src)
  <2>1. PICK j \in 1 .. Len(src) : Runs(n, j)
    BY <1>2 DEF StatementsTracked
  <2> QED BY <1>0, <1>4, <2>1
<1>6. x + 5 = code.len /\ CodeEnd(l) <= x
  BY <1>0, <1>1, <1>2 DEF ItemsLaid, LastLaid, InPart
<1>7. \A i \in 1 .. Len(src) : Written(i) /\ ItemLaid(i)
  BY <1>1 DEF Written, InPart, ItemsLaid
<1>8. \A i \in 1 .. Len(src) : src[i].at \in Nat /\ src[i].at <= x
  <2>1. BodyIs(l)
    BY <1>5, <1>7 DEF ItemLaid
  <2>2. /\ CodeEnd(l) \in Nat /\ BodyPtr(l) <= CodeEnd(l) /\ BodyPtr(l) \in Nat
        /\ src[l].at <= BodyPtr(l) /\ src[l].at \in Nat
    BY <1>5, <2>1, CodeEndTypes, ItemTypes
  <2>3. src[l].at <= x
    BY <1>2, <1>6, <2>2
  <2>4. \A i \in 1 .. Len(src) : src[i].at \in Nat /\ src[i].at <= src[l].at
    BY <1>0, <1>4, <1>5, ItemTypes DEF ItemsLaid, ItemsInOrder
  <2> QED BY <1>2, <2>2, <2>3, <2>4, SMTT(30)
<1>9. Leaves(code, code', Writable)
  BY <1>1, <1>2, LeavesSame
<1>10. \A t \in Writable' : t \in Writable \/ (t.p \in Nat /\ x <= t.p)
  <2> SUFFICES ASSUME NEW t \in Writable', t \notin Writable PROVE t.p \in Nat /\ x <= t.p
    OBVIOUS
  <2>1. CASE t \in Slots
    <3>1. t.role = "else" /\ frames[t.d].part = "then" /\ frames'[t.d].part # "then"
      BY <2>1 DEF Writable
    <3>2. t.d \in 1 .. Len(frames) /\ t.p = frames[t.d].jumpPastElsePtr
      BY <2>1, <3>1, ElsePlaces
    <3>3. t.d = n
      BY <1>0, <3>1, <3>2, ElseFrames
    <3> QED BY <1>0, <1>2, <3>2, <3>3
  <2>2. CASE t \notin Slots
    <3>1. t.p \in Nat /\ code.len <= t.p
      BY <2>2 DEF Writable, PlacesGrow
    <3> QED BY <1>2, <1>6, <3>1
  <2> QED BY <2>1, <2>2
<1>11. ASSUME NEW i \in 1 .. Len(src) PROVE ItemLaid(i)'
  <2>1. Written(i) /\ Written(i)' /\ ItemLaid(i) /\ i \in 1 .. Len(src')
    BY <1>0, <1>4, <1>7 DEF Written
  <2>2. /\ Ahead(i)' <= Ahead(i) /\ Ahead(i) \in Nat /\ Ahead(i)' \in Nat /\ Ahead(i)' <= x
        /\ CodeEnd(i) <= Ahead(i)'
    <3>1. CASE i < l
      <4>1. i + 1 \in 1 .. Len(src) /\ src'[i + 1] = src[i + 1]
        BY <1>0, <1>4, <3>1 DEF Grown
      <4>2. Ahead(i)' = Ahead(i) /\ Ahead(i) = src[i + 1].at
        BY <1>0, <1>4, <3>1, <4>1 DEF Ahead
      <4>3. CodeEnd(i) <= Ahead(i)
        BY <2>1 DEF ItemLaid
      <4> QED BY <1>8, <4>1, <4>2, <4>3
    <3>2. CASE i = l
      <4>1. Ahead(i)' = x
        <5>1. i < Len(src') /\ i + 1 = e
          BY <1>0, <1>4, <3>2
        <5> QED BY <1>3, <1>4, <5>1 DEF Ahead
      <4>2. Ahead(i) = code.len
        BY <1>0, <1>1, <3>2 DEF Ahead
      <4> QED BY <1>2, <1>6, <3>2, <4>1, <4>2
    <3> QED BY <1>0, <1>4, <3>1, <3>2
  <2>3. x <= code.len
    BY <1>2, <1>6
  <2> QED BY <1>2, <1>4, <1>9, <1>10, <2>1, <2>2, <2>3, LaidStays
<1>12. ItemLaid(e)'
  <2>1. BodyPtr(e)' = x
    BY <1>2, <1>3, <1>4 DEF BodyPtr
  <2>2. BodyIs(e)' /\ CodeEnd(e)' = code'.len
    BY <1>1, <1>3, <1>4, <1>6, <2>1 DEF BodyIs, CodeEnd, BodyLen
  <2>3. Written(e)'
    <3>1. frames' # <<>> /\ Top'.part = "else"
      BY ElseFrames, <1>2, <1>0
    <3> QED BY <3>1 DEF Written, InPart
  <2> QED BY <1>1, <1>4, <2>2, <2>3, LastItemLaid
<1>13. ItemsInOrder'
  <2>1. code'.len \in Nat /\ code.len <= code'.len /\ x <= code'.len
    BY <1>1, <1>2, <1>6
  <2>2. /\ src'[Len(src')].at \in Nat /\ src'[Len(src')].at <= code'.len
        /\ \A i \in 1 .. Len(src) : src[i].at <= src'[Len(src')].at
    BY <1>2, <1>3, <1>4, <1>8, <2>1
  <2> QED BY <1>0, <1>1, <1>4, <2>1, <2>2, OrderStays DEF ItemsLaid
<1>14. LastLaid'
  <2>1. Top'.part = "else"
    BY ElseFrames
  <2> QED BY <2>1 DEF LastLaid, InPart
<1>15. \A i \in 1 .. Len(src') : ItemLaid(i)'
  BY <1>0, <1>4, <1>11, <1>12
<1> QED BY <1>13, <1>14, <1>15 DEF ItemsLaid

(* A statement is left.                                                    *)
LEMMA LeaveWritable ==
  ASSUME IInv, LeaveStatement PROVE Writable' \subseteq Writable
<1>1. /\ Len(frames) \in Nat \ {0} /\ Len(frames') = Len(frames) - 1
      /\ \A d \in 1 .. Len(frames) - 1 :
           /\ frames'[d].tag = frames[d].tag /\ frames'[d].cond = frames[d].cond
           /\ frames'[d].part = frames[d].part /\ frames'[d].condPtr = frames[d].condPtr
           /\ frames'[d].part # "then" => frames'[d].jumpPastElsePtr = frames[d].jumpPastElsePtr
      /\ UNCHANGED <<loopBreaks, loopContinues, uncalled>>
  BY LeaveFrames DEF LeaveStatement
<1>2. ASSUME NEW t \in Writable' PROVE t \in Writable
  <2>1. t \in Slots' /\ (t.role = "else" => frames'[t.d].part # "then")
    BY DEF Writable
  <2>2. CASE t \in TableSlots(loopBreaks', loopContinues', uncalled')
    <3>1. t \in Slots
      BY <1>1, <2>2 DEF Slots
    <3>2. t.role # "else"
      BY <2>2 DEF TableSlots, Slot
    <3> QED BY <3>1, <3>2 DEF Writable
  <2>3. ASSUME NEW d \in 1 .. Len(frames'), CondPending(frames'[d]),
               t = Slot("cond", d, frames'[d].condPtr, 6)
        PROVE  t \in Writable
    <3>1. /\ d \in 1 .. Len(frames) /\ CondPending(frames[d])
          /\ t = Slot("cond", d, frames[d].condPtr, 6)
      BY <1>1, <2>3 DEF CondPending
    <3>2. t \in Slots
      BY <3>1 DEF Slots, FrameSlots
    <3>3. t.role # "else"
      BY <2>3 DEF Slot
    <3> QED BY <3>2, <3>3 DEF Writable
  <2>4. ASSUME NEW d \in 1 .. Len(frames'), ElsePending(frames'[d]),
               t = Slot("else", d, frames'[d].jumpPastElsePtr, 5)
        PROVE  t \in Writable
    <3>1. t.role = "else" /\ t.d = d
      BY <2>4 DEF Slot
    <3>2. frames'[d].part = "else" /\ d \in 1 .. Len(frames) - 1
      BY <1>1, <2>1, <2>4, <3>1 DEF ElsePending
    <3>3. /\ d \in 1 .. Len(frames) /\ ElsePending(frames[d])
          /\ t = Slot("else", d, frames[d].jumpPastElsePtr, 5) /\ frames[d].part = "else"
      BY <1>1, <2>4, <3>2 DEF ElsePending
    <3>4. t \in Slots
      BY <3>3 DEF Slots, FrameSlots
    <3> QED BY <3>1, <3>3, <3>4 DEF Writable
  <2>5. t \in FrameSlots(frames') =>
          \/ \E d \in 1 .. Len(frames') :
               CondPending(frames'[d]) /\ t = Slot("cond", d, frames'[d].condPtr, 6)
          \/ \E d \in 1 .. Len(frames') :
               ElsePending(frames'[d]) /\ t = Slot("else", d, frames'[d].jumpPastElsePtr, 5)
    BY DEF FrameSlots
  <2> QED BY <2>1, <2>2, <2>3, <2>4, <2>5 DEF Slots
<1> QED BY <1>2

LEMMA LeaveLaid ==
  ASSUME IInv, IInv', StatementsTracked, ItemsLaid, Keeps(code, code'), LeaveStatement
  PROVE  ItemsLaid'
<1> DEFINE skipped == IF Top.cond # NoCond /\ Top.tag # "branch"
                      THEN WriteSkip(code, Top, code.len) ELSE code
           fills == Below # <<>> /\ Below[Len(Below)].part = "then" /\ Below[Len(Below)].hasElse
<1>0. PICK n, e, x : n = Len(frames) /\ e = Len(src) /\ x = code.len
  OBVIOUS
<1>1. /\ n \in Nat \ {0} /\ n - 1 \in Nat /\ Len(frames') = n - 1 /\ x \in Nat /\ code'.len \in Nat
      /\ phase = "body" /\ phase' = "body" /\ frames # <<>> /\ Top.part = "done"
      /\ frames[n] = Top /\ n \in 1 .. Len(frames) /\ src' = src
  BY <1>0, LeaveFrames DEF LeaveStatement, InPart, Top, IInv, TypeOK, IsBuffer
<1>2. \A d \in 1 .. n - 1 :
        /\ frames'[d].part = frames[d].part /\ frames'[d].tag = frames[d].tag
        /\ frames[d].part # "done" /\ frames[d].part # "emit" /\ FrameOK(frames[d])
  BY <1>0, <1>1, LeaveFrames, SMTT(30) DEF StatementsTracked, IInv, FramesOK
<1>3. e \in 1 .. Len(src) /\ e \in Nat /\ src # <<>> /\ Grown(src, src')
  <2>1. PICK j \in 1 .. Len(src) : Runs(n, j)
    BY <1>1 DEF StatementsTracked
  <2> QED BY <1>0, <1>1, <2>1, SourceLength, SourceSame
<1>4. BodyIs(e) /\ CodeEnd(e) = x
  BY <1>0, <1>1, <1>3 DEF ItemsLaid, ItemLaid, LastLaid, InPart, Written
<1>5. BodyIs(e)' /\ CodeEnd(e)' = x
  <2>1. src[e].tag = "end" => \E i \in 1 .. e : Opens(src, i, e)
    BY <1>3 DEF StatementsTracked
  <2> QED BY <1>3, <1>4, <2>1, BodyStays
<1>6. /\ Leaves(code, skipped, Writable) /\ skipped.len = x
      /\ \A p \in DOMAIN skipped.at : p \in Nat /\ p < x
  <2>0. \A p \in DOMAIN code.at : p \in Nat /\ p < x
    BY <1>0, SMTT(30) DEF IInv, TypeOK, IsBuffer, Instruction
  <2>1. CASE Top.cond # NoCond /\ Top.tag # "branch"
    <3>1. PICK c : c = Slot("cond", n, Top.condPtr, 6)
      OBVIOUS
    <3>2. c \in Slots /\ c.role = "cond" /\ c.p = Top.condPtr /\ c.n = 6
      BY <1>0, <1>1, <2>1, <3>1, TopSlots DEF IInv, CondPending, Slot
    <3>3. c \in Writable /\ c.p \in Nat
      BY <3>2, SlotTypes DEF Writable, IInv, IsSlots
    <3>4. Reserved(code, c.p, 6)
      BY <3>2 DEF IInv, PendingReserved, SlotsReserved
    <3>5. Top.condPtr \in DOMAIN code.at
      BY <3>2, <3>3, <3>4 DEF Reserved
    <3>6. skipped = WriteSkip(code, Top, code.len)
      BY <2>1
    <3> HIDE DEF skipped
    <3> PICK f, b : f = Top /\ b = code
      OBVIOUS
    <3>7. f.condPtr \in Nat /\ b.len \in Nat /\ \E t \in Writable : t.p = f.condPtr /\ t.n = 6
      BY <1>0, <1>1, <3>2, <3>3
    <3>8. Leaves(b, WriteSkip(b, f, x), Writable) /\ WriteSkip(b, f, x).len = b.len
      BY <3>7, SkipLeaves
    <3>9. \A p \in DOMAIN skipped.at : p \in DOMAIN code.at
      BY <3>5, <3>6 DEF WriteSkip, Patch
    <3> QED BY <1>0, <2>0, <3>6, <3>8, <3>9
  <2>2. CASE ~(Top.cond # NoCond /\ Top.tag # "branch")
    <3>1. skipped = code
      BY <2>2
    <3> HIDE DEF skipped
    <3> QED BY <1>0, <1>1, <2>0, <3>1, LeavesSame
  <2> QED BY <2>1, <2>2
<1>7. IF fills
      THEN code' = EmitNop(skipped, 5)
           /\ frames' = [Below EXCEPT ![Len(Below)].jumpPastElsePtr = skipped.len]
      ELSE code' = skipped /\ frames' = Below
  BY DEF LeaveStatement
<1> HIDE DEF skipped
<1>8. Leaves(code, code', Writable) /\ code'.len = x + (IF fills THEN 5 ELSE 0)
  <2>1. CASE fills
    <3>1. PICK b : b = skipped
      OBVIOUS
    <3>2. code' = EmitNop(b, 5) /\ b.len = x /\ b.len \in Nat /\ Leaves(code, b, Writable)
      BY <1>1, <1>6, <1>7, <2>1, <3>1
    <3>3. Leaves(b, code', Writable)
      BY <3>2, NopLeaves
    <3>4. code'.len = x + 5
      BY <3>2 DEF EmitNop
    <3> QED BY <1>0, <1>1, <2>1, <3>2, <3>3, <3>4, LeavesTransitive
  <2>2. CASE ~fills
    BY <1>1, <1>6, <1>7, <2>2
  <2> QED BY <2>1, <2>2
<1>9. Writable' \subseteq Writable
  BY LeaveWritable
<1>10. WritableGrows
  BY <1>9 DEF WritableGrows
<1>11. Written(e)'
  <2>1. frames' # <<>> => n - 1 \in 1 .. n - 1 /\ Top' = frames'[n - 1]
    BY <1>1, LeaveFrames, EmptySeq DEF Top
  <2> QED BY <1>2, <2>1 DEF Written, InPart
<1>12. Below \in Seq(Frame) /\ Len(Below) = n - 1 /\ \A d \in 1 .. n - 1 : Below[d] = frames[d]
  BY <1>0, <1>1, TopBelow DEF IInv, TypeOK
<1>13. LastLaid'
  <2>1. frames' # <<>> => n - 1 \in 1 .. n - 1 /\ Top' = frames'[n - 1]
    BY <1>1, LeaveFrames, EmptySeq DEF Top
  <2>2. ~InPart("done")'
    BY <1>2, <2>1 DEF InPart
  <2>3. ASSUME frames' # <<>>, Top'.part = "then", Top'.hasElse
        PROVE  fills /\ Top'.jumpPastElsePtr = x
    <3>1. CASE ~fills
      <4>1. frames' = Below /\ Top' = Below[Len(Below)] /\ Below # <<>>
        BY <1>7, <1>12, <2>1, <2>3, <3>1
      <4> QED BY <2>3, <3>1, <4>1
    <3>2. CASE fills
      <4>1. Top' = [Below EXCEPT ![Len(Below)].jumpPastElsePtr = x][n - 1]
        BY <1>6, <1>7, <2>1, <2>3, <3>2
      <4>2. Below[n - 1] \in Frame /\ n - 1 \in DOMAIN Below
        BY <1>12, <2>1, <2>3, ElementOfSeq, LenProperties
      <4>3. Top' = [Below[n - 1] EXCEPT !.jumpPastElsePtr = x]
        BY <1>12, <4>1, <4>2
      <4> QED BY <3>2, <4>2, <4>3 DEF Frame
    <3> QED BY <3>1, <3>2
  <2>4. InPart("then")' /\ Top'.hasElse =>
          Top'.jumpPastElsePtr + 5 = code'.len /\ CodeEnd(e)' <= Top'.jumpPastElsePtr
    BY <1>1, <1>5, <1>8, <2>3 DEF InPart
  <2> QED BY <1>0, <1>1, <2>2, <2>4 DEF LastLaid
<1>14. ItemLaid(e)'
  <2>1. CASE ~fills
    <3>1. CodeEnd(e)' = code'.len
      BY <1>1, <1>5, <1>8, <2>1
    <3> QED BY <1>0, <1>1, <1>3, <1>5, <1>11, <3>1, LastItemLaid
  <2>2. CASE fills
    <3>1. Ahead(e)' = x + 5 /\ code'.len = x + 5
      BY <1>0, <1>1, <1>3, <1>8, <2>2 DEF Ahead
    <3>2. \E j \in 1 .. e : src'[j].tag = "branch"
      <4>1. n - 1 \in 1 .. n - 1 /\ frames[n - 1].part = "then"
        <5>1. n - 1 # 0
          BY <1>1, <1>12, <2>2, EmptySeq
        <5> QED BY <1>1, <1>12, <2>2, <5>1
      <4>2. frames[n - 1].tag = "branch"
        BY <1>2, <4>1 DEF FrameOK
      <4>3. PICK j \in 1 .. Len(src) : Runs(n - 1, j)
        BY <1>0, <1>1, <4>1, SMTT(30) DEF StatementsTracked
      <4> QED BY <1>0, <1>1, <4>2, <4>3 DEF Runs
    <3>3. ASSUME NEW p \in DOMAIN code'.at, x <= p, p < x + 5 PROVE Spare(p)'
      <4>1. p \in Nat /\ p \notin DOMAIN skipped.at
        BY <1>1, <1>6, <3>3 DEF IInv, TypeOK, IsBuffer
      <4>2. code'.at[p] = Nop
        BY <1>7, <2>2, <4>1 DEF EmitNop
      <4>3. ASSUME NEW t \in Writable' PROVE Outside(p, t)
        <5>1. t \in Slots /\ t.p \in Nat /\ t.n \in Nat
          BY <1>9, SlotTypes DEF Writable, IInv, IsSlots
        <5>2. Reserved(code, t.p, t.n)
          BY <5>1 DEF IInv, PendingReserved, SlotsReserved
        <5>3. t.p + t.n <= x
          BY <1>0, <5>2 DEF Reserved
        <5> QED BY <1>1, <3>3, <4>1, <5>1, <5>3 DEF Outside
      <4> QED BY <4>2, <4>3 DEF Spare
    <3>4. Gap(e)'
      BY <1>5, <3>1, <3>2, <3>3 DEF Gap
    <3>5. CodeEnd(e)' <= Ahead(e)'
      BY <1>1, <1>5, <3>1
    <3> QED BY <1>5, <1>11, <3>4, <3>5 DEF ItemLaid
  <2> QED BY <2>1, <2>2
<1> QED BY <1>0, <1>1, <1>3, <1>8, <1>10, <1>13, <1>14, SameLaid

(* The steps behind the procedures, and stuttering.                        *)
LEMMA UnchangedLaid ==
  ASSUME ItemsLaid, UNCHANGED vars PROVE ItemsLaid'
<1>1. UNCHANGED <<phase, src, frames, code, entry, uncalled, loopBreaks, loopContinues>>
  BY DEF vars
<1>2. Writable' = Writable
  BY <1>1 DEF Writable, Slots
<1>3. \A i : BodyPtr(i)' = BodyPtr(i) /\ CodeEnd(i)' = CodeEnd(i) /\ Ahead(i)' = Ahead(i)
  BY <1>1 DEF CodeEnd, BodyLen, BodyPtr, EndsLoop, Opener, Ahead
<1>4. \A i \in 1 .. Len(src) : ItemLaid(i)'
  BY <1>1, <1>2, <1>3 DEF ItemsLaid, ItemLaid, Written, InPart, Top, BodyIs, JumpAt, Gap, Spare
<1>5. ItemsInOrder' /\ LastLaid'
  BY <1>1, <1>3 DEF ItemsLaid, ItemsInOrder, LastLaid, InPart, Top
<1> QED BY <1>1, <1>4, <1>5 DEF ItemsLaid

LEMMA StartLeaves ==
  ASSUME IInv, CompileStart PROVE Leaves(code, code', Writable)
<1>1. code.len \in Nat
  BY DEF IInv, TypeOK, IsBuffer
<1>2. \A op, k : Ins(op, k).len = k
  BY DEF Ins
<1>3. PICK h, i, j, b, c, d :
        /\ h = Ins("enter", 23) /\ i = Ins("leave", 23) /\ j = Ins("ret", 1)
        /\ b = Emit(code, h) /\ c = EmitNop(b, 5) /\ d = Emit(c, i) /\ code' = Emit(d, j)
  BY DEF CompileStart
<1>4. h.len \in Nat /\ i.len \in Nat /\ j.len \in Nat
  BY <1>2, <1>3
<1>5. b.len \in Nat /\ Leaves(code, b, Writable)
  <2>1. b.len = code.len + h.len
    BY <1>3 DEF Emit
  <2> QED BY <1>1, <1>3, <1>4, <2>1, EmitLeaves, SMTT(30)
<1>6. c.len \in Nat /\ Leaves(b, c, Writable)
  <2>1. c.len = b.len + 5
    BY <1>3 DEF EmitNop
  <2> QED BY <1>3, <1>5, <2>1, NopLeaves
<1>7. d.len \in Nat /\ Leaves(c, d, Writable)
  <2>1. d.len = c.len + i.len
    BY <1>3 DEF Emit
  <2> QED BY <1>3, <1>4, <1>6, <2>1, EmitLeaves, SMTT(30)
<1>8. code'.len \in Nat /\ Leaves(d, code', Writable)
  <2>1. code'.len = d.len + j.len
    BY <1>3 DEF Emit
  <2> QED BY <1>3, <1>4, <1>7, <2>1, EmitLeaves, SMTT(30)
<1>9. Leaves(code, c, Writable)
  BY <1>1, <1>5, <1>6, LeavesTransitive
<1>10. Leaves(code, d, Writable)
  BY <1>1, <1>6, <1>7, <1>9, LeavesTransitive
<1> QED BY <1>1, <1>7, <1>8, <1>10, LeavesTransitive

LEMMA LinkLeaves ==
  ASSUME IInv, NEW p \in uncalled, LinkCall(p) PROVE Leaves(code, code', Writable)
<1>1. PICK t : t = Slot("call", 0, p, 5)
  OBVIOUS
<1>2. t.role = "call" /\ t.p = p /\ t.n = 5
  BY <1>1 DEF Slot
<1>3. t \in Writable
  BY <1>1, <1>2 DEF Writable, Slots, TableSlots
<1>4. p \in Nat /\ code.len \in Nat
  BY DEF IInv, TypeOK, IsBuffer
<1>5. PICK i : i = CallTo(procedureMap[callTable[p]])
  OBVIOUS
<1>6. i.len = 5 /\ code' = Patch(code, {p}, i)
  BY <1>5 DEF LinkCall, WriteCall, CallTo
<1>7. \A s \in {p} : \E u \in Writable : u.p = s /\ u.n = i.len
  BY <1>2, <1>3, <1>6
<1>8. {p} \in SUBSET Nat /\ i.len \in Nat \ {0}
  BY <1>4, <1>6
<1> QED BY <1>4, <1>6, <1>7, <1>8, PatchLeaves

LEMMA StillLaid ==
  ASSUME IInv, IInv', StatementsTracked, ItemsLaid, Keeps(code, code'), PlacesGrow,
         CompileStart \/ Compiled \/ \E p \in uncalled : LinkCall(p)
  PROVE  ItemsLaid'
<1>0. PICK e : e = Len(src)
  OBVIOUS
<1>1. /\ src' = src /\ frames = <<>> /\ frames' = <<>> /\ phase' \in {"calls", "done"}
      /\ entry' = IF phase \in {"calls", "done"} THEN entry ELSE code.len
  BY DEF CompileStart, Compiled, LinkCall, IInv, FramesOK
<1>2. e \in Nat /\ code.len \in Nat
  BY <1>0, SourceLength DEF IInv, TypeOK, IsBuffer
<1>3. Leaves(code, code', Writable)
  <2>1. CASE Compiled
    BY <1>2, <2>1, LeavesSame DEF Compiled
  <2> QED BY <2>1, StartLeaves, LinkLeaves
<1>4. WritableGrows
  BY <1>1, NoElseBegins
<1>5. LastLaid'
  BY <1>1 DEF LastLaid, InPart
<1>6. entry' <= code.len
  BY <1>1, <1>2 DEF ItemsLaid, ItemsInOrder
<1> QED BY <1>0, <1>1, <1>2, <1>3, <1>4, <1>5, <1>6, SameLaid

LEMMA NextLaid ==
  ASSUME IInv, IInv', ItemInv, EmittedItem, SafeForms, Keeps(code, code'), PlacesGrow,
         [Next]_vars, phase' # "error"
  PROVE  ItemsLaid'
<1>1. CASE phase = "error"
  BY <1>1 DEF Next, Compile, Returned, BeginProcedure, EndProcedure, StrayLoopControl,
       EnterStatement, InStatementList, BadCondition, EmitStraight, EmitLonghand, EmitBreak,
       EmitContinue, EmitReturn, EmitCallStatement, EmitText, Emitting, InPart, EndLoop,
       BeginElse, EndThen, EndElse, LeaveStatement, CompileStart, LinkCall,
       MissingProcedure, Compiled, vars
<1>2. CASE phase # "error"
  <2>1. StatementsTracked /\ ItemsLaid
    BY <1>2 DEF ItemInv
  <2>2. CASE (\E n \in Names : BeginProcedure(n)) \/ EndProcedure
    BY <2>1, <2>2, ProcedureLaid
  <2>3. CASE \E s \in Statement : EnterStatement(s)
    BY <2>1, <2>3, EnterLaid
  <2>4. CASE \/ \E n \in BodyLens : EmitStraight(n)
             \/ \E n \in TextLens : EmitText(n)
             \/ EmitBreak \/ EmitContinue \/ EmitReturn \/ EmitCallStatement
    BY <2>1, <2>4, EmitLaid
  <2>5. CASE EndLoop \/ EndThen \/ EndElse
    BY <2>1, <2>5, BlockEndLaid
  <2>6. CASE BeginElse
    BY <2>1, <2>6, ElseLaid
  <2>7. CASE LeaveStatement
    BY <2>1, <2>7, LeaveLaid
  <2>8. CASE CompileStart \/ Compiled \/ \E p \in uncalled : LinkCall(p)
    BY <2>1, <2>8, StillLaid
  <2>9. CASE UNCHANGED vars
    BY <2>1, <2>9, UnchangedLaid
  <2>10. ~(StrayLoopControl \/ EmitLonghand \/ (\E s \in Statement : BadCondition(s))
            \/ (\E p \in uncalled : MissingProcedure(p)))
    BY DEF StrayLoopControl, EmitLonghand, BadCondition, MissingProcedure
  <2> QED BY <2>2, <2>3, <2>4, <2>5, <2>6, <2>7, <2>8, <2>9, <2>10 DEF Next, Compile, Returned
<1> QED BY <1>1, <1>2

LEMMA NextClosed ==
  ASSUME IInv, ItemInv, [Next]_vars, phase' # "error" PROVE ProceduresClosed'
<1>1. CASE EndProcedure
  <2>1. PICK it : it = Marker("endproc", 0, code.len)
    OBVIOUS
  <2>2. it \in Items(Names) /\ it.tag = "endproc"
    BY <2>1 DEF Marker, Item, Items, MarkerTags, IInv, TypeOK, IsBuffer
  <2>3. src' = Append(src, it)
    BY <1>1, <2>1 DEF EndProcedure
  <2>4. src'[Len(src')] = it
    BY <2>2, <2>3, SourceMore
  <2> QED BY <2>2, <2>4 DEF ProceduresClosed
<1>2. CASE CompileStart \/ Compiled \/ (\E p \in uncalled : LinkCall(p)) \/ UNCHANGED vars
  <2>1. src' = src /\ (phase' \in {"procs", "calls", "done"} => phase \in {"procs", "calls", "done"})
    BY <1>2 DEF CompileStart, Compiled, LinkCall, vars
  <2>2. phase' \in {"procs", "calls", "done"} => ProceduresClosed
    BY <2>1 DEF ItemInv
  <2> QED BY <2>1, <2>2 DEF ProceduresClosed
<1>3. CASE ~(EndProcedure \/ CompileStart \/ Compiled \/ (\E p \in uncalled : LinkCall(p))
             \/ UNCHANGED vars)
  <2>1. phase' = "body" \/ phase' = "error"
    BY <1>3 DEF Next, Compile, Returned, BeginProcedure, StrayLoopControl,
         EnterStatement, InStatementList, BadCondition, EmitStraight, EmitLonghand, EmitBreak,
         EmitContinue, EmitReturn, EmitCallStatement, EmitText, Emitting, InPart, EndLoop,
         BeginElse, EndThen, EndElse, LeaveStatement, MissingProcedure
  <2> QED BY <2>1 DEF ProceduresClosed
<1> QED BY <1>1, <1>2, <1>3

LEMMA ItemInvariant ==
  ASSUME SafeForms PROVE Spec => []ItemInv
<1>1. Init => ItemInv
  <2> SUFFICES ASSUME Init PROVE ItemInv
    OBVIOUS
  <2>1. Len(src) = 0 /\ Len(frames) = 0 /\ src = <<>> /\ frames = <<>> /\ phase = "procs"
    BY DEF Init
  <2>2. StatementsTracked
    BY <2>1 DEF StatementsTracked
  <2>3. ItemsLaid
    BY <2>1 DEF ItemsLaid, ItemsInOrder, LastLaid, InPart
  <2>4. ProceduresClosed
    BY <2>1 DEF ProceduresClosed
  <2> QED BY <2>2, <2>3, <2>4 DEF ItemInv
<1>2. IInv /\ CallInv /\ ItemInv /\ [Next]_vars => ItemInv'
  <2> SUFFICES ASSUME IInv, CallInv, ItemInv, [Next]_vars, phase' # "error" PROVE ItemInv'
    BY DEF ItemInv
  <2>1. IInv' /\ Keeps(code, code') /\ PlacesGrow
    BY NextInvariant
  <2>2. EmittedItem
    BY DEF CallInv
  <2>3. StatementsTracked' /\ ItemsLaid' /\ ProceduresClosed'
    BY <2>1, <2>2, NextTracked, NextLaid, NextClosed
  <2> QED BY <2>3 DEF ItemInv
<1> QED BY <1>1, <1>2, Invariant, CallInvariant, PTL DEF Spec

----------------------------------------------------------------------------
(* Branches have a condition, markers have none, and no procedure is       *)
(* compiled twice.                                                         *)
SourceOK ==
  /\ \A i \in 1 .. Len(src) : src[i].tag = "branch" => src[i].cond # NoCond
  /\ \A i \in 1 .. Len(src) : src[i].tag \in MarkerTags => src[i].cond = NoCond
  /\ \A i \in 1 .. Len(src) : src[i].tag = "proc" => src[i].name \notin todo
  /\ \A i, j \in 1 .. Len(src) :
       src[i].tag = "proc" /\ src[j].tag = "proc" /\ src[i].name = src[j].name => i = j

LEMMA SourceAdded ==
  ASSUME IInv, SourceOK, todo' = todo, NEW it \in Items(Names), src' = Append(src, it),
         it.tag # "proc", it.tag \in MarkerTags => it.cond = NoCond,
         it.tag = "branch" => it.cond # NoCond
  PROVE  SourceOK'
<1>1. /\ \A i \in 1 .. Len(src) : src'[i] = src[i]
      /\ \A i \in 1 .. Len(src') : i \in 1 .. Len(src) \/ src'[i] = it
  BY SourceMore DEF Grown
<1> QED BY <1>1 DEF SourceOK

LEMMA NextSource ==
  ASSUME IInv, SourceOK, [Next]_vars PROVE SourceOK'
<1>1. code.len \in Nat /\ (frames # <<>> => Len(frames) - 1 \in Nat)
  BY TopBelow DEF IInv, TypeOK, IsBuffer
<1>2. ASSUME NEW n \in Names, BeginProcedure(n) PROVE SourceOK'
  <2>1. PICK it : it = Item("proc", NoCond, n, 0, code.len)
    OBVIOUS
  <2>2. it \in Items(Names) /\ it.tag = "proc" /\ it.cond = NoCond /\ it.name = n
    BY <1>1, <2>1 DEF Item, Items, MarkerTags
  <2>3. src' = Append(src, it) /\ todo' = todo \ {n} /\ n \in todo
    BY <1>2, <2>1 DEF BeginProcedure
  <2>4. /\ \A i \in 1 .. Len(src) : src'[i] = src[i]
        /\ \A i \in 1 .. Len(src') : i \in 1 .. Len(src) \/ (i = Len(src') /\ src'[i] = it)
    BY <2>2, <2>3, SourceMore DEF Grown
  <2> QED BY <2>2, <2>3, <2>4 DEF SourceOK
<1>3. ASSUME NEW s \in Statement, EnterStatement(s) PROVE SourceOK'
  <2>1. PICK it : it = EnteredItem(s)
    OBVIOUS
  <2>2. /\ Len(frames) \in Nat /\ s.tag \in StatementTags /\ s.name \in Names \cup {NoName}
        /\ s.cond # NoCond => s.cond \in Condition
    BY <1>3, EnterFrames
  <2>3. it \in Items(Names) /\ it.tag = s.tag
    BY <1>1, <2>1, <2>2 DEF EnteredItem, Item, Items
  <2>4. it.tag # "proc" /\ it.tag \notin MarkerTags /\ (it.tag = "branch" => it.cond # NoCond)
    <3>1. s.tag = "branch" => s.cond # NoCond
      BY <1>3 DEF EnterStatement, Parsed
    <3>2. it.cond = s.cond
      BY <2>1 DEF EnteredItem, Item
    <3> QED BY <2>2, <2>3, <3>1, <3>2 DEF StatementTags, SimpleTags, BlockTags, MarkerTags
  <2>5. src' = Append(src, it) /\ todo' = todo
    BY <1>3, <2>1 DEF EnterStatement, EnteredItem
  <2> QED BY <2>3, <2>4, <2>5, SourceAdded
<1>4. CASE EndProcedure \/ EndLoop \/ BeginElse \/ EndThen \/ EndElse
  <2>1. ASSUME NEW tag \in {"endproc", "end", "else"}, NEW depth \in Nat, NEW at \in Nat,
               src' = Append(src, Marker(tag, depth, at))
        PROVE  SourceOK'
    <3>1. PICK it : it = Marker(tag, depth, at)
      OBVIOUS
    <3>2. it \in Items(Names) /\ it.tag # "proc" /\ it.cond = NoCond /\ it.tag # "branch"
      BY <3>1 DEF Marker, Item, Items, MarkerTags
    <3>3. todo' = todo
      BY <1>4 DEF EndProcedure, EndLoop, BeginElse, EndThen, EndElse
    <3> QED BY <2>1, <3>1, <3>2, <3>3, SourceAdded
  <2>2. CASE EndProcedure
    BY <1>1, <2>1, <2>2 DEF EndProcedure
  <2>3. CASE EndLoop \/ EndThen \/ EndElse
    BY <1>1, <2>1, <2>3 DEF EndLoop, EndThen, EndElse, InPart
  <2>4. CASE BeginElse
    <3>1. Top \in Frame /\ frames # <<>>
      BY <2>4, TopBelow DEF BeginElse, InPart, IInv, TypeOK
    <3>2. PICK at : at = IF Top.jumpPastElsePtr = 0 THEN code.len ELSE Top.jumpPastElsePtr
      OBVIOUS
    <3>3. at \in Nat /\ src' = Append(src, Marker("else", Len(frames) - 1, at))
      BY <1>1, <2>4, <3>1, <3>2 DEF BeginElse, Frame
    <3> QED BY <1>1, <2>1, <3>1, <3>3
  <2> QED BY <1>4, <2>2, <2>3, <2>4
<1>5. CASE \/ StrayLoopControl \/ EmitLonghand \/ LeaveStatement \/ CompileStart \/ Compiled
           \/ \E s \in Statement : BadCondition(s)
           \/ \E n \in BodyLens : EmitStraight(n)
           \/ \E n \in TextLens : EmitText(n)
           \/ EmitBreak \/ EmitContinue \/ EmitReturn \/ EmitCallStatement
           \/ \E p \in uncalled : LinkCall(p) \/ MissingProcedure(p)
           \/ UNCHANGED vars
  <2>1. src' = src /\ todo' = todo
    BY <1>5 DEF StrayLoopControl, EmitLonghand, LeaveStatement, CompileStart, Compiled,
         BadCondition, EmitStraight, EmitText, EmitBreak, EmitContinue, EmitReturn,
         EmitCallStatement, LinkCall, MissingProcedure, vars
  <2> QED BY <2>1 DEF SourceOK
<1> QED BY <1>2, <1>3, <1>4, <1>5 DEF Next, Compile, Returned

LEMMA SourceInvariant ==
  ASSUME SafeForms PROVE Spec => []SourceOK
<1>1. Init => SourceOK
  <2>1. Init => Len(src) = 0
    BY DEF Init
  <2> QED BY <2>1 DEF SourceOK
<1> QED BY <1>1, NextSource, Invariant, PTL DEF Spec

----------------------------------------------------------------------------
(* The start procedure, but for its call.                                  *)
StartLaid ==
  phase \in {"calls", "done"} =>
    /\ entry \in DOMAIN code.at /\ code.at[entry] = Ins("enter", 23)
    /\ entry + 28 \in DOMAIN code.at /\ code.at[entry + 28] = Ins("leave", 23)
    /\ entry + 51 \in DOMAIN code.at /\ code.at[entry + 51] = Ins("ret", 1)

LEMMA StartEmitted ==
  ASSUME IInv, CompileStart PROVE StartLaid'
<1>1. PICK n : n = code.len
  OBVIOUS
<1>2. n \in Nat /\ \A p \in DOMAIN code.at : p \in Nat /\ p < n
  BY <1>1, SMTT(30) DEF IInv, TypeOK, IsBuffer, Instruction
<1>3. PICK h, i, j, b, c, d :
        /\ h = Ins("enter", 23) /\ i = Ins("leave", 23) /\ j = Ins("ret", 1)
        /\ b = Emit(code, h) /\ c = EmitNop(b, 5) /\ d = Emit(c, i) /\ code' = Emit(d, j)
  BY DEF CompileStart
<1>4. h.len = 23 /\ i.len = 23 /\ j.len = 1
  BY <1>3 DEF Ins
<1>5. /\ b.len = n + 23 /\ DOMAIN b.at = DOMAIN code.at \cup {n} /\ b.at[n] = h
  BY <1>1, <1>3, <1>4 DEF Emit
<1>6. /\ c.len = n + 28 /\ DOMAIN c.at = DOMAIN b.at \cup n + 23 .. n + 27 /\ c.at[n] = h
  BY <1>2, <1>3, <1>5 DEF EmitNop
<1>7. /\ d.len = n + 51 /\ DOMAIN d.at = DOMAIN c.at \cup {n + 28}
      /\ d.at[n] = h /\ d.at[n + 28] = i
  <2>1. d = Emit(c, i) /\ n # n + 28 /\ n \in DOMAIN c.at
    BY <1>2, <1>3, <1>5, <1>6
  <2>2. d.len = n + 51
    BY <1>2, <1>4, <1>6, <2>1 DEF Emit
  <2> QED BY <1>6, <2>1, <2>2, EmitIs
<1>8. /\ DOMAIN code'.at = DOMAIN d.at \cup {n + 51}
      /\ code'.at[n] = h /\ code'.at[n + 28] = i /\ code'.at[n + 51] = j
  <2>1. /\ code' = Emit(d, j) /\ n # n + 51 /\ n + 28 # n + 51
        /\ n \in DOMAIN d.at /\ n + 28 \in DOMAIN d.at
    BY <1>2, <1>3, <1>5, <1>6, <1>7
  <2> QED BY <1>7, <2>1, EmitIs
<1>9. entry' = n
  BY <1>1 DEF CompileStart
<1> QED BY <1>3, <1>5, <1>6, <1>7, <1>8, <1>9 DEF StartLaid

LEMMA NextStart ==
  ASSUME IInv, StartLaid, Keeps(code, code'), [Next]_vars PROVE StartLaid'
<1>1. CASE CompileStart
  BY <1>1, StartEmitted
<1>2. CASE phase' \in {"calls", "done"} /\ ~CompileStart
  <2>1. entry' = entry /\ phase \in {"calls", "done"}
    BY <1>2 DEF Next, Compile, Returned, vars, BeginProcedure, EndProcedure, StrayLoopControl,
         EnterStatement, InStatementList, BadCondition, EmitStraight, EmitLonghand, EmitBreak,
         EmitContinue, EmitReturn, EmitCallStatement, EmitText, Emitting, InPart, EndLoop,
         BeginElse, EndThen, EndElse, LeaveStatement, LinkCall, MissingProcedure, Compiled
  <2>2. PICK p : p = entry
    OBVIOUS
  <2>3. /\ p \in DOMAIN code.at /\ code.at[p] = Ins("enter", 23)
        /\ p + 28 \in DOMAIN code.at /\ code.at[p + 28] = Ins("leave", 23)
        /\ p + 51 \in DOMAIN code.at /\ code.at[p + 51] = Ins("ret", 1)
    BY <2>1, <2>2 DEF StartLaid
  <2>4. \A q \in DOMAIN code.at : code.at[q].op # "nop" =>
          q \in DOMAIN code'.at /\ code'.at[q] = code.at[q]
    BY NotNops DEF Keeps
  <2>5. \A op, n : Ins(op, n).op = op
    BY DEF Ins
  <2> QED BY <2>1, <2>2, <2>3, <2>4, <2>5 DEF StartLaid
<1> QED BY <1>1, <1>2 DEF StartLaid

LEMMA StartInvariant ==
  ASSUME SafeForms PROVE Spec => []StartLaid
<1>1. Init => StartLaid
  BY DEF Init, StartLaid
<1>2. IInv /\ StartLaid /\ [Next]_vars => StartLaid'
  BY NextInvariant, NextStart
<1> QED BY <1>1, <1>2, Invariant, PTL DEF Spec

----------------------------------------------------------------------------
(* What the layout says of a program that is compiled.                     *)

(* The end of a block and its else blocks, found by their depths.          *)
LEMMA BlockShape ==
  ASSUME IInv, NEW e \in 1 .. Len(src), src[e].tag = "end", NEW j, Opens(src, j, e)
  PROVE  /\ j \in 1 .. Len(src) /\ Opener(src, e) = j /\ MatchEnd(src, j) = e
         /\ Within(j, e, 0) => ElsesOf(src, j) = {}
         /\ \A m \in j + 1 .. e - 1 :
              src[m].tag = "else" /\ src[m].depth = src[j].depth /\ Within(j, e, m) =>
                ElsesOf(src, j) = {m} /\ Least(ElsesOf(src, j)) = m
<1>0. Len(src) \in Nat
  BY SourceLength
<1>1. Opener(src, e) = j /\ j \in 1 .. Len(src)
  BY OpenerIs DEF IInv, TypeOK
<1>2. j \in 1 .. e - 1 /\ src[e].depth = src[j].depth
  BY DEF Opens
<1>3. \A k \in 1 .. Len(src) : src[k].depth \in Nat
  BY ItemTypes
<1>4. e \in EndsOf(src, j)
  BY <1>0, <1>1, <1>2 DEF EndsOf
<1>5. EndsOf(src, j) \in SUBSET Int
  BY <1>0, <1>1 DEF EndsOf
<1>6. ASSUME NEW k \in EndsOf(src, j) PROVE e <= k
  <2>1. k \in j + 1 .. Len(src) /\ src[k].tag = "end" /\ src[k].depth = src[j].depth
    BY <1>6 DEF EndsOf
  <2>2. k \in Int /\ k \in 1 .. Len(src)
    BY <2>1, <1>1, <1>0
  <2>3. ASSUME k < e PROVE FALSE
    <3>1. k \in j + 1 .. e - 1
      BY <2>1, <2>2, <2>3, <1>0, <1>1
    <3>2. src[k].tag = "else" \/ src[k].depth > src[j].depth
      BY <3>1 DEF Opens
    <3> QED BY <2>1, <2>2, <3>2, <1>3
  <2> QED BY <2>2, <2>3
<1>7. MatchEnd(src, j) = e
  BY <1>4, <1>5, <1>6, LeastIs DEF MatchEnd
<1>8. ASSUME NEW m \in Nat, Within(j, e, m), NEW k \in ElsesOf(src, j) PROVE k = m
  <2>1. k \in j + 1 .. e /\ src[k].tag = "else" /\ src[k].depth = src[j].depth
    BY <1>7, <1>8 DEF ElsesOf
  <2>2. k \in j + 1 .. e - 1 /\ k \in 1 .. Len(src)
    BY <2>1, <1>0, <1>1
  <2>3. k # m => src[k].depth > src[j].depth
    BY <1>8, <2>2 DEF Within
  <2> QED BY <2>1, <2>2, <2>3, <1>3
<1>9. Within(j, e, 0) => ElsesOf(src, j) = {}
  <2>1. \A k \in ElsesOf(src, j) : k # 0
    BY <1>0, <1>1 DEF ElsesOf
  <2> QED BY <2>1, <1>8
<1>10. ASSUME NEW m \in j + 1 .. e - 1, src[m].tag = "else", src[m].depth = src[j].depth,
              Within(j, e, m)
       PROVE  ElsesOf(src, j) = {m} /\ Least(ElsesOf(src, j)) = m
  <2>1. m \in Nat /\ m \in j + 1 .. e
    BY <1>0, <1>1
  <2>2. m \in ElsesOf(src, j)
    BY <1>10, <1>7, <2>1 DEF ElsesOf
  <2>3. ElsesOf(src, j) = {m}
    BY <2>1, <2>2, <1>8, <1>10
  <2>4. Least({m}) = m
    BY <2>1, LeastIs
  <2> QED BY <2>3, <2>4
<1> QED BY <1>1, <1>7, <1>9, <1>10

(* A block that is compiled, from its first item to its last.              *)
LEMMA BuiltOpens ==
  ASSUME IInv, NEW j \in 1 .. Len(src), src[j].tag \in BlockTags, NEW e, Built(j, e)
  PROVE  /\ e \in j + 1 .. Len(src) /\ e \in 1 .. Len(src) /\ src[e].tag = "end"
         /\ Opens(src, j, e)
         /\ src[j].tag = "loop" => BuiltLoop(j, e)
         /\ src[j].tag = "branch" => BuiltBranch(j, e)
<1>0. Len(src) \in Nat
  BY SourceLength
<1>1. /\ e \in j + 1 .. Len(src) /\ src[e].tag = "end" /\ src[e].depth = src[j].depth
      /\ BuiltLoop(j, e) \/ BuiltBranch(j, e)
  BY DEF Built, BlockTags, SimpleTags
<1>2. e \in 1 .. Len(src) /\ j \in 1 .. e - 1
  BY <1>0, <1>1
<1>3. \A k \in j + 1 .. e - 1 : src[k].tag = "else" \/ src[k].depth > src[j].depth
  <2>1. CASE Within(j, e, 0)
    <3>1. \A k \in j + 1 .. e - 1 : k # 0
      BY <1>0
    <3> QED BY <2>1, <3>1 DEF Within
  <2>2. CASE \E m \in j + 1 .. e - 1 : src[m].tag = "else" /\ Within(j, e, m)
    BY <2>2 DEF Within
  <2> QED BY <1>1, <2>1, <2>2 DEF BuiltLoop, BuiltBranch
<1>4. Opens(src, j, e)
  BY <1>1, <1>2, <1>3 DEF Opens
<1> QED BY <1>1, <1>2, <1>4 DEF BuiltLoop, BuiltBranch

(* Everything is compiled: every statement is complete, and behind the     *)
(* code of every item but the last there are only nops up to the next.     *)
Laid(i) ==
  /\ CodeEnd(i) <= src[i + 1].at
  /\ \A p \in DOMAIN code.at : CodeEnd(i) <= p /\ p < src[i + 1].at =>
       code.at[p] = Nop /\ \E j \in 1 .. i : src[j].tag = "branch"

AllCompiled ==
  /\ Len(src) \in Nat
  /\ \A j \in 1 .. Len(src) : src[j].tag \in StatementTags => Completed(j)
  /\ \A e \in 1 .. Len(src) : src[e].tag \in {"else", "end"} => \E j \in 1 .. e : Opens(src, j, e)
  /\ src # <<>> => src[Len(src)].tag = "endproc"
  /\ \A i \in 1 .. Len(src) - 1 : Laid(i)
  /\ \A i \in 1 .. Len(src) : BodyIs(i)
  /\ \A i \in 1 .. Len(src), k \in 1 .. Len(src) : i <= k => src[i].at <= src[k].at
  /\ SourceOK

LEMMA CompiledWhenDone ==
  ASSUME IInv, ItemInv, SourceOK, phase = "done" PROVE AllCompiled
<1>0. Len(src) \in Nat
  BY SourceLength
<1>1. frames = <<>> /\ Len(frames) = 0 /\ \A i : Written(i)
  BY DEF IInv, FramesOK, Written, InPart
<1>2. StatementsTracked /\ ItemsLaid /\ ProceduresClosed
  BY DEF ItemInv
<1>3. \A j \in 1 .. Len(src) : src[j].tag \in StatementTags => Completed(j)
  BY <1>1, <1>2 DEF StatementsTracked
<1>4. \A e \in 1 .. Len(src) : src[e].tag \in {"else", "end"} => \E j \in 1 .. e : Opens(src, j, e)
  BY <1>2 DEF StatementsTracked
<1>5. src # <<>> => src[Len(src)].tag = "endproc"
  BY <1>2 DEF ProceduresClosed
<1>6. \A i \in 1 .. Len(src) : BodyIs(i) /\ CodeEnd(i) <= Ahead(i) /\ Gap(i)
  BY <1>1, <1>2 DEF ItemsLaid, ItemLaid
<1>8. \A i \in 1 .. Len(src), k \in 1 .. Len(src) : i <= k => src[i].at <= src[k].at
  BY <1>2 DEF ItemsLaid, ItemsInOrder
<1>7. ASSUME NEW i \in 1 .. Len(src) - 1 PROVE Laid(i)
  <2>1. i \in 1 .. Len(src) /\ i < Len(src)
    BY <1>0
  <2>2. Ahead(i) = src[i + 1].at
    BY <2>1 DEF Ahead
  <2> QED BY <1>6, <2>1, <2>2 DEF Laid, Gap, Spare
<1> QED BY <1>0, <1>3, <1>4, <1>5, <1>6, <1>7, <1>8 DEF AllCompiled

LEMMA NotLast ==
  ASSUME AllCompiled, NEW i \in 1 .. Len(src), src[i].tag # "endproc"
  PROVE  i \in 1 .. Len(src) - 1 /\ i + 1 \in 1 .. Len(src) /\ Laid(i)
<1>1. src # <<>> /\ i # Len(src)
  BY DEF AllCompiled
<1> QED BY <1>1 DEF AllCompiled

(* Items that begin or end something without code of their own.           *)
LEMMA NoCode ==
  ASSUME IInv, AllCompiled, NEW i \in 1 .. Len(src),
         \/ src[i].tag = "proc"
         \/ src[i].tag = "loop" /\ src[i].cond = NoCond
         \/ src[i].tag = "end" /\ src[Opener(src, i)].tag = "branch"
  PROVE  CodeEnd(i) = src[i].at
<1>1. src[i].cond = NoCond
  BY DEF AllCompiled, SourceOK, MarkerTags
<1>2. src[i].tag = "end" => ~EndsLoop(src, i)
  BY DEF EndsLoop
<1> QED BY <1>1, <1>2, ItemTypes DEF CodeEnd, BodyPtr, BodyLen

(* The jump over a statement goes behind all of its code, to where the     *)
(* code of the item before the next one ends.                              *)
LEMMA SkipTarget ==
  ASSUME IInv, AllCompiled, NEW i \in 1 .. Len(src), src[i].cond # NoCond
  PROVE  \E k \in i .. Len(src) - 1 :
           /\ k \in 1 .. Len(src) /\ After(src, i) = k + 1 /\ Laid(k)
           /\ code.at[src[i].at + CmpLen(src[i].cond)].to = CodeEnd(k)
<1> DEFINE skip == src[i].at + CmpLen(src[i].cond)
<1>0. Len(src) \in Nat
  BY DEF AllCompiled
<1>1. src[i].tag \in StatementTags
  BY ItemTypes DEF AllCompiled, SourceOK
<1>2. PICK e \in i .. Len(src) : Built(i, e) /\ (src[i].tag # "branch" => SkipsTo(i, CodeEnd(e)))
  BY <1>1 DEF AllCompiled, Completed
<1>3. e \in 1 .. Len(src)
  BY <1>0
<1>4. ASSUME NEW k \in i .. Len(src), src[k].tag # "endproc", After(src, i) = k + 1,
             code.at[skip].to = CodeEnd(k)
      PROVE  \E n \in i .. Len(src) - 1 :
               /\ n \in 1 .. Len(src) /\ After(src, i) = n + 1 /\ Laid(n)
               /\ code.at[skip].to = CodeEnd(n)
  <2>1. k \in 1 .. Len(src)
    BY <1>0
  <2>2. k \in i .. Len(src) - 1 /\ Laid(k)
    BY <1>0, <1>4, <2>1, NotLast
  <2> QED BY <1>4, <2>1, <2>2
<1>5. CASE src[i].tag \in SimpleTags
  <2>1. src[i].tag \notin {"loop", "branch", "endproc"}
    BY <1>5 DEF SimpleTags
  <2>2. After(src, i) = i + 1 /\ e = i
    BY <1>2, <1>5, <2>1 DEF After, Built, BuiltLoop, BuiltBranch
  <2>3. code.at[skip].to = CodeEnd(i)
    BY <1>2, <2>1, <2>2 DEF SkipsTo
  <2> QED BY <1>2, <1>4, <2>1, <2>2, <2>3
<1>6. CASE src[i].tag = "loop"
  <2>1. /\ src[e].tag = "end" /\ Opens(src, i, e)
    BY <1>2, <1>6, BuiltOpens DEF BlockTags
  <2>2. MatchEnd(src, i) = e
    BY <1>3, <2>1, BlockShape
  <2>3. After(src, i) = e + 1
    BY <1>6, <2>2 DEF After, SimpleTags
  <2>4. code.at[skip].to = CodeEnd(e)
    BY <1>2, <1>6 DEF SkipsTo
  <2> QED BY <1>2, <1>4, <2>1, <2>3, <2>4
<1>7. CASE src[i].tag = "branch"
  <2>1. /\ src[e].tag = "end" /\ Opens(src, i, e) /\ BuiltBranch(i, e)
    BY <1>2, <1>7, BuiltOpens DEF BlockTags
  <2>2. MatchEnd(src, i) = e /\ Opener(src, e) = i
    BY <1>3, <2>1, BlockShape
  <2>3. ASSUME Within(i, e, 0), SkipsTo(i, src[e].at)
        PROVE  After(src, i) = e + 1 /\ code.at[skip].to = CodeEnd(e)
    <3>1. ElsesOf(src, i) = {}
      BY <1>3, <2>1, <2>3, BlockShape
    <3>2. After(src, i) = e + 1
      BY <1>7, <2>2, <3>1 DEF After, SimpleTags
    <3>3. CodeEnd(e) = src[e].at
      BY <1>3, <1>7, <2>1, <2>2, NoCode
    <3> QED BY <2>3, <3>2, <3>3 DEF SkipsTo
  <2>4. ASSUME NEW m \in i + 1 .. e - 1, src[m].tag = "else", src[m].depth = src[i].depth,
               Within(i, e, m), SkipsTo(i, src[m].at + 5)
        PROVE  /\ After(src, i) = m + 1 /\ code.at[skip].to = CodeEnd(m)
               /\ m \in i .. Len(src)
    <3>1. ElsesOf(src, i) = {m} /\ Least(ElsesOf(src, i)) = m
      BY <1>3, <2>1, <2>4, BlockShape
    <3>2. After(src, i) = m + 1
      BY <1>7, <3>1 DEF After, SimpleTags
    <3>3. m \in 1 .. Len(src) /\ m \in i .. Len(src)
      BY <1>0, <1>3
    <3>4. src[m].cond = NoCond
      BY <2>4, <3>3 DEF AllCompiled, SourceOK, MarkerTags
    <3>5. CodeEnd(m) = src[m].at + 5
      BY <2>4, <3>3, <3>4, ItemTypes DEF CodeEnd, BodyPtr, BodyLen
    <3> QED BY <2>4, <3>2, <3>3, <3>5 DEF SkipsTo
  <2> QED BY <1>2, <1>4, <2>1, <2>3, <2>4 DEF BuiltBranch
<1> QED BY <1>1, <1>5, <1>6, <1>7 DEF StatementTags, BlockTags

LEMMA SkipsOver ==
  ASSUME IInv, AllCompiled, NEW i \in 1 .. Len(src), src[i].cond # NoCond
  PROVE  LET to   == code.at[src[i].at + CmpLen(src[i].cond)].to
             next == src[After(src, i)].at
         IN to <= next /\ \A p \in DOMAIN code.at : to <= p /\ p < next => code.at[p] = Nop
BY SkipTarget DEF Laid

(* Where the jumps of blocks go.                                           *)
LEMMA BlocksJumpRight ==
  ASSUME IInv, AllCompiled, NEW k \in 1 .. Len(src), src[k].tag \in {"else", "end"}
  PROVE  /\ Opener(src, k) \in 1 .. Len(src)
         /\ src[k].tag = "end" => MatchEnd(src, Opener(src, k)) = k
         /\ src[k].tag = "end" /\ src[Opener(src, k)].tag = "loop" =>
              JumpAt(src[k].at, src[Opener(src, k)].at)
         /\ src[k].tag = "else" =>
              /\ src[Opener(src, k)].tag = "branch"
              /\ MatchEnd(src, Opener(src, k)) \in k + 1 .. Len(src)
              /\ src[MatchEnd(src, Opener(src, k))].tag = "end"
              /\ Opener(src, MatchEnd(src, Opener(src, k))) = Opener(src, k)
              /\ JumpAt(src[k].at, src[MatchEnd(src, Opener(src, k))].at)
<1>0. Len(src) \in Nat
  BY DEF AllCompiled
<1>1. PICK j \in 1 .. k : Opens(src, j, k)
  BY DEF AllCompiled
<1>2. Opener(src, k) = j /\ j \in 1 .. Len(src)
  BY <1>1, OpenerIs DEF IInv, TypeOK
<1>3. j \in 1 .. k - 1 /\ src[j].tag \in BlockTags /\ src[k].depth = src[j].depth
  BY <1>1 DEF Opens
<1>4. PICK e : Built(j, e)
  BY <1>2, <1>3 DEF AllCompiled, Completed, StatementTags
<1>5. /\ e \in j + 1 .. Len(src) /\ e \in 1 .. Len(src) /\ src[e].tag = "end" /\ Opens(src, j, e)
      /\ src[j].tag = "loop" => BuiltLoop(j, e)
      /\ src[j].tag = "branch" => BuiltBranch(j, e)
  BY <1>2, <1>3, <1>4, BuiltOpens
<1>6. MatchEnd(src, j) = e /\ Opener(src, e) = j
  BY <1>5, BlockShape
<1>7. src[k].tag = "end" => k = e
  BY <1>1, <1>6, BlockShape
<1>8. src[k].tag = "end" /\ src[j].tag = "loop" => JumpAt(src[k].at, src[j].at)
  BY <1>5, <1>7 DEF BuiltLoop
<1>9. ASSUME src[k].tag = "else"
      PROVE  src[j].tag = "branch" /\ e \in k + 1 .. Len(src) /\ JumpAt(src[k].at, src[e].at)
  <2>1. src[k].depth \in Nat /\ src[j].depth \in Nat /\ src[e].depth = src[j].depth
    BY <1>2, <1>5, ItemTypes DEF Opens
  <2>2. k < e
    <3> SUFFICES ASSUME e < k PROVE FALSE
      BY <1>0, <1>5, <1>9
    <3>1. e \in j + 1 .. k - 1
      BY <1>0, <1>5
    <3>2. src[e].tag = "else" \/ src[e].depth > src[j].depth
      BY <1>1, <3>1 DEF Opens
    <3> QED BY <1>5, <2>1, <3>2
  <2>3. k \in j + 1 .. e - 1
    BY <1>0, <1>3, <1>5, <2>2
  <2>4. ~Within(j, e, 0)
    BY <1>0, <1>3, <2>1, <2>3 DEF Within
  <2>5. BuiltBranch(j, e) /\ src[j].tag = "branch"
    BY <1>3, <1>5, <2>4 DEF BlockTags, BuiltLoop
  <2>6. PICK m \in j + 1 .. e - 1 : Within(j, e, m) /\ JumpAt(src[m].at, src[e].at)
    BY <2>4, <2>5 DEF BuiltBranch
  <2>7. k = m
    BY <1>3, <2>1, <2>3, <2>6 DEF Within
  <2> QED BY <1>0, <1>5, <2>2, <2>5, <2>6, <2>7
<1> QED BY <1>2, <1>5, <1>6, <1>7, <1>8, <1>9

----------------------------------------------------------------------------
(* The jump over a statement goes behind all of its code and no further    *)
(* than to what the program goes on with (the WriteJump for the            *)
(* conditional at the end of CompileStatement and of Branch).              *)
THEOREM SkipsBound ==
  ASSUME SafeForms PROVE Spec => []SkipsToNext
<1>1. IInv /\ ItemInv /\ SourceOK => SkipsToNext
  BY CompiledWhenDone, SkipsOver DEF SkipsToNext
<1> QED BY <1>1, Invariant, ItemInvariant, SourceInvariant, PTL

(* The jump at the end of a loop goes to its beginning, and the one        *)
(* between the blocks of a branch to its end, however blocks are nested    *)
(* (cases Loop and Branch of CompileStatement).                            *)
THEOREM BlocksBound ==
  ASSUME SafeForms PROVE Spec => []BlocksJump
<1>1. IInv /\ ItemInv /\ SourceOK => BlocksJump
  BY CompiledWhenDone, BlocksJumpRight DEF BlocksJump, JumpAt
<1> QED BY <1>1, Invariant, ItemInvariant, SourceInvariant, PTL
=============================================================================
