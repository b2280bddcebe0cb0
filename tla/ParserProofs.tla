---------------------------- MODULE ParserProofs ----------------------------
(***************************************************************************)
(* What the parser makes of any source, of any length and nesting.         *)
(*                                                                         *)
(* The call stack todo is shown to be one of those the functions can       *)
(* leave: which step may stand behind which (Precedes), and which of the   *)
(* statements in progress each step belongs to (Leads).  From it follows   *)
(* what is known of a statement when its turn comes: how much of its       *)
(* condition and of its operands it has (HeadFits), and that the lists it  *)
(* is made of are nested as they should be (Nested).                       *)
(***************************************************************************)
EXTENDS Parser, TLAPS, WellFoundedInduction, FiniteSetTheorems, SequenceTheorems

PlainTags == {"assignment", "shorthand", "longhand", "break", "continue", "return",
              "call", "stdout", "text", "push", "pop"}
BlockTags == {"loop", "branch"}
Assigning == {"assignment", "shorthand"}

(* The steps of a statement without blocks.                                *)
PlainSteps ==
  {"assign", "source", "minus-source", "text", "register", "if", "semicolon", "after-source"}
CondSteps  == {"operand", "minus-operand", "comparison"}
Steps ==
  PlainSteps \cup CondSteps
    \cup {"declaration", "name", "declare", "(", ")", "brace", "loop-condition",
          "statements", "check", "else", "end"}

----------------------------------------------------------------------------
(* The types.                                                              *)
CondPart == OperandType \cup Comparisons
Ops      == {"=", None} \cup Shorthands \cup Longhands

Flat ==
  [tag : Tags \cup {"else", "end"}, reg : Registers \cup {None}, op : Ops,
   name : Names \cup {None}, args : Seq(OperandType), cond : Seq(CondPart),
   blocks : {<<>>}]
Growing ==
  [tag : Tags, reg : Registers \cup {None}, op : Ops,
   name : Names \cup {None}, args : Seq(OperandType), cond : Seq(CondPart),
   blocks : Seq(Seq(Flat))]

----------------------------------------------------------------------------
(* Step b may stand behind step a.                                         *)
Precedes(a, b) ==
  \/ a \in {"(", "comparison"} /\ b = "operand"
  \/ a \in {"operand", "minus-operand"} /\ b \in {"comparison", ")", "semicolon", "after-source"}
  \/ a \in {")", "loop-condition", "name"} /\ b = "brace"
  \/ a = "brace" /\ b = "statements"
  \/ a = "statements" /\ b \in {"else", "end", "declare"}
  \/ a = "else" /\ b = "end"
  \/ a \in {"end", "semicolon", "after-source"} /\ b = "check"
  \/ a = "check" /\ b = "statements"
  \/ a = "declare" /\ b = "declaration"
  \/ a = "assign" /\ b = "source"
  \/ a \in {"source", "minus-source", "text", "register"} /\ b = "if"
  \/ a = "if" /\ b \in {"semicolon", "after-source"}

(* A condition has one comparison, behind its first operand.               *)
CondOrder(t) ==
  \A k \in 1 .. Len(t) - 2 :
    /\ t[k] = "comparison" => t[k + 2] # "comparison"
    /\ t[k] = "(" => t[k + 2] = "comparison"

(* The steps of t lead back to the declarations; step k is one for the     *)
(* statement of blocks[v[k]], and its last one is a check or declare.      *)
Leads(t, v) ==
  /\ t \in Seq(Steps) /\ t # <<>> /\ v \in Seq(Nat) /\ Len(v) = Len(t)
  /\ t[Len(t)] = "declaration" /\ v[Len(t)] = 0
  /\ \A k \in 1 .. Len(t) - 1 :
       /\ v[k] > 0 /\ Precedes(t[k], t[k + 1])
       /\ v[k + 1] = IF t[k] \in {"check", "declare"} THEN v[k] - 1 ELSE v[k]
  /\ \A j, k \in 1 .. Len(t) : j <= k => v[k] <= v[j]
  /\ CondOrder(t)

(* The statement a step is for is of a kind that has the step.             *)
StepFits(step, s) ==
  /\ step \in PlainSteps => s.tag \in PlainTags /\ s.blocks = <<>>
  /\ step \in {"(", ")", "loop-condition", "end"} => s.tag \in BlockTags
  /\ step = "brace" => s.tag \in BlockTags \cup {"proc"}
  /\ step = "else" => s.tag = "branch"
  /\ step = "after-source" => s.tag \in Assigning
  /\ step \in CondSteps => s.tag # "proc"
  /\ step \in {"name", "declare"} => s.tag = "proc"

(* A condition is absent or has both its operands; a branch has one.       *)
CondFits(s) == Len(s.cond) = 0 \/ (Len(s.cond) = 3 /\ s.cond[2] \in Comparisons)
CondDone(s) == CondFits(s) /\ (s.tag = "branch" => s.cond # <<>>)

(* The operands a statement has before the given step.                     *)
ArgsBefore(step, s) ==
  LET wait == step \in {"assign", "source", "minus-source", "text"}
  IN CASE s.tag \in {"assignment", "shorthand", "stdout"} -> IF wait THEN 0 ELSE 1
       [] s.tag = "longhand" -> IF wait THEN 1 ELSE 2
       [] s.tag = "text" -> 1
       [] OTHER -> 0

(* What is known of the innermost statement when its next step comes.      *)
HeadFits(step, next, s) ==
  /\ StepFits(step, s)
  /\ Len(s.args) = ArgsBefore(step, s)
  /\ step \in PlainSteps \ {"semicolon", "after-source"} => s.cond = <<>>
  /\ step \in {"(", "loop-condition", "name"} => s.cond = <<>>
  /\ step = "comparison" => Len(s.cond) = 1
  /\ step \in {"operand", "minus-operand"} =>
       IF next = "comparison" THEN s.cond = <<>>
       ELSE Len(s.cond) = 2 /\ s.cond[2] \in Comparisons
  /\ step = ")" => Len(s.cond) = 3 /\ s.cond[2] \in Comparisons
  /\ step \in {"semicolon", "after-source"} => CondFits(s)
  /\ step \in {"brace", "else", "end"} => CondDone(s)
  /\ step = "loop-condition" => s.tag = "loop"
  /\ step = "assign" => s.tag = "assignment"
  /\ step \in {"source", "minus-source"} =>
       s.tag \in {"assignment", "shorthand", "longhand", "stdout"}
  /\ step = "text" => s.tag = "stdout"
  /\ step \in {"else", "declare"} => Len(s.blocks) = 1
  /\ step = "end" => Len(s.blocks) \in (IF s.tag = "branch" THEN 1 .. 2 ELSE {1})

(* How many blocks a statement has when the given step follows a block     *)
(* that is not closed yet.                                                 *)
BlocksBefore(step, s) == IF step = "end" /\ s.tag = "branch" THEN 1 ELSE 0

(* The steps of t, for the statements of b, as far as levels v say.        *)
Fits(t, v, b) ==
  /\ Leads(t, v)
  /\ Len(b) = v[1] + (IF t[1] = "statements" THEN 1 ELSE 0)
  /\ \A k \in 2 .. Len(t) : v[k] > 0 => StepFits(t[k], b[v[k]].stmt)
  /\ \A k \in 1 .. Len(t) - 1 :
       t[k] = "statements" =>
         Len(b[v[k]].stmt.blocks) = BlocksBefore(t[k + 1], b[v[k]].stmt)
  /\ t[1] \notin {"statements", "check", "declaration"} => HeadFits(t[1], t[2], b[v[1]].stmt)

(* A call is a statement with a name.                                      *)
Named(s) == s.tag = "call" <=> s.name # None

----------------------------------------------------------------------------
(* Sequences.                                                              *)
LEMMA ConcatIs ==
  ASSUME NEW S, NEW a \in Seq(S), NEW b \in Seq(S)
  PROVE  /\ Len(a) \in Nat /\ Len(b) \in Nat
         /\ a \o b \in Seq(S) /\ Len(a \o b) = Len(a) + Len(b)
         /\ \A k \in 1 .. Len(a) : (a \o b)[k] = a[k]
         /\ \A k \in 1 .. Len(b) : (a \o b)[Len(a) + k] = b[k]
<1>1. Len(a) \in Nat /\ Len(b) \in Nat
  BY LenProperties
<1>2. \A k \in 1 .. Len(a) : (a \o b)[k] = a[k]
  BY <1>1, ConcatProperties
<1>3. ASSUME NEW k \in 1 .. Len(b) PROVE (a \o b)[Len(a) + k] = b[k]
  <2>1. Len(a) + k \in 1 .. Len(a) + Len(b) /\ ~(Len(a) + k <= Len(a)) /\ Len(a) + k - Len(a) = k
    BY <1>1
  <2> QED BY <2>1, ConcatProperties
<1> QED BY <1>1, <1>2, <1>3, ConcatProperties

LEMMA TailIs ==
  ASSUME NEW S, NEW s \in Seq(S), Len(s) >= 2
  PROVE  \E r \in Seq(S) :
           /\ r = Tail(s) /\ r # <<>> /\ Len(r) = Len(s) - 1
           /\ \A k \in 1 .. Len(s) - 1 : r[k] = s[k + 1]
<1>1. Len(s) \in Nat /\ s # <<>>
  OBVIOUS
<1>2. PICK r : r = Tail(s)
  OBVIOUS
<1>3. r \in Seq(S) /\ Len(r) = Len(s) - 1 /\ \A i \in 1 .. Len(r) : r[i] = s[i + 1]
  BY <1>1, <1>2, HeadTailProperties
<1>4. r # <<>>
  BY <1>1, <1>3
<1>5. \A k \in 1 .. Len(s) - 1 : r[k] = s[k + 1]
  BY <1>1, <1>3
<1> WITNESS r \in Seq(S)
<1> QED BY <1>2, <1>3, <1>4, <1>5

(* An element put in front, one put behind.                                *)
LEMMA SingleIs ==
  ASSUME NEW S, NEW x \in S
  PROVE  <<x>> \in Seq(S) /\ Len(<<x>>) = 1 /\ <<x>>[1] = x
OBVIOUS

LEMMA FrontIs ==
  ASSUME NEW S, NEW x \in S, NEW b \in Seq(S), NEW c, c = <<x>> \o b
  PROVE  /\ Len(b) \in Nat /\ c \in Seq(S) /\ Len(c) = Len(b) + 1 /\ c[1] = x
         /\ \A k \in 1 .. Len(b) : c[1 + k] = b[k]
<1>1. PICK a \in Seq(S) : a = <<x>> /\ Len(a) = 1 /\ a[1] = x
  BY SingleIs
<1>2. c = a \o b
  BY <1>1
<1> QED BY <1>1, <1>2, ConcatIs

LEMMA BehindIs ==
  ASSUME NEW S, NEW x \in S, NEW b \in Seq(S), NEW c, c = b \o <<x>>
  PROVE  /\ Len(b) \in Nat /\ c \in Seq(S) /\ Len(c) = Len(b) + 1 /\ c[Len(b) + 1] = x
         /\ \A k \in 1 .. Len(b) : c[k] = b[k]
<1>1. PICK a \in Seq(S) : a = <<x>> /\ Len(a) = 1 /\ a[1] = x
  BY SingleIs
<1>2. c = b \o a
  BY <1>1
<1> QED BY <1>1, <1>2, ConcatIs

LEMMA AppendIs ==
  ASSUME NEW S, NEW a \in Seq(S), NEW x \in S
  PROVE  /\ Len(a) \in Nat
         /\ Append(a, x) \in Seq(S) /\ Len(Append(a, x)) = Len(a) + 1
         /\ \A k \in 1 .. Len(a) : Append(a, x)[k] = a[k]
         /\ Append(a, x)[Len(a) + 1] = x
BY LenProperties

(* Steps put behind others.                                                *)
LEMMA OneAndTwo ==
  ASSUME NEW a1, NEW b1, NEW b2
  PROVE  <<a1>> \o <<b1, b2>> = <<a1, b1, b2>>
<1>1. PICK a, b, S : a = <<a1>> /\ b = <<b1, b2>> /\ S = {a1, b1, b2}
  OBVIOUS
<1>2. /\ a \in Seq(S) /\ Len(a) = 1 /\ a[1] = a1
  BY <1>1
<1>3. /\ b \in Seq(S) /\ Len(b) = 2 /\ b[1] = b1 /\ b[2] = b2
  BY <1>1
<1>4. PICK c : c = a \o b
  OBVIOUS
<1>5. /\ c \in Seq(S) /\ Len(c) = 1 + 2
      /\ \A k \in 1 .. 1 : c[k] = a[k]
      /\ \A k \in 1 .. 2 : c[1 + k] = b[k]
  <2>1. a \in Seq(S) /\ b \in Seq(S)
    BY <1>2, <1>3
  <2>2. /\ c \in Seq(S) /\ Len(c) = Len(a) + Len(b)
        /\ \A k \in 1 .. Len(a) : c[k] = a[k]
        /\ \A k \in 1 .. Len(b) : c[Len(a) + k] = b[k]
    BY <1>4, <2>1, ConcatIs
  <2> QED BY <1>2, <1>3, <2>2
<1>6. c = <<a1, b1, b2>>
  BY <1>2, <1>3, <1>5
<1> QED BY <1>1, <1>4, <1>6

LEMMA TwoAndOne ==
  ASSUME NEW a1, NEW a2, NEW b1
  PROVE  <<a1, a2>> \o <<b1>> = <<a1, a2, b1>>
<1>1. PICK a, b, S : a = <<a1, a2>> /\ b = <<b1>> /\ S = {a1, a2, b1}
  OBVIOUS
<1>2. /\ a \in Seq(S) /\ Len(a) = 2 /\ a[1] = a1 /\ a[2] = a2
  BY <1>1
<1>3. /\ b \in Seq(S) /\ Len(b) = 1 /\ b[1] = b1
  BY <1>1
<1>4. PICK c : c = a \o b
  OBVIOUS
<1>5. /\ c \in Seq(S) /\ Len(c) = 2 + 1
      /\ \A k \in 1 .. 2 : c[k] = a[k]
      /\ \A k \in 1 .. 1 : c[2 + k] = b[k]
  <2>1. a \in Seq(S) /\ b \in Seq(S)
    BY <1>2, <1>3
  <2>2. /\ c \in Seq(S) /\ Len(c) = Len(a) + Len(b)
        /\ \A k \in 1 .. Len(a) : c[k] = a[k]
        /\ \A k \in 1 .. Len(b) : c[Len(a) + k] = b[k]
    BY <1>4, <2>1, ConcatIs
  <2> QED BY <1>2, <1>3, <2>2
<1>6. c = <<a1, a2, b1>>
  BY <1>2, <1>3, <1>5
<1> QED BY <1>1, <1>4, <1>6

LEMMA ThreeAndOne ==
  ASSUME NEW a1, NEW a2, NEW a3, NEW b1
  PROVE  <<a1, a2, a3>> \o <<b1>> = <<a1, a2, a3, b1>>
<1>1. PICK a, b, S : a = <<a1, a2, a3>> /\ b = <<b1>> /\ S = {a1, a2, a3, b1}
  OBVIOUS
<1>2. /\ a \in Seq(S) /\ Len(a) = 3 /\ a[1] = a1 /\ a[2] = a2 /\ a[3] = a3
  BY <1>1
<1>3. /\ b \in Seq(S) /\ Len(b) = 1 /\ b[1] = b1
  BY <1>1
<1>4. PICK c : c = a \o b
  OBVIOUS
<1>5. /\ c \in Seq(S) /\ Len(c) = 3 + 1
      /\ \A k \in 1 .. 3 : c[k] = a[k]
      /\ \A k \in 1 .. 1 : c[3 + k] = b[k]
  <2>1. a \in Seq(S) /\ b \in Seq(S)
    BY <1>2, <1>3
  <2>2. /\ c \in Seq(S) /\ Len(c) = Len(a) + Len(b)
        /\ \A k \in 1 .. Len(a) : c[k] = a[k]
        /\ \A k \in 1 .. Len(b) : c[Len(a) + k] = b[k]
    BY <1>4, <2>1, ConcatIs
  <2> QED BY <1>2, <1>3, <2>2
<1>6. c = <<a1, a2, a3, b1>>
  BY <1>2, <1>3, <1>5
<1> QED BY <1>1, <1>4, <1>6

LEMMA FourAndOne ==
  ASSUME NEW a1, NEW a2, NEW a3, NEW a4, NEW b1
  PROVE  <<a1, a2, a3, a4>> \o <<b1>> = <<a1, a2, a3, a4, b1>>
<1>1. PICK a, b, S : a = <<a1, a2, a3, a4>> /\ b = <<b1>> /\ S = {a1, a2, a3, a4, b1}
  OBVIOUS
<1>2. /\ a \in Seq(S) /\ Len(a) = 4 /\ a[1] = a1 /\ a[2] = a2 /\ a[3] = a3 /\ a[4] = a4
  BY <1>1
<1>3. /\ b \in Seq(S) /\ Len(b) = 1 /\ b[1] = b1
  BY <1>1
<1>4. PICK c : c = a \o b
  OBVIOUS
<1>5. /\ c \in Seq(S) /\ Len(c) = 4 + 1
      /\ \A k \in 1 .. 4 : c[k] = a[k]
      /\ \A k \in 1 .. 1 : c[4 + k] = b[k]
  <2>1. a \in Seq(S) /\ b \in Seq(S)
    BY <1>2, <1>3
  <2>2. /\ c \in Seq(S) /\ Len(c) = Len(a) + Len(b)
        /\ \A k \in 1 .. Len(a) : c[k] = a[k]
        /\ \A k \in 1 .. Len(b) : c[Len(a) + k] = b[k]
    BY <1>4, <2>1, ConcatIs
  <2> QED BY <1>2, <1>3, <2>2
<1>6. c = <<a1, a2, a3, a4, b1>>
  BY <1>2, <1>3, <1>5
<1> QED BY <1>1, <1>4, <1>6

LEMMA NineAndOne ==
  ASSUME NEW a1, NEW a2, NEW a3, NEW a4, NEW a5, NEW a6, NEW a7, NEW a8, NEW a9, NEW b1
  PROVE  <<a1, a2, a3, a4, a5, a6, a7, a8, a9>> \o <<b1>>
           = <<a1, a2, a3, a4, a5, a6, a7, a8, a9, b1>>
<1>1. PICK a, b, S : /\ a = <<a1, a2, a3, a4, a5, a6, a7, a8, a9>> /\ b = <<b1>>
                     /\ S = {a1, a2, a3, a4, a5, a6, a7, a8, a9, b1}
  OBVIOUS
<1>2. /\ a \in Seq(S) /\ Len(a) = 9 /\ a[1] = a1 /\ a[2] = a2 /\ a[3] = a3
      /\ a[4] = a4 /\ a[5] = a5 /\ a[6] = a6 /\ a[7] = a7 /\ a[8] = a8 /\ a[9] = a9
  BY <1>1
<1>3. /\ b \in Seq(S) /\ Len(b) = 1 /\ b[1] = b1
  BY <1>1
<1>4. PICK c : c = a \o b
  OBVIOUS
<1>5. /\ c \in Seq(S) /\ Len(c) = 9 + 1
      /\ \A k \in 1 .. 9 : c[k] = a[k]
      /\ \A k \in 1 .. 1 : c[9 + k] = b[k]
  <2>1. a \in Seq(S) /\ b \in Seq(S)
    BY <1>2, <1>3
  <2>2. /\ c \in Seq(S) /\ Len(c) = Len(a) + Len(b)
        /\ \A k \in 1 .. Len(a) : c[k] = a[k]
        /\ \A k \in 1 .. Len(b) : c[Len(a) + k] = b[k]
    BY <1>4, <2>1, ConcatIs
  <2> QED BY <1>2, <1>3, <2>2
<1>6. c = <<a1, a2, a3, a4, a5, a6, a7, a8, a9, b1>>
  BY <1>2, <1>3, <1>5
<1> QED BY <1>1, <1>4, <1>6

----------------------------------------------------------------------------
(* The call stack.                                                         *)
LEMMA LeadsOn ==
  ASSUME NEW t, NEW v, Leads(t, v), Len(t) >= 2
  PROVE  \E r, x :
           /\ r = Tail(t) /\ Leads(r, x) /\ r \in Seq(Steps) /\ Len(r) = Len(t) - 1
           /\ \A k \in 1 .. Len(t) - 1 : r[k] = t[k + 1] /\ x[k] = v[k + 1]
<1>1. t \in Seq(Steps) /\ v \in Seq(Nat) /\ Len(v) = Len(t) /\ Len(t) \in Nat
  BY DEF Leads
<1>2. PICK r \in Seq(Steps) :
        /\ r = Tail(t) /\ r # <<>> /\ Len(r) = Len(t) - 1
        /\ \A k \in 1 .. Len(t) - 1 : r[k] = t[k + 1]
  BY <1>1, TailIs, Zenon
<1>3. PICK x \in Seq(Nat) :
        Len(x) = Len(t) - 1 /\ \A k \in 1 .. Len(t) - 1 : x[k] = v[k + 1]
  <2>1. Len(v) >= 2
    BY <1>1
  <2>2. PICK x \in Seq(Nat) :
          Len(x) = Len(v) - 1 /\ \A k \in 1 .. Len(v) - 1 : x[k] = v[k + 1]
    BY <1>1, <2>1, TailIs, Zenon
  <2> QED BY <1>1, <2>2
<1>4. \A k \in 1 .. Len(r) - 1 :
         /\ x[k] > 0 /\ Precedes(r[k], r[k + 1])
         /\ x[k + 1] = IF r[k] \in {"check", "declare"} THEN x[k] - 1 ELSE x[k]
  <2> TAKE k \in 1 .. Len(r) - 1
  <2>1. k + 1 \in 1 .. Len(t) - 1 /\ k \in 1 .. Len(t) - 1
    BY <1>1, <1>2
  <2>2. /\ v[k + 1] > 0 /\ Precedes(t[k + 1], t[(k + 1) + 1])
        /\ v[(k + 1) + 1] = IF t[k + 1] \in {"check", "declare"} THEN v[k + 1] - 1 ELSE v[k + 1]
    BY <2>1 DEF Leads
  <2>3. r[k] = t[k + 1] /\ x[k] = v[k + 1] /\ r[k + 1] = t[(k + 1) + 1]
          /\ x[k + 1] = v[(k + 1) + 1]
    BY <1>2, <1>3, <2>1
  <2> QED BY <2>2, <2>3
<1>5. \A j, k \in 1 .. Len(r) : j <= k => x[k] <= x[j]
  BY <1>1, <1>2, <1>3 DEF Leads
<1>6. r[Len(r)] = "declaration" /\ x[Len(r)] = 0
  BY <1>1, <1>2, <1>3, SMTT(30) DEF Leads
<1>a. CondOrder(r)
  <2> SUFFICES ASSUME NEW k \in 1 .. Len(r) - 2
               PROVE  /\ r[k] = "comparison" => r[k + 2] # "comparison"
                      /\ r[k] = "(" => r[k + 2] = "comparison"
    BY DEF CondOrder
  <2>1. k + 1 \in 1 .. Len(t) - 2 /\ k \in 1 .. Len(t) - 1 /\ k + 2 \in 1 .. Len(t) - 1
          /\ (k + 2) + 1 = (k + 1) + 2
    BY <1>1, <1>2
  <2>2. /\ t[k + 1] = "comparison" => t[(k + 1) + 2] # "comparison"
        /\ t[k + 1] = "(" => t[(k + 1) + 2] = "comparison"
    BY <2>1 DEF Leads, CondOrder
  <2> QED BY <1>2, <2>1, <2>2
<1>7. Leads(r, x)
  BY <1>2, <1>3, <1>4, <1>5, <1>6, <1>a DEF Leads
<1> DEFINE Rest(a, b) == /\ a = Tail(t) /\ Leads(a, b) /\ a \in Seq(Steps) /\ Len(a) = Len(t) - 1
                         /\ \A k \in 1 .. Len(t) - 1 : a[k] = t[k + 1] /\ b[k] = v[k + 1]
<1>8. Rest(r, x)
  BY <1>2, <1>3, <1>7
<1>9. \E a, b : Rest(a, b)
  <2> HIDE DEF Rest
  <2> QED BY <1>8, Zenon
<1> QED BY <1>9, Zenon

(* Steps for one statement put in front.                                   *)
Level(p, n) == [k \in 1 .. Len(p) |-> n]
Lined(p, first) ==
  /\ p \in Seq(Steps)
  /\ \A k \in 1 .. Len(p) - 1 : Precedes(p[k], p[k + 1]) /\ p[k] \notin {"check", "declare"}
  /\ p # <<>> => Precedes(p[Len(p)], first) /\ p[Len(p)] \notin {"comparison", "("}
  /\ CondOrder(p)
  /\ Len(p) >= 2 => /\ p[Len(p) - 1] = "comparison" => first # "comparison"
                    /\ p[Len(p) - 1] # "("

(* u and x are p, whose steps are at level n, with t and v behind.         *)
Extended(u, x, p, n, t, v) ==
  /\ u = p \o t /\ Leads(u, x) /\ Len(u) = Len(p) + Len(t)
  /\ \A k \in 1 .. Len(p) : u[k] = p[k] /\ x[k] = n
  /\ \A k \in 1 .. Len(t) : u[Len(p) + k] = t[k] /\ x[Len(p) + k] = v[k]

LEMMA LeadsFrom ==
  ASSUME NEW t, NEW v, Leads(t, v), NEW p, NEW n \in Nat \ {0}, Lined(p, t[1]),
         p # <<>> => v[1] = IF p[Len(p)] \in {"check", "declare"} THEN n - 1 ELSE n
  PROVE  \E u, x : Extended(u, x, p, n, t, v)
<1>0. PICK w : w = Level(p, n)
  OBVIOUS
<1>a. PICK u : u = p \o t
  OBVIOUS
<1>b. PICK x : x = w \o v
  OBVIOUS
<1>1. /\ t \in Seq(Steps) /\ v \in Seq(Nat) /\ Len(v) = Len(t) /\ Len(t) \in Nat \ {0}
      /\ p \in Seq(Steps) /\ Len(p) \in Nat
  BY DEF Leads, Lined
<1>2. w \in Seq(Nat) /\ Len(w) = Len(p) /\ \A k \in 1 .. Len(p) : w[k] = n
  BY <1>0, <1>1 DEF Level
<1>3. /\ u \in Seq(Steps) /\ Len(u) = Len(p) + Len(t)
      /\ \A k \in 1 .. Len(p) : u[k] = p[k]
      /\ \A k \in 1 .. Len(t) : u[Len(p) + k] = t[k]
  BY <1>1, <1>a, ConcatIs
<1>4. /\ x \in Seq(Nat) /\ Len(x) = Len(p) + Len(t)
      /\ \A k \in 1 .. Len(p) : x[k] = n
      /\ \A k \in 1 .. Len(t) : x[Len(p) + k] = v[k]
  <2>1. /\ x \in Seq(Nat) /\ Len(x) = Len(w) + Len(v)
        /\ \A k \in 1 .. Len(w) : x[k] = w[k]
        /\ \A k \in 1 .. Len(v) : x[Len(w) + k] = v[k]
    <3>1. PICK S : S = Nat
      OBVIOUS
    <3>2. w \in Seq(S) /\ v \in Seq(S)
      BY <1>1, <1>2, <3>1
    <3> QED BY <1>b, <3>1, <3>2, ConcatIs
  <2> QED BY <1>1, <1>2, <2>1
<1>5. u # <<>> /\ u[Len(u)] = "declaration" /\ x[Len(u)] = 0
  BY <1>1, <1>3, <1>4, SMTT(30) DEF Leads
<1>6. \A k \in 1 .. Len(t) : v[k] <= v[1]
  BY <1>1 DEF Leads
<1>7. p # <<>> => v[1] <= n /\ v[1] \in Nat
  BY <1>1
<1>8. \A k \in 1 .. Len(u) - 1 :
        /\ x[k] > 0 /\ Precedes(u[k], u[k + 1])
        /\ x[k + 1] = IF u[k] \in {"check", "declare"} THEN x[k] - 1 ELSE x[k]
  <2> TAKE k \in 1 .. Len(u) - 1
  <2>1. CASE k < Len(p)
    <3>1. k \in 1 .. Len(p) - 1 /\ k \in 1 .. Len(p) /\ k + 1 \in 1 .. Len(p)
      BY <1>1, <1>3, <2>1
    <3>2. u[k] = p[k] /\ u[k + 1] = p[k + 1] /\ x[k] = n /\ x[k + 1] = n
      BY <1>3, <1>4, <3>1
    <3> QED BY <3>1, <3>2 DEF Lined
  <2>2. CASE k = Len(p)
    <3>1. k \in 1 .. Len(p) /\ 1 \in 1 .. Len(t) /\ p # <<>>
      BY <1>1, <1>3, <2>2
    <3>2. u[k] = p[k] /\ u[k + 1] = t[1] /\ x[k] = n /\ x[k + 1] = v[1]
      BY <1>3, <1>4, <2>2, <3>1
    <3> QED BY <2>2, <3>1, <3>2 DEF Lined
  <2>3. CASE k > Len(p)
    <3>1. PICK i \in 1 .. Len(t) - 1 : k = Len(p) + i
      <4>1. k - Len(p) \in 1 .. Len(t) - 1 /\ k = Len(p) + (k - Len(p))
        BY <1>1, <1>3, <2>3
      <4> QED BY <4>1
    <3>2. i \in 1 .. Len(t) /\ i + 1 \in 1 .. Len(t) /\ k + 1 = Len(p) + (i + 1)
      BY <1>1, <3>1
    <3>3. u[k] = t[i] /\ u[k + 1] = t[i + 1] /\ x[k] = v[i] /\ x[k + 1] = v[i + 1]
      BY <1>3, <1>4, <3>1, <3>2
    <3> QED BY <3>1, <3>3 DEF Leads
  <2> QED BY <1>1, <1>3, <2>1, <2>2, <2>3
<1>9. \A j, k \in 1 .. Len(u) : j <= k => x[k] <= x[j]
  <2> SUFFICES ASSUME NEW j \in 1 .. Len(u), NEW k \in 1 .. Len(u), j <= k PROVE x[k] <= x[j]
    OBVIOUS
  <2>1. CASE k <= Len(p)
    <3>1. x[k] = n /\ x[j] = n
      BY <1>1, <1>3, <1>4, <2>1
    <3> QED BY <3>1
  <2>2. CASE k > Len(p)
    <3>1. PICK i \in 1 .. Len(t) : k = Len(p) + i
      <4>1. k - Len(p) \in 1 .. Len(t) /\ k = Len(p) + (k - Len(p))
        BY <1>1, <1>3, <2>2
      <4> QED BY <4>1
    <3>2. x[k] = v[i] /\ v[i] \in Nat
      <4>1. i \in 1 .. Len(v)
        BY <1>1, <3>1
      <4> QED BY <1>1, <1>4, <3>1, <4>1, ElementOfSeq
    <3>3. CASE j <= Len(p)
      <4>1. x[j] = n /\ p # <<>>
        BY <1>1, <1>3, <1>4, <3>3
      <4> QED BY <1>6, <1>7, <3>2, <4>1
    <3>4. CASE j > Len(p)
      <4>1. PICK m \in 1 .. Len(t) : j = Len(p) + m
        <5>1. j - Len(p) \in 1 .. Len(t) /\ j = Len(p) + (j - Len(p))
          BY <1>1, <1>3, <3>4
        <5> QED BY <5>1
      <4>2. x[j] = v[m] /\ m <= i
        BY <1>1, <1>4, <3>1, <4>1
      <4> QED BY <3>2, <4>2 DEF Leads
    <3> QED BY <1>1, <3>3, <3>4
  <2> QED BY <1>1, <1>3, <2>1, <2>2
<1>c. CondOrder(u)
  <2> SUFFICES ASSUME NEW k \in 1 .. Len(u) - 2
               PROVE  /\ u[k] = "comparison" => u[k + 2] # "comparison"
                      /\ u[k] = "(" => u[k + 2] = "comparison"
    BY DEF CondOrder
  <2>1. CASE k + 2 <= Len(p)
    <3>1. k \in 1 .. Len(p) - 2 /\ k \in 1 .. Len(p) /\ k + 2 \in 1 .. Len(p)
      BY <1>1, <1>3, <2>1
    <3>2. /\ p[k] = "comparison" => p[k + 2] # "comparison"
          /\ p[k] = "(" => p[k + 2] = "comparison"
      BY <3>1 DEF Lined, CondOrder
    <3> QED BY <1>3, <3>1, <3>2
  <2>2. CASE k + 1 = Len(p)
    <3>1. k \in 1 .. Len(p) /\ k = Len(p) - 1 /\ Len(p) >= 2 /\ 1 \in 1 .. Len(t) /\ k + 2 = Len(p) + 1
      BY <1>1, <1>3, <2>2
    <3>2. /\ p[Len(p) - 1] = "comparison" => t[1] # "comparison"
          /\ p[Len(p) - 1] # "("
      BY <3>1 DEF Lined
    <3>3. u[Len(p) + 1] = t[1] /\ u[k] = p[k]
      BY <1>3, <3>1
    <3> QED BY <3>1, <3>2, <3>3
  <2>3. CASE k = Len(p)
    <3>1. k \in 1 .. Len(p) /\ p # <<>>
      BY <1>1, <1>3, <2>3
    <3>2. p[Len(p)] # "comparison" /\ p[Len(p)] # "("
      BY <3>1 DEF Lined
    <3> QED BY <1>3, <2>3, <3>1, <3>2
  <2>4. CASE k > Len(p)
    <3>1. PICK i \in 1 .. Len(t) - 2 : k = Len(p) + i
      <4>1. k - Len(p) \in 1 .. Len(t) - 2 /\ k = Len(p) + (k - Len(p))
        BY <1>1, <1>3, <2>4
      <4> QED BY <4>1
    <3>2. i \in 1 .. Len(t) /\ i + 2 \in 1 .. Len(t) /\ k + 2 = Len(p) + (i + 2)
      BY <1>1, <3>1
    <3>3. u[k] = t[i] /\ u[k + 2] = t[i + 2]
      BY <1>3, <3>1, <3>2
    <3>4. /\ t[i] = "comparison" => t[i + 2] # "comparison"
          /\ t[i] = "(" => t[i + 2] = "comparison"
      BY <3>1 DEF Leads, CondOrder
    <3> QED BY <3>3, <3>4
  <2> QED BY <1>1, <1>3, <2>1, <2>2, <2>3, <2>4
<1>10. Leads(u, x)
  BY <1>3, <1>4, <1>5, <1>8, <1>9, <1>c DEF Leads
<1>11. Extended(u, x, p, n, t, v)
  BY <1>3, <1>4, <1>10, <1>a DEF Extended
<1> QED BY <1>11

----------------------------------------------------------------------------
(* What a step does to the call stack and the statements.                  *)
SameKind(s, z) ==
  z.blocks = s.blocks /\ (z.tag = s.tag \/ (s.tag \in PlainTags /\ z.tag \in PlainTags))

LEMMA KindKept ==
  ASSUME NEW s, NEW z, SameKind(s, z), NEW step
  PROVE  /\ (step = "after-source" /\ s.tag \in Assigning => z.tag \in Assigning)
              /\ StepFits(step, s) => StepFits(step, z)
         /\ BlocksBefore(step, z) = BlocksBefore(step, s)
BY DEF SameKind, StepFits, BlocksBefore, PlainTags, BlockTags

(* Behind a check or a declare the steps are for outer statements.         *)
LEMMA LevelsFall ==
  ASSUME NEW t, NEW v, Leads(t, v), NEW k \in 1 .. Len(t) - 1, t[k] \in {"check", "declare"},
         NEW j \in 1 .. Len(t), j > k
  PROVE  v[j] <= v[k] - 1
<1>1. Len(t) \in Nat
  BY DEF Leads
<1>2. v[k + 1] = v[k] - 1
  BY DEF Leads
<1>3. k + 1 \in 1 .. Len(t) /\ k + 1 <= j
  BY <1>1
<1>4. v[j] <= v[k + 1]
  BY <1>3 DEF Leads
<1> QED BY <1>2, <1>4

(* The next step is taken, which may call for the steps p, and the         *)
(* innermost statement becomes one of the same kind.                       *)
Takes(t, p, b, c) ==
  LET z    == c[Len(b)].stmt
      next == IF p = <<>> THEN t[2] ELSE p[1]
      then == IF p = <<>> THEN t[3] ELSE IF Len(p) = 1 THEN t[2] ELSE p[2]
  IN /\ t[1] \notin {"brace", "statements", "check", "declare", "declaration"}
     /\ Lined(p, t[2]) /\ \A k \in 1 .. Len(p) : p[k] \notin {"check", "declare"}
     /\ Len(c) = Len(b) /\ \A m \in 1 .. Len(b) - 1 : c[m].stmt = b[m].stmt
     /\ SameKind(b[Len(b)].stmt, z)
     /\ t[1] # "after-source" /\ b[Len(b)].stmt.tag \in Assigning => z.tag \in Assigning
     /\ \A k \in 1 .. Len(p) :
          /\ StepFits(p[k], z)
          /\ p[k] = "statements" =>
               Len(z.blocks) = BlocksBefore(IF k = Len(p) THEN t[2] ELSE p[k + 1], z)
     /\ p # <<>> => p[1] # "statements"
     /\ HeadFits(next, then, z)

LEMMA StepTaken ==
  ASSUME NEW t, NEW v, NEW b, Fits(t, v, b), NEW p, NEW c, Takes(t, p, b, c)
  PROVE  \E w : Fits(p \o Tail(t), w, c)
<1>0. PICK z : z = c[Len(b)].stmt
  OBVIOUS
<1>a. PICK next, then :
        /\ next = (IF p = <<>> THEN t[2] ELSE p[1])
        /\ then = (IF p = <<>> THEN t[3] ELSE IF Len(p) = 1 THEN t[2] ELSE p[2])
  OBVIOUS
<1>b. /\ t[1] \notin {"brace", "statements", "check", "declare", "declaration"}
      /\ Lined(p, t[2]) /\ \A k \in 1 .. Len(p) : p[k] \notin {"check", "declare"}
      /\ Len(c) = Len(b) /\ \A m \in 1 .. Len(b) - 1 : c[m].stmt = b[m].stmt
      /\ SameKind(b[Len(b)].stmt, z)
      /\ t[1] # "after-source" /\ b[Len(b)].stmt.tag \in Assigning => z.tag \in Assigning
      /\ p # <<>> => p[1] # "statements"
      /\ HeadFits(next, then, z)
  BY <1>0, <1>a DEF Takes
<1>c. \A k \in 1 .. Len(p) :
        /\ StepFits(p[k], z)
        /\ p[k] = "statements" =>
             Len(z.blocks) = BlocksBefore(IF k = Len(p) THEN t[2] ELSE p[k + 1], z)
  BY <1>0 DEF Takes
<1>1. /\ Leads(t, v) /\ t \in Seq(Steps) /\ v \in Seq(Nat) /\ Len(v) = Len(t)
      /\ Len(t) \in Nat \ {0} /\ t[Len(t)] = "declaration"
  <2>1. Leads(t, v)
    BY DEF Fits
  <2>2. t \in Seq(Steps) /\ t # <<>> /\ v \in Seq(Nat) /\ Len(v) = Len(t) /\ t[Len(t)] = "declaration"
    BY <2>1 DEF Leads
  <2> QED BY <2>1, <2>2
<1>2. Len(t) >= 2 /\ 1 \in 1 .. Len(t) - 1
  <2>1. Len(t) # 1
    BY <1>1, <1>b
  <2> QED BY <1>1, <2>1
<1>3. PICK n : n = v[1]
  OBVIOUS
<1>4. n \in Nat \ {0} /\ v[2] = n /\ Len(b) = n
  <2>1. t[1] \notin {"check", "declare"} /\ t[1] # "statements"
    BY <1>b
  <2>2. v[1] > 0 /\ v[1 + 1] = v[1] /\ v[1] \in Nat
    BY <1>1, <1>2, <2>1 DEF Leads
  <2>3. Len(b) = v[1]
    BY <2>1, <2>2 DEF Fits
  <2> QED BY <1>3, <2>2, <2>3
<1>5. PICK r, x :
        /\ r = Tail(t) /\ Leads(r, x) /\ r \in Seq(Steps) /\ Len(r) = Len(t) - 1
        /\ \A k \in 1 .. Len(t) - 1 : r[k] = t[k + 1] /\ x[k] = v[k + 1]
  <2>1. Leads(t, v) /\ Len(t) >= 2
    BY <1>1, <1>2
  <2> QED BY <2>1, LeadsOn
<1>6. r[1] = t[2] /\ x[1] = n
  BY <1>2, <1>4, <1>5
<1>7. /\ p \in Seq(Steps) /\ Len(p) \in Nat
      /\ p # <<>> => Len(p) \in 1 .. Len(p) /\ 1 \in 1 .. Len(p)
      /\ p = <<>> => Len(p) = 0
  <2>1. p \in Seq(Steps)
    BY <1>b DEF Lined
  <2>2. Len(p) \in Nat /\ (p # <<>> <=> Len(p) # 0)
    BY <2>1, EmptySeq
  <2> QED BY <2>1, <2>2
<1>f. PICK u, w : Extended(u, w, p, n, r, x)
  <2>1. Lined(p, r[1]) /\ (p # <<>> => x[1] = IF p[Len(p)] \in {"check", "declare"} THEN n - 1 ELSE n)
    BY <1>b, <1>6, <1>7
  <2>2. Leads(r, x) /\ n \in Nat \ {0}
    BY <1>4, <1>5
  <2> QED BY <2>1, <2>2, LeadsFrom
<1>8. /\ u = p \o r /\ Leads(u, w) /\ Len(u) = Len(p) + Len(r)
      /\ \A k \in 1 .. Len(p) : u[k] = p[k] /\ w[k] = n
      /\ \A k \in 1 .. Len(r) : u[Len(p) + k] = r[k] /\ w[Len(p) + k] = x[k]
  BY <1>f DEF Extended
<1>9. \A m \in 1 .. Len(b) : m < n => c[m].stmt = b[m].stmt
  <2> SUFFICES ASSUME NEW m \in 1 .. Len(b), m < n PROVE c[m].stmt = b[m].stmt
    OBVIOUS
  <2>1. m \in 1 .. Len(b) - 1
    BY <1>4
  <2> QED BY <1>b, <2>1
<1>d. Len(r) \in Nat /\ Len(r) >= 1
  BY <1>1, <1>2, <1>5
<1>e. u[Len(p) + 1] = r[1] /\ w[Len(p) + 1] = x[1]
  BY <1>8, <1>d
<1>10. u[1] # "statements" /\ w[1] = n /\ HeadFits(u[1], u[2], z)
  <2>1. CASE p = <<>>
    <3>2. u[1] = t[2] /\ w[1] = n
      BY <1>6, <1>7, <1>e, <2>1
    <3>3. t[2] # "declaration"
      <4>1. Len(t) # 2
        BY <1>1, <1>4 DEF Leads
      <4>2. 2 \in 1 .. Len(t) - 1
        BY <1>1, <1>2, <4>1
      <4>3. Precedes(t[2], t[3])
        BY <1>1, <4>2 DEF Leads
      <4> QED BY <4>3 DEF Precedes
    <3>4. 2 \in 1 .. Len(t) - 1 /\ 2 \in 1 .. Len(r)
      <4>1. Len(t) # 2
        BY <1>1, <3>3
      <4> QED BY <1>1, <1>2, <1>5, <4>1
    <3>5. u[2] = t[3]
      <4>1. u[Len(p) + 2] = r[2]
        BY <1>8, <3>4
      <4>2. r[2] = t[2 + 1]
        BY <1>5, <3>4
      <4> QED BY <1>7, <2>1, <4>1, <4>2
    <3>6. Precedes(t[1], t[2])
      BY <1>1, <1>2 DEF Leads
    <3>7. t[2] # "statements"
      BY <1>b, <3>6 DEF Precedes
    <3>8. next = t[2] /\ then = t[3]
      BY <1>a, <2>1
    <3>9. HeadFits(next, then, z)
      BY <1>b
    <3>10. u[1] = next /\ u[2] = then
      BY <3>2, <3>5, <3>8
    <3>11. HeadFits(u[1], u[2], z)
      BY <3>9, <3>10
    <3> QED BY <3>2, <3>7, <3>11
  <2>2. CASE p # <<>>
    <3>1. u[1] = p[1] /\ w[1] = n
      BY <1>7, <1>8, <2>2
    <3>2. CASE Len(p) = 1
      <4>1. u[1] = next /\ u[2] = then
        BY <1>6, <1>a, <1>e, <2>2, <3>1, <3>2
      <4>2. HeadFits(u[1], u[2], z)
        BY <1>b, <4>1
      <4>3. u[1] # "statements"
        BY <1>b, <2>2, <3>1
      <4> QED BY <3>1, <4>2, <4>3
    <3>3. CASE Len(p) # 1
      <4>1. 2 \in 1 .. Len(p)
        BY <1>7, <2>2, <3>3
      <4>2. u[2] = p[2]
        BY <1>8, <4>1
      <4> QED BY <1>a, <1>b, <2>2, <3>1, <3>3, <4>2
    <3> QED BY <3>2, <3>3
  <2> QED BY <2>1, <2>2
<1>11. \A k \in 1 .. Len(u) : k <= Len(p) \/ \E i \in 1 .. Len(r) : k = Len(p) + i
  <2> SUFFICES ASSUME NEW k \in 1 .. Len(u), ~(k <= Len(p)) PROVE \E i \in 1 .. Len(r) : k = Len(p) + i
    OBVIOUS
  <2>1. k - Len(p) \in 1 .. Len(r) /\ k = Len(p) + (k - Len(p))
    <3>1. Len(u) = Len(p) + Len(r)
      BY <1>8
    <3> QED BY <1>7, <1>d, <3>1
  <2> QED BY <2>1
<1>12. ASSUME NEW i \in 1 .. Len(r), x[i] > 0
       PROVE  /\ i + 1 \in 2 .. Len(t) /\ r[i] = t[i + 1] /\ x[i] = v[i + 1]
              /\ SameKind(b[x[i]].stmt, c[x[i]].stmt)
              /\ r[i] = "after-source" /\ b[x[i]].stmt.tag \in Assigning =>
                   c[x[i]].stmt.tag \in Assigning
  <2>1. i + 1 \in 2 .. Len(t) /\ r[i] = t[i + 1] /\ x[i] = v[i + 1]
    BY <1>1, <1>5
  <2>2. v[i + 1] <= v[1] /\ v[i + 1] \in Nat
    <3>1. i + 1 \in 1 .. Len(v) /\ 1 \in 1 .. Len(t) /\ 1 <= i + 1
      BY <1>1, <2>1
    <3>2. v[i + 1] \in Nat
      BY <1>1, <3>1, ElementOfSeq
    <3> QED BY <1>1, <3>1, <3>2 DEF Leads
  <2>3. x[i] \in 1 .. n
    BY <1>3, <1>4, <1>12, <2>1, <2>2
  <2>4. CASE x[i] < n
    <3>1. c[x[i]].stmt = b[x[i]].stmt
      BY <1>4, <1>9, <2>3, <2>4
    <3> QED BY <2>1, <3>1 DEF SameKind
  <2>5. CASE x[i] = n
    <3>1. SameKind(b[x[i]].stmt, c[x[i]].stmt)
      BY <1>0, <1>4, <1>b, <2>5
    <3>2. t[1] # "after-source" \/ r[i] # "after-source"
      <4> SUFFICES ASSUME t[1] = "after-source", r[i] = "after-source" PROVE FALSE
        OBVIOUS
      <4>1. t[2] = "check"
        <5>1. Precedes(t[1], t[2])
          BY <1>1, <1>2 DEF Leads
        <5> QED BY <5>1 DEF Precedes
      <4>2. i # 1
        BY <1>6, <4>1
      <4>3. i + 1 \in 1 .. Len(t) /\ i + 1 > 2 /\ 2 \in 1 .. Len(t) - 1
        BY <1>1, <1>2, <2>1, <4>2, SMTT(30)
      <4>4. v[i + 1] <= v[2] - 1
        BY <1>1, <4>1, <4>3, LevelsFall
      <4> QED BY <1>4, <2>1, <2>5, <4>4
    <3>3. t[1] # "after-source" => (b[x[i]].stmt.tag \in Assigning => c[x[i]].stmt.tag \in Assigning)
      BY <1>0, <1>4, <1>b, <2>5
    <3> QED BY <2>1, <3>1, <3>2, <3>3
  <2> QED BY <1>4, <2>3, <2>4, <2>5
<1>13. \A k \in 2 .. Len(u) : w[k] > 0 => StepFits(u[k], c[w[k]].stmt)
  <2> SUFFICES ASSUME NEW k \in 2 .. Len(u), w[k] > 0 PROVE StepFits(u[k], c[w[k]].stmt)
    OBVIOUS
  <2>1. CASE k <= Len(p)
    <3>1. k \in 1 .. Len(p)
      BY <1>7, <2>1
    <3>2. u[k] = p[k] /\ w[k] = n /\ StepFits(p[k], z)
      BY <1>8, <1>c, <3>1
    <3> QED BY <1>0, <1>4, <3>2
  <2>2. ASSUME NEW i \in 1 .. Len(r), k = Len(p) + i PROVE StepFits(u[k], c[w[k]].stmt)
    <3>1. u[k] = r[i] /\ w[k] = x[i] /\ x[i] > 0
      BY <1>8, <2>2
    <3>2. /\ i + 1 \in 2 .. Len(t) /\ r[i] = t[i + 1] /\ x[i] = v[i + 1]
          /\ SameKind(b[x[i]].stmt, c[x[i]].stmt)
          /\ r[i] = "after-source" /\ b[x[i]].stmt.tag \in Assigning =>
               c[x[i]].stmt.tag \in Assigning
      BY <1>12, <3>1
    <3>3. StepFits(t[i + 1], b[v[i + 1]].stmt)
      BY <3>1, <3>2 DEF Fits
    <3> QED BY <3>1, <3>2, <3>3, KindKept
  <2>3. k \in 1 .. Len(u)
    BY <1>7, <1>8, <1>d
  <2> QED BY <1>11, <2>1, <2>2, <2>3
<1>14. \A k \in 1 .. Len(u) - 1 :
         u[k] = "statements" => Len(c[w[k]].stmt.blocks) = BlocksBefore(u[k + 1], c[w[k]].stmt)
  <2> SUFFICES ASSUME NEW k \in 1 .. Len(u) - 1, u[k] = "statements"
               PROVE  Len(c[w[k]].stmt.blocks) = BlocksBefore(u[k + 1], c[w[k]].stmt)
    OBVIOUS
  <2>1. CASE k <= Len(p)
    <3>1. k \in 1 .. Len(p)
      BY <1>7, <2>1
    <3>a. p[k] = "statements" /\ w[k] = n
      BY <1>8, <3>1
    <3>2. u[k + 1] = IF k = Len(p) THEN t[2] ELSE p[k + 1]
      <4>1. CASE k = Len(p)
        BY <1>6, <1>e, <4>1
      <4>2. CASE k # Len(p)
        <5>1. k + 1 \in 1 .. Len(p)
          BY <1>7, <3>1, <4>2
        <5> QED BY <1>8, <4>2, <5>1
      <4> QED BY <4>1, <4>2
    <3>3. Len(z.blocks) = BlocksBefore(u[k + 1], z)
      BY <1>c, <3>1, <3>a, <3>2
    <3> QED BY <1>0, <1>4, <3>a, <3>3
  <2>2. ASSUME NEW i \in 1 .. Len(r), k = Len(p) + i
        PROVE  Len(c[w[k]].stmt.blocks) = BlocksBefore(u[k + 1], c[w[k]].stmt)
    <3>1. i \in 1 .. Len(r) - 1 /\ i + 1 \in 1 .. Len(r) /\ k + 1 = Len(p) + (i + 1)
      BY <1>7, <1>8, <1>d, <2>2
    <3>a. x[i] > 0
      BY <1>5, <3>1 DEF Leads
    <3>2. u[k] = r[i] /\ w[k] = x[i] /\ u[k + 1] = r[i + 1]
      BY <1>8, <2>2, <3>1
    <3>3. i + 1 \in 1 .. Len(t) - 1 /\ r[i + 1] = t[(i + 1) + 1]
      BY <1>1, <1>5, <3>1
    <3>4. /\ i + 1 \in 2 .. Len(t) /\ r[i] = t[i + 1] /\ x[i] = v[i + 1]
          /\ SameKind(b[x[i]].stmt, c[x[i]].stmt)
      BY <1>12, <3>a
    <3>5. Len(b[v[i + 1]].stmt.blocks) = BlocksBefore(t[(i + 1) + 1], b[v[i + 1]].stmt)
      BY <3>2, <3>3, <3>4 DEF Fits
    <3>6. c[x[i]].stmt.blocks = b[x[i]].stmt.blocks
      BY <3>4 DEF SameKind
    <3>7. BlocksBefore(t[(i + 1) + 1], c[x[i]].stmt) = BlocksBefore(t[(i + 1) + 1], b[x[i]].stmt)
      BY <3>4, KindKept
    <3>8. Len(c[x[i]].stmt.blocks) = BlocksBefore(t[(i + 1) + 1], c[x[i]].stmt)
      BY <3>4, <3>5, <3>6, <3>7
    <3> QED BY <3>2, <3>3, <3>8
  <2>3. k \in 1 .. Len(u)
    BY <1>7, <1>8, <1>d
  <2> QED BY <1>11, <2>1, <2>2, <2>3
<1>15. Len(c) = w[1] /\ HeadFits(u[1], u[2], c[w[1]].stmt)
  BY <1>0, <1>4, <1>10, <1>b
<1>16. Fits(u, w, c)
  <2>1. Leads(u, w)
    BY <1>8
  <2>2. Len(c) = w[1] + (IF u[1] = "statements" THEN 1 ELSE 0)
    BY <1>4, <1>10, <1>15
  <2> QED BY <1>13, <1>14, <1>15, <2>1, <2>2 DEF Fits
<1> QED BY <1>5, <1>8, <1>16

(* What Fits says of the steps alone.                                      *)
LEMMA FitsBasics ==
  ASSUME NEW t, NEW v, NEW b, Fits(t, v, b)
  PROVE  /\ Leads(t, v) /\ t \in Seq(Steps) /\ v \in Seq(Nat) /\ Len(v) = Len(t)
         /\ Len(t) \in Nat \ {0} /\ t[Len(t)] = "declaration"
         /\ \A k \in 1 .. Len(t) : v[k] \in Nat /\ v[k] <= v[1]
         /\ t[1] # "declaration" => Len(t) >= 2 /\ Precedes(t[1], t[2]) /\ v[1] > 0
         /\ Len(b) = v[1] + (IF t[1] = "statements" THEN 1 ELSE 0)
<1>1. Leads(t, v) /\ Len(b) = v[1] + (IF t[1] = "statements" THEN 1 ELSE 0)
  BY DEF Fits
<1>2. t \in Seq(Steps) /\ t # <<>> /\ v \in Seq(Nat) /\ Len(v) = Len(t) /\ t[Len(t)] = "declaration"
  BY <1>1 DEF Leads
<1>3. Len(t) \in Nat \ {0} /\ 1 \in 1 .. Len(t)
  BY <1>2
<1>4. \A k \in 1 .. Len(t) : v[k] \in Nat
  BY <1>2, ElementOfSeq
<1>5. \A k \in 1 .. Len(t) : v[k] <= v[1]
  BY <1>1, <1>3 DEF Leads
<1>6. ASSUME t[1] # "declaration" PROVE Len(t) >= 2 /\ Precedes(t[1], t[2]) /\ v[1] > 0
  <2>1. Len(t) # 1
    BY <1>2, <1>6
  <2>2. 1 \in 1 .. Len(t) - 1 /\ Len(t) >= 2
    <3>1. Len(t) \in Nat /\ Len(t) # 0 /\ Len(t) # 1
      BY <1>3, <2>1
    <3> QED BY <1>2, <3>1
  <2>3. Precedes(t[1], t[1 + 1]) /\ v[1] > 0
    BY <1>1, <2>2 DEF Leads
  <2> QED BY <2>2, <2>3
<1> QED BY <1>1, <1>2, <1>3, <1>4, <1>5, <1>6

(* The rest of the steps fit when the statements they are for are as they  *)
(* were, or differ where no step minds.                                    *)
RestFits(r, x, b, c) ==
  /\ Len(c) = x[1] + (IF r[1] = "statements" THEN 1 ELSE 0)
  /\ \A k \in 1 .. Len(r) : x[k] > 0 =>
       \/ c[x[k]].stmt = b[x[k]].stmt
       \/ /\ r[k] # "statements"
          /\ StepFits(r[k], b[x[k]].stmt) => StepFits(r[k], c[x[k]].stmt)
       \/ k = 1 /\ r[1] # "statements"
  /\ r[1] \notin {"statements", "check", "declaration"} => HeadFits(r[1], r[2], c[x[1]].stmt)

LEMMA RestOfSteps ==
  ASSUME NEW t, NEW v, NEW b, Fits(t, v, b), t[1] # "declaration",
         NEW r, NEW x, r = Tail(t), Leads(r, x), r \in Seq(Steps), Len(r) = Len(t) - 1,
         \A k \in 1 .. Len(t) - 1 : r[k] = t[k + 1] /\ x[k] = v[k + 1],
         NEW c, RestFits(r, x, b, c)
  PROVE  Fits(r, x, c)
<1>1. Leads(t, v) /\ Len(t) \in Nat /\ Len(t) >= 2 /\ t \in Seq(Steps)
  BY FitsBasics
<1>2. ASSUME NEW k \in 2 .. Len(r), x[k] > 0 PROVE StepFits(r[k], c[x[k]].stmt)
  <2>1. k + 1 \in 2 .. Len(t) /\ k \in 1 .. Len(t) - 1
    BY <1>1
  <2>2. StepFits(t[k + 1], b[v[k + 1]].stmt)
    BY <1>2, <2>1 DEF Fits
  <2>3. StepFits(r[k], b[x[k]].stmt)
    BY <2>1, <2>2
  <2>4. \/ c[x[k]].stmt = b[x[k]].stmt
        \/ StepFits(r[k], b[x[k]].stmt) => StepFits(r[k], c[x[k]].stmt)
    BY <1>1, <1>2, <2>1 DEF RestFits
  <2> QED BY <2>3, <2>4
<1>3. ASSUME NEW k \in 1 .. Len(r) - 1, r[k] = "statements"
      PROVE  Len(c[x[k]].stmt.blocks) = BlocksBefore(r[k + 1], c[x[k]].stmt)
  <2>1. k + 1 \in 1 .. Len(t) - 1 /\ k \in 1 .. Len(t) - 1 /\ k \in 1 .. Len(r)
    BY <1>1
  <2>2. r[k] = t[k + 1] /\ x[k] = v[k + 1] /\ r[k + 1] = t[(k + 1) + 1]
    BY <2>1
  <2>3. Len(b[x[k]].stmt.blocks) = BlocksBefore(r[k + 1], b[x[k]].stmt)
    BY <1>3, <2>1, <2>2 DEF Fits
  <2>4. x[k] > 0
    BY <1>3 DEF Leads
  <2>5. c[x[k]].stmt = b[x[k]].stmt
    BY <1>3, <2>1, <2>4 DEF RestFits
  <2> QED BY <2>3, <2>5
<1> QED BY <1>2, <1>3 DEF Fits, RestFits

(* All but the innermost statement is as it was; one is added.             *)
SameOthers(b, c) == Len(c) = Len(b) /\ \A m \in 1 .. Len(b) - 1 : c[m].stmt = b[m].stmt
OneMore(b, c) == Len(c) = Len(b) + 1 /\ \A m \in 1 .. Len(b) : c[m].stmt = b[m].stmt

(* The statement is complete: what is left of its steps is the check.      *)
LEMMA StatementEnds ==
  ASSUME NEW t, NEW v, NEW b, Fits(t, v, b), t[1] \in {"semicolon", "after-source", "end"},
         NEW c, SameOthers(b, c)
  PROVE  \E w : Fits(Tail(t), w, c)
<1>1. /\ Leads(t, v) /\ Len(t) \in Nat /\ Len(t) >= 2 /\ Precedes(t[1], t[2])
      /\ t \in Seq(Steps) /\ v \in Seq(Nat) /\ Len(v) = Len(t)
      /\ v[1] \in Nat /\ v[1] > 0 /\ Len(b) = v[1] /\ t[1] \notin {"check", "declare", "declaration"}
  <2>1. t[1] \notin {"declaration", "statements", "check", "declare"}
    OBVIOUS
  <2>2. t \in Seq(Steps) /\ Len(t) \in Nat \ {0}
    BY FitsBasics
  <2>3. 1 \in 1 .. Len(t)
    BY <2>2
  <2> QED BY <2>1, <2>2, <2>3, FitsBasics
<1>2. t[2] = "check"
  BY <1>1 DEF Precedes
<1>3. PICK r, x :
        /\ r = Tail(t) /\ Leads(r, x) /\ r \in Seq(Steps) /\ Len(r) = Len(t) - 1
        /\ \A k \in 1 .. Len(t) - 1 : r[k] = t[k + 1] /\ x[k] = v[k + 1]
  <2>1. Leads(t, v) /\ Len(t) >= 2
    BY <1>1
  <2> QED BY <2>1, LeadsOn
<1>4. r[1] = "check" /\ x[1] = v[1]
  <2>1. 1 \in 1 .. Len(t) - 1
    BY <1>1
  <2>2. v[1 + 1] = v[1]
    BY <1>1, <2>1 DEF Leads
  <2> QED BY <1>2, <1>3, <2>1, <2>2
<1>5. ASSUME NEW k \in 1 .. Len(r), k # 1, x[k] > 0 PROVE c[x[k]].stmt = b[x[k]].stmt
  <2>1. 1 \in 1 .. Len(r) - 1 /\ Len(r) \in Nat
    BY <1>1, <1>3, <1>5
  <2>2. x[k] <= x[1] - 1
    <3>1. k > 1 /\ r[1] \in {"check", "declare"} /\ Leads(r, x)
      BY <1>3, <1>4, <1>5
    <3> QED BY <2>1, <3>1, LevelsFall
  <2>3. x[k] \in Nat
    <3>1. x \in Seq(Nat) /\ Len(x) = Len(r)
      BY <1>3 DEF Leads
    <3> QED BY <3>1, ElementOfSeq
  <2>4. x[k] \in 1 .. Len(b) - 1
    BY <1>1, <1>4, <1>5, <2>2, <2>3
  <2> QED BY <2>4 DEF SameOthers
<1>6. RestFits(r, x, b, c)
  <2>1. Len(c) = x[1] /\ r[1] # "statements"
    BY <1>1, <1>4 DEF SameOthers
  <2> QED BY <1>1, <1>4, <1>5, <2>1 DEF RestFits
<1>7. Fits(r, x, c)
  BY <1>1, <1>3, <1>6, RestOfSteps
<1> QED BY <1>3, <1>7

(* It has been found: the list goes on.                                    *)
LEMMA ListGoesOn ==
  ASSUME NEW t, NEW v, NEW b, Fits(t, v, b), t[1] = "check"
  PROVE  \E w : Fits(Tail(t), w, b)
<1>1. /\ Leads(t, v) /\ Len(t) \in Nat /\ Len(t) >= 2 /\ Precedes(t[1], t[2])
      /\ t \in Seq(Steps) /\ v \in Seq(Nat) /\ Len(v) = Len(t)
      /\ v[1] \in Nat /\ v[1] > 0 /\ Len(b) = v[1] /\ t[1] # "declaration"
  <2>1. t[1] \notin {"declaration", "statements"}
    OBVIOUS
  <2>2. t \in Seq(Steps) /\ Len(t) \in Nat \ {0}
    BY FitsBasics
  <2>3. 1 \in 1 .. Len(t)
    BY <2>2
  <2> QED BY <2>1, <2>2, <2>3, FitsBasics
<1>2. t[2] = "statements"
  BY <1>1 DEF Precedes
<1>3. PICK r, x :
        /\ r = Tail(t) /\ Leads(r, x) /\ r \in Seq(Steps) /\ Len(r) = Len(t) - 1
        /\ \A k \in 1 .. Len(t) - 1 : r[k] = t[k + 1] /\ x[k] = v[k + 1]
  <2>1. Leads(t, v) /\ Len(t) >= 2
    BY <1>1
  <2> QED BY <2>1, LeadsOn
<1>4. r[1] = "statements" /\ x[1] = v[1] - 1
  <2>1. 1 \in 1 .. Len(t) - 1
    BY <1>1
  <2>2. v[1 + 1] = v[1] - 1
    BY <1>1, <2>1 DEF Leads
  <2> QED BY <1>2, <1>3, <2>1, <2>2
<1>5. RestFits(r, x, b, b)
  BY <1>1, <1>4 DEF RestFits
<1>6. Fits(r, x, b)
  BY <1>1, <1>3, <1>5, RestOfSteps
<1> QED BY <1>3, <1>6

(* A brace opens a list.                                                   *)
LEMMA ListOpens ==
  ASSUME NEW t, NEW v, NEW b, Fits(t, v, b), t[1] = "brace",
         NEW c, OneMore(b, c)
  PROVE  \E w : Fits(Tail(t), w, c)
<1>1. /\ Leads(t, v) /\ Len(t) \in Nat /\ Len(t) >= 2 /\ Precedes(t[1], t[2])
      /\ t \in Seq(Steps) /\ v \in Seq(Nat) /\ Len(v) = Len(t)
      /\ v[1] \in Nat /\ v[1] > 0 /\ Len(b) = v[1] /\ t[1] # "declaration"
  <2>1. t[1] \notin {"declaration", "statements"}
    OBVIOUS
  <2>2. t \in Seq(Steps) /\ Len(t) \in Nat \ {0}
    BY FitsBasics
  <2>3. 1 \in 1 .. Len(t)
    BY <2>2
  <2> QED BY <2>1, <2>2, <2>3, FitsBasics, SMTT(30)
<1>2. t[2] = "statements"
  BY <1>1 DEF Precedes
<1>3. PICK r, x :
        /\ r = Tail(t) /\ Leads(r, x) /\ r \in Seq(Steps) /\ Len(r) = Len(t) - 1
        /\ \A k \in 1 .. Len(t) - 1 : r[k] = t[k + 1] /\ x[k] = v[k + 1]
  <2>1. Leads(t, v) /\ Len(t) >= 2
    BY <1>1
  <2> QED BY <2>1, LeadsOn
<1>4. r[1] = "statements" /\ x[1] = v[1]
  <2>1. 1 \in 1 .. Len(t) - 1
    BY <1>1
  <2>2. v[1 + 1] = v[1]
    BY <1>1, <2>1 DEF Leads
  <2> QED BY <1>2, <1>3, <2>1, <2>2
<1>5. ASSUME NEW k \in 1 .. Len(r), x[k] > 0 PROVE c[x[k]].stmt = b[x[k]].stmt
  <2>1. k + 1 \in 1 .. Len(t) /\ k \in 1 .. Len(t) - 1
    BY <1>1, <1>3
  <2>2. v[k + 1] \in Nat /\ v[k + 1] <= v[1]
    BY <2>1, FitsBasics
  <2>3. x[k] \in 1 .. Len(b)
    BY <1>1, <1>3, <1>5, <2>1, <2>2, SMTT(30)
  <2> QED BY <2>3 DEF OneMore
<1>6. RestFits(r, x, b, c)
  <2>1. Len(c) = x[1] + 1
    BY <1>1, <1>4 DEF OneMore
  <2> QED BY <1>4, <1>5, <2>1 DEF RestFits
<1>7. Fits(r, x, c)
  BY <1>1, <1>3, <1>6, RestOfSteps
<1> QED BY <1>3, <1>7

(* A statement begins: steps p, the last of which is the check, are put in *)
(* front of a list that stays to be done, for a new innermost statement.   *)
Starts(p, b, c) ==
  LET z == c[Len(b)].stmt
  IN /\ Lined(p, "statements") /\ p # <<>> /\ p[Len(p)] = "check"
     /\ SameOthers(b, c)
     /\ \A k \in 1 .. Len(p) :
          /\ StepFits(p[k], z)
          /\ p[k] = "statements" => Len(z.blocks) = BlocksBefore(p[k + 1], z)
     /\ p[1] \notin {"statements", "declaration"}
     /\ p[1] # "check" => HeadFits(p[1], p[2], z)

LEMMA StatementBegins ==
  ASSUME NEW t, NEW v, NEW b, Fits(t, v, b), t[1] = "statements",
         NEW p, NEW c, Starts(p, b, c)
  PROVE  \E w : Fits(p \o t, w, c)
<1>1. /\ Leads(t, v) /\ Len(t) \in Nat /\ Len(t) >= 2
      /\ t \in Seq(Steps) /\ v \in Seq(Nat) /\ Len(v) = Len(t) /\ v[1] \in Nat
  <2>1. t[1] # "declaration"
    OBVIOUS
  <2>2. t \in Seq(Steps) /\ Len(t) \in Nat \ {0}
    BY FitsBasics
  <2>3. 1 \in 1 .. Len(t)
    BY <2>2
  <2> QED BY <2>1, <2>2, <2>3, FitsBasics
<1>2. PICK n : n = v[1] + 1
  OBVIOUS
<1>3. n \in Nat \ {0} /\ v[1] = n - 1 /\ Len(b) = n
  <2>1. Len(b) = v[1] + 1
    BY FitsBasics
  <2> QED BY <1>1, <1>2, <2>1
<1>4. /\ p \in Seq(Steps) /\ Len(p) \in Nat /\ Len(p) \in 1 .. Len(p) /\ 1 \in 1 .. Len(p)
      /\ Lined(p, "statements") /\ p # <<>> /\ p[Len(p)] = "check"
  <2>1. p \in Seq(Steps) /\ p # <<>> /\ Lined(p, "statements") /\ p[Len(p)] = "check"
    BY DEF Starts, Lined
  <2>2. Len(p) \in Nat /\ Len(p) # 0
    BY <2>1, EmptySeq
  <2> QED BY <2>1, <2>2
<1>5. PICK z : z = c[n].stmt
  OBVIOUS
<1>6. /\ SameOthers(b, c)
      /\ p[1] \notin {"statements", "declaration"}
      /\ p[1] # "check" => HeadFits(p[1], p[2], z)
  BY <1>3, <1>5 DEF Starts
<1>7. \A k \in 1 .. Len(p) :
        /\ StepFits(p[k], z)
        /\ p[k] = "statements" => Len(z.blocks) = BlocksBefore(p[k + 1], z)
  BY <1>3, <1>5 DEF Starts
<1>8. PICK u, w : Extended(u, w, p, n, t, v)
  <2>1. v[1] = IF p[Len(p)] \in {"check", "declare"} THEN n - 1 ELSE n
    BY <1>3, <1>4
  <2>2. Lined(p, t[1])
    BY <1>4
  <2> QED BY <1>1, <1>3, <2>1, <2>2, LeadsFrom
<1>9. /\ u = p \o t /\ Leads(u, w) /\ Len(u) = Len(p) + Len(t)
      /\ \A k \in 1 .. Len(p) : u[k] = p[k] /\ w[k] = n
      /\ \A k \in 1 .. Len(t) : u[Len(p) + k] = t[k] /\ w[Len(p) + k] = v[k]
  BY <1>8 DEF Extended
<1>10. u[1] = p[1] /\ w[1] = n
  BY <1>4, <1>9
<1>11. \A k \in 1 .. Len(u) : k <= Len(p) \/ \E i \in 1 .. Len(t) : k = Len(p) + i
  <2> SUFFICES ASSUME NEW k \in 1 .. Len(u), ~(k <= Len(p)) PROVE \E i \in 1 .. Len(t) : k = Len(p) + i
    OBVIOUS
  <2>1. k - Len(p) \in 1 .. Len(t) /\ k = Len(p) + (k - Len(p))
    <3>1. Len(u) = Len(p) + Len(t)
      BY <1>9
    <3> QED BY <1>1, <1>4, <3>1
  <2> QED BY <2>1
<1>12. ASSUME NEW i \in 1 .. Len(t), v[i] > 0 PROVE c[v[i]].stmt = b[v[i]].stmt
  <2>1. v[i] \in Nat /\ v[i] <= v[1]
    BY FitsBasics
  <2>2. v[i] \in 1 .. Len(b) - 1
    BY <1>3, <1>12, <2>1
  <2> QED BY <1>6, <2>2 DEF SameOthers
<1>13. \A k \in 2 .. Len(u) : w[k] > 0 => StepFits(u[k], c[w[k]].stmt)
  <2> SUFFICES ASSUME NEW k \in 2 .. Len(u), w[k] > 0 PROVE StepFits(u[k], c[w[k]].stmt)
    OBVIOUS
  <2>1. CASE k <= Len(p)
    <3>1. k \in 1 .. Len(p)
      BY <1>4, <2>1
    <3>2. u[k] = p[k] /\ w[k] = n /\ StepFits(p[k], z)
      BY <1>7, <1>9, <3>1
    <3> QED BY <1>5, <3>2
  <2>2. ASSUME NEW i \in 1 .. Len(t), k = Len(p) + i PROVE StepFits(u[k], c[w[k]].stmt)
    <3>1. u[k] = t[i] /\ w[k] = v[i] /\ v[i] > 0
      BY <1>9, <2>2
    <3>2. CASE i = 1
      BY <3>1, <3>2 DEF StepFits, PlainSteps, CondSteps
    <3>3. CASE i # 1
      <4>1. i \in 2 .. Len(t)
        BY <1>1, <3>3
      <4>2. StepFits(t[i], b[v[i]].stmt)
        BY <3>1, <4>1 DEF Fits
      <4> QED BY <1>12, <3>1, <4>2
    <3> QED BY <3>2, <3>3
  <2>3. k \in 1 .. Len(u)
    BY <1>1, <1>4, <1>9
  <2> QED BY <1>11, <2>1, <2>2, <2>3
<1>14. \A k \in 1 .. Len(u) - 1 :
         u[k] = "statements" => Len(c[w[k]].stmt.blocks) = BlocksBefore(u[k + 1], c[w[k]].stmt)
  <2> SUFFICES ASSUME NEW k \in 1 .. Len(u) - 1, u[k] = "statements"
               PROVE  Len(c[w[k]].stmt.blocks) = BlocksBefore(u[k + 1], c[w[k]].stmt)
    OBVIOUS
  <2>1. CASE k <= Len(p)
    <3>1. k \in 1 .. Len(p)
      BY <1>4, <2>1
    <3>2. p[k] = "statements" /\ w[k] = n
      BY <1>9, <3>1
    <3>3. k + 1 \in 1 .. Len(p)
      BY <1>4, <3>1, <3>2
    <3>4. u[k + 1] = p[k + 1]
      BY <1>9, <3>3
    <3>5. Len(z.blocks) = BlocksBefore(p[k + 1], z)
      BY <1>7, <3>1, <3>2
    <3> QED BY <1>5, <3>2, <3>4, <3>5
  <2>2. ASSUME NEW i \in 1 .. Len(t), k = Len(p) + i
        PROVE  Len(c[w[k]].stmt.blocks) = BlocksBefore(u[k + 1], c[w[k]].stmt)
    <3>1. i \in 1 .. Len(t) - 1 /\ i + 1 \in 1 .. Len(t) /\ k + 1 = Len(p) + (i + 1)
      BY <1>1, <1>4, <1>9, <2>2
    <3>2. v[i] > 0
      BY <1>1, <3>1 DEF Leads
    <3>3. u[k] = t[i] /\ w[k] = v[i] /\ u[k + 1] = t[i + 1]
      BY <1>9, <2>2, <3>1
    <3>4. Len(b[v[i]].stmt.blocks) = BlocksBefore(t[i + 1], b[v[i]].stmt)
      BY <3>1, <3>3 DEF Fits
    <3> QED BY <1>12, <3>2, <3>3, <3>4
  <2>3. k \in 1 .. Len(u)
    BY <1>1, <1>4, <1>9
  <2> QED BY <1>11, <2>1, <2>2, <2>3
<1>15. u[1] # "check" => HeadFits(u[1], u[2], c[w[1]].stmt)
  <2> SUFFICES ASSUME u[1] # "check" PROVE HeadFits(u[1], u[2], c[w[1]].stmt)
    OBVIOUS
  <2>1. Len(p) # 1
    BY <1>4, <1>10
  <2>2. 2 \in 1 .. Len(p)
    <3>1. PICK l : l = Len(p)
      OBVIOUS
    <3>2. l \in Nat /\ l \in 1 .. l /\ l # 1
      BY <1>4, <2>1, <3>1
    <3>3. 2 \in 1 .. l
      BY <3>2
    <3> QED BY <3>1, <3>3
  <2>3. u[2] = p[2]
    BY <1>9, <2>2
  <2>4. HeadFits(p[1], p[2], z)
    BY <1>6, <1>10
  <2> QED BY <1>5, <1>10, <2>3, <2>4
<1>16. Len(c) = w[1] + (IF u[1] = "statements" THEN 1 ELSE 0)
  BY <1>3, <1>6, <1>10 DEF SameOthers
<1>17. Fits(u, w, c)
  BY <1>9, <1>13, <1>14, <1>15, <1>16 DEF Fits
<1> QED BY <1>9, <1>17

(* A list is complete: it becomes a block of the statement around it.      *)
BlockAdded(b, c) ==
  LET n == Len(b) - 1
      s == b[n].stmt
      z == c[n].stmt
  IN /\ Len(c) = n /\ \A m \in 1 .. n - 1 : c[m].stmt = b[m].stmt
     /\ s.tag \in BlockTags \cup {"proc"} /\ CondDone(s) /\ s.args = <<>>
     /\ z.tag = s.tag /\ z.cond = s.cond /\ z.args = s.args /\ Len(z.blocks) = Len(s.blocks) + 1

LEMMA ListCloses ==
  ASSUME NEW t, NEW v, NEW b, Fits(t, v, b), t[1] = "statements", NEW c, BlockAdded(b, c)
  PROVE  \E w : Fits(Tail(t), w, c)
<1>1. /\ Leads(t, v) /\ Len(t) \in Nat /\ Len(t) >= 2 /\ Precedes(t[1], t[2])
      /\ t \in Seq(Steps) /\ v \in Seq(Nat) /\ Len(v) = Len(t)
      /\ v[1] \in Nat /\ v[1] > 0 /\ Len(b) = v[1] + 1
  <2>1. t[1] # "declaration"
    OBVIOUS
  <2>2. t \in Seq(Steps) /\ Len(t) \in Nat \ {0}
    BY FitsBasics
  <2>3. 1 \in 1 .. Len(t)
    BY <2>2
  <2> QED BY <2>1, <2>2, <2>3, FitsBasics
<1>2. PICK n : n = v[1]
  OBVIOUS
<1>3. n \in Nat \ {0} /\ Len(b) = n + 1 /\ Len(b) - 1 = n
  BY <1>1, <1>2
<1>4. PICK s, z : s = b[n].stmt /\ z = c[n].stmt
  OBVIOUS
<1>5. /\ Len(c) = n /\ \A m \in 1 .. n - 1 : c[m].stmt = b[m].stmt
      /\ s.tag \in BlockTags \cup {"proc"} /\ CondDone(s) /\ s.args = <<>>
      /\ z.tag = s.tag /\ z.cond = s.cond /\ z.args = s.args /\ Len(z.blocks) = Len(s.blocks) + 1
  BY <1>3, <1>4 DEF BlockAdded
<1>6. t[2] \in {"else", "end", "declare"}
  BY <1>1 DEF Precedes
<1>7. PICK r, x :
        /\ r = Tail(t) /\ Leads(r, x) /\ r \in Seq(Steps) /\ Len(r) = Len(t) - 1
        /\ \A k \in 1 .. Len(t) - 1 : r[k] = t[k + 1] /\ x[k] = v[k + 1]
  <2>1. Leads(t, v) /\ Len(t) >= 2
    BY <1>1
  <2> QED BY <2>1, LeadsOn
<1>8. /\ 1 \in 1 .. Len(t) - 1 /\ r[1] = t[2] /\ x[1] = n
      /\ Len(r) \in Nat /\ x \in Seq(Nat) /\ Len(x) = Len(r)
  <2>1. 1 \in 1 .. Len(t) - 1
    BY <1>1
  <2>2. v[1 + 1] = v[1]
    BY <1>1, <2>1 DEF Leads
  <2>3. x \in Seq(Nat) /\ Len(x) = Len(r)
    BY <1>7 DEF Leads
  <2> QED BY <1>1, <1>2, <1>7, <2>1, <2>2, <2>3
<1>9. ASSUME NEW k \in 1 .. Len(r), x[k] > 0
      PROVE  x[k] \in Nat /\ x[k] <= n
  <2>1. k + 1 \in 1 .. Len(t) /\ k \in 1 .. Len(t) - 1
    BY <1>1, <1>7
  <2>2. v[k + 1] \in Nat /\ v[k + 1] <= v[1]
    BY <2>1, FitsBasics
  <2> QED BY <1>2, <1>7, <2>1, <2>2
<1>10. \A k \in 1 .. Len(r) : x[k] = n => r[k] \in {"else", "end", "declare", "check"}
  <2>1. r[1] \in {"else", "end", "declare"}
    BY <1>6, <1>8
  <2>2. ASSUME NEW k \in 1 .. Len(r), NEW j \in 1 .. Len(r),
               r[k] \in {"check", "declare"}, j > k, x[k] = n
        PROVE  x[j] # n
    <3>1. k \in 1 .. Len(r) - 1
      BY <1>8, <2>2
    <3>2. x[j] <= x[k] - 1
      BY <1>7, <2>2, <3>1, LevelsFall
    <3> QED BY <1>3, <2>2, <3>2
  <2>3. ASSUME NEW k \in 1 .. Len(r) - 1
        PROVE  Precedes(r[k], r[k + 1]) /\ (r[k] \notin {"check", "declare"} => x[k + 1] = x[k])
    BY <1>7, <2>3 DEF Leads
  <2>4. \A k \in 1 .. Len(r) - 1 : r[k] = "end" => r[k + 1] = "check"
    BY <2>3 DEF Precedes
  <2>5. \A k \in 1 .. Len(r) - 1 : r[k] = "else" => r[k + 1] = "end"
    BY <2>3 DEF Precedes
  <2> SUFFICES ASSUME NEW k \in 1 .. Len(r), x[k] = n PROVE r[k] \in {"else", "end", "declare", "check"}
    OBVIOUS
  <2>6. CASE k = 1
    BY <2>1, <2>6
  <2>7. CASE k = 2
    <3>1. 1 \in 1 .. Len(r) - 1 /\ 1 \in 1 .. Len(r)
      BY <1>8, <2>7
    <3>2. r[1 + 1] = "check" \/ r[1 + 1] = "end" \/ r[1] = "declare"
      BY <2>1, <2>4, <2>5, <3>1
    <3>3. r[1] # "declare"
      BY <1>8, <2>2, <2>7, <3>1
    <3> QED BY <2>7, <3>2, <3>3
  <2>8. CASE k > 2
    <3>1. /\ 1 \in 1 .. Len(r) - 1 /\ 2 \in 1 .. Len(r) - 1
          /\ 1 \in 1 .. Len(r) /\ 2 \in 1 .. Len(r) /\ k \in Nat
      BY <1>8, <2>8
    <3>2. r[1] # "declare"
      BY <1>8, <2>2, <2>8, <3>1
    <3>3. x[1 + 1] = x[1]
      BY <2>1, <2>3, <3>1, <3>2
    <3>4. x[2] = n
      BY <1>8, <3>3
    <3>5. r[2] # "check"
      BY <2>2, <2>8, <3>1, <3>4
    <3>6. r[1 + 1] = "check" \/ r[1 + 1] = "end"
      BY <2>1, <2>4, <2>5, <3>1, <3>2
    <3>7. r[2] = "end"
      BY <3>5, <3>6
    <3>8. r[2 + 1] = "check" /\ x[2 + 1] = x[2]
      BY <2>3, <2>4, <3>1, <3>7
    <3>9. 3 \in 1 .. Len(r)
      BY <1>8, <2>8
    <3>10. r[3] = "check" /\ x[3] = n
      BY <3>4, <3>8
    <3>11. ~(k > 3)
      BY <2>2, <3>9, <3>10
    <3> QED BY <2>8, <3>1, <3>10, <3>11
  <2> QED BY <2>6, <2>7, <2>8
<1>11. ASSUME NEW k \in 1 .. Len(r), x[k] > 0
       PROVE  \/ c[x[k]].stmt = b[x[k]].stmt
              \/ /\ r[k] # "statements"
                 /\ StepFits(r[k], b[x[k]].stmt) => StepFits(r[k], c[x[k]].stmt)
  <2>1. CASE x[k] = n
    <3>1. r[k] \in {"else", "end", "declare", "check"}
      BY <1>10, <2>1
    <3>2. StepFits(r[k], s) => StepFits(r[k], z)
      BY <1>5, <3>1 DEF StepFits, PlainSteps, CondSteps
    <3> QED BY <1>4, <2>1, <3>1, <3>2
  <2>2. CASE x[k] # n
    <3>1. x[k] \in 1 .. n - 1
      BY <1>3, <1>9, <1>11, <2>2
    <3> QED BY <1>5, <3>1
  <2> QED BY <2>1, <2>2, SMTT(30)
<1>12. HeadFits(r[1], r[2], z)
  <2>1. StepFits(t[2], s)
    <3>1. 2 \in 2 .. Len(t) /\ v[2] = n
      BY <1>1, <1>7, <1>8, SMTT(30)
    <3> QED BY <1>3, <1>4, <3>1 DEF Fits
  <2>2. Len(s.blocks) = BlocksBefore(t[2], s)
    <3>1. Len(b[v[1]].stmt.blocks) = BlocksBefore(t[1 + 1], b[v[1]].stmt)
      BY <1>8 DEF Fits
    <3> QED BY <1>2, <1>4, <3>1
  <2>3. r[1] = t[2]
    BY <1>8
  <2>4. CondDone(z) /\ Len(z.args) = 0
    BY <1>5 DEF CondDone, CondFits
  <2>5. StepFits(r[1], z)
    BY <1>5, <1>6, <2>1, <2>3 DEF StepFits, PlainSteps, CondSteps
  <2>6. Len(z.args) = ArgsBefore(r[1], z)
    BY <1>5, <1>6, <2>3, <2>4 DEF ArgsBefore, BlockTags
  <2>7. Len(z.blocks) = (IF t[2] = "end" /\ s.tag = "branch" THEN 2 ELSE 1)
    BY <1>5, <2>2 DEF BlocksBefore
  <2> QED BY <1>5, <1>6, <2>3, <2>4, <2>5, <2>6, <2>7 DEF HeadFits, PlainSteps, BlockTags
<1>13. RestFits(r, x, b, c)
  <2>1. Len(c) = x[1] + (IF r[1] = "statements" THEN 1 ELSE 0)
    BY <1>3, <1>5, <1>6, <1>8
  <2>2. HeadFits(r[1], r[2], c[x[1]].stmt)
    BY <1>4, <1>8, <1>12
  <2> QED BY <1>11, <2>1, <2>2 DEF RestFits
<1>14. Fits(r, x, c)
  <2>1. t[1] # "declaration"
    OBVIOUS
  <2> QED BY <1>7, <1>13, <2>1, RestOfSteps
<1> QED BY <1>7, <1>14

(* A procedure begins and ends.                                            *)
LEMMA NoMoreSteps ==
  ASSUME NEW t, NEW v, NEW b, Fits(t, v, b), t[1] = "declaration"
  PROVE  Len(t) = 1 /\ t = <<"declaration">> /\ Len(b) = 0
<1>1. t \in Seq(Steps) /\ Len(t) \in Nat \ {0} /\ Leads(t, v) /\ Len(b) = v[1]
  BY FitsBasics
<1>2. Len(t) = 1
  <2> SUFFICES ASSUME Len(t) # 1 PROVE FALSE
    OBVIOUS
  <2>1. 1 \in 1 .. Len(t) - 1
    <3>1. PICK l : l = Len(t)
      OBVIOUS
    <3>2. l \in Nat \ {0} /\ l # 1
      BY <1>1, <3>1
    <3>3. 1 \in 1 .. l - 1
      BY <3>2
    <3> QED BY <3>1, <3>3
  <2>2. Precedes(t[1], t[1 + 1])
    BY <1>1, <2>1 DEF Leads
  <2> QED BY <2>2 DEF Precedes
<1>3. v[1] = 0
  BY <1>1, <1>2 DEF Leads
<1>4. t = <<"declaration">>
  BY <1>1, <1>2
<1> QED BY <1>1, <1>2, <1>3, <1>4

LEMMA ProcedureBegins ==
  ASSUME NEW b, Len(b) = 1, b[1].stmt.tag = "proc", Len(b[1].stmt.args) = 0,
         Len(b[1].stmt.cond) = 0, Len(b[1].stmt.blocks) = 0
  PROVE  \E w : Fits(<<"name", "brace", "statements", "declare", "declaration">>, w, b)
<1>1. PICK t : t = <<"name", "brace", "statements", "declare", "declaration">>
  OBVIOUS
<1>2. PICK w : w = <<1, 1, 1, 1, 0>>
  OBVIOUS
<1>3. /\ t \in Seq(Steps) /\ Len(t) = 5
      /\ t[1] = "name" /\ t[2] = "brace" /\ t[3] = "statements" /\ t[4] = "declare"
      /\ t[5] = "declaration"
  BY <1>1 DEF Steps
<1>4. w \in Seq(Nat) /\ Len(w) = 5 /\ w[1] = 1 /\ w[2] = 1 /\ w[3] = 1 /\ w[4] = 1 /\ w[5] = 0
  BY <1>2
<1>5. ASSUME NEW k \in 1 .. 4
      PROVE  /\ w[k] > 0 /\ Precedes(t[k], t[k + 1])
             /\ w[k + 1] = IF t[k] \in {"check", "declare"} THEN w[k] - 1 ELSE w[k]
  <2>1. k = 1 \/ k = 2 \/ k = 3 \/ k = 4
    OBVIOUS
  <2> QED BY <1>3, <1>4, <2>1 DEF Precedes
<1>6. \A j, k \in 1 .. 5 : j <= k => w[k] <= w[j]
  BY <1>4
<1>a. CondOrder(t)
  <2>1. \A k \in 1 .. 3 : k = 1 \/ k = 2 \/ k = 3
    OBVIOUS
  <2> QED BY <1>3, <2>1 DEF CondOrder
<1>7. Leads(t, w)
  BY <1>3, <1>4, <1>5, <1>6, <1>a DEF Leads
<1>8. \A k \in 2 .. 5 : w[k] > 0 => StepFits(t[k], b[w[k]].stmt)
  <2> SUFFICES ASSUME NEW k \in 2 .. 5, w[k] > 0 PROVE StepFits(t[k], b[w[k]].stmt)
    OBVIOUS
  <2>1. k = 2 \/ k = 3 \/ k = 4
    BY <1>4
  <2> QED BY <1>3, <1>4, <2>1 DEF StepFits, PlainSteps, CondSteps
<1>9. \A k \in 1 .. 4 : t[k] = "statements" =>
        Len(b[w[k]].stmt.blocks) = BlocksBefore(t[k + 1], b[w[k]].stmt)
  <2>1. \A k \in 1 .. 4 : t[k] = "statements" => k = 3
    BY <1>3
  <2> QED BY <1>3, <1>4, <2>1 DEF BlocksBefore
<1>10. HeadFits(t[1], t[2], b[w[1]].stmt)
  BY <1>3, <1>4 DEF HeadFits, StepFits, ArgsBefore, PlainSteps, CondSteps
<1>11. Fits(t, w, b)
  BY <1>3, <1>4, <1>7, <1>8, <1>9, <1>10 DEF Fits
<1> QED BY <1>1, <1>11

LEMMA ProcedureEnds ==
  ASSUME NEW t, NEW v, NEW b, Fits(t, v, b), t[1] = "declare"
  PROVE  Tail(t) = <<"declaration">> /\ Len(b) = 1
<1>1. /\ Leads(t, v) /\ Len(t) \in Nat /\ Len(t) >= 2 /\ Precedes(t[1], t[2])
      /\ t \in Seq(Steps) /\ v[1] \in Nat /\ v[1] > 0 /\ Len(b) = v[1]
  <2>1. t[1] \notin {"declaration", "statements"}
    OBVIOUS
  <2>2. t \in Seq(Steps) /\ Len(t) \in Nat \ {0}
    BY FitsBasics
  <2>3. 1 \in 1 .. Len(t)
    BY <2>2
  <2> QED BY <2>1, <2>2, <2>3, FitsBasics
<1>2. t[2] = "declaration"
  BY <1>1 DEF Precedes
<1>3. PICK r, x :
        /\ r = Tail(t) /\ Leads(r, x) /\ r \in Seq(Steps) /\ Len(r) = Len(t) - 1
        /\ \A k \in 1 .. Len(t) - 1 : r[k] = t[k + 1] /\ x[k] = v[k + 1]
  <2>1. Leads(t, v) /\ Len(t) >= 2
    BY <1>1
  <2> QED BY <2>1, LeadsOn
<1>4. 1 \in 1 .. Len(t) - 1 /\ v[1 + 1] = v[1] - 1
  <2>1. 1 \in 1 .. Len(t) - 1
    BY <1>1
  <2> QED BY <1>1, <2>1 DEF Leads
<1>5. r[1] = "declaration"
  BY <1>2, <1>3, <1>4
<1>6. Len(r) = 1
  <2> SUFFICES ASSUME Len(r) # 1 PROVE FALSE
    OBVIOUS
  <2>1. 1 \in 1 .. Len(r) - 1
    BY <1>1, <1>3
  <2>2. Precedes(r[1], r[1 + 1])
    BY <1>3, <2>1 DEF Leads
  <2> QED BY <1>5, <2>2 DEF Precedes
<1>7. x[1] = 0
  BY <1>3, <1>6 DEF Leads
<1>8. r = <<"declaration">>
  <2>1. r \in Seq(Steps) /\ Len(r) = 1 /\ r[1] = "declaration"
    BY <1>3, <1>5, <1>6
  <2> QED BY <2>1
<1>9. Len(b) = 1
  <2>1. x[1] = v[1 + 1]
    BY <1>3, <1>4
  <2> QED BY <1>1, <1>4, <1>7, <2>1
<1>10. r = Tail(t)
  BY <1>3
<1> QED BY <1>8, <1>9, <1>10

----------------------------------------------------------------------------
(* Lists of statements: how deep in blocks each stands, q for a list that  *)
(* may begin with the else of the branch it will stand in.                 *)
DepthAfter(s, n) ==
  IF s.tag \in BlockTags THEN n + 1 ELSE IF s.tag = "end" THEN n - 1 ELSE n

ElseOf(l, d, k) ==
  \E i \in 1 .. k - 1 : /\ l[i].tag = "branch" /\ d[i] = d[k]
                        /\ \A j \in i + 1 .. k - 1 : d[j] >= d[k]

NestedBy(l, d, q) ==
  /\ d \in [0 .. Len(l) -> Nat] /\ d[0] = 0 /\ d[Len(l)] = 0
  /\ \A k \in 1 .. Len(l) : d[k] = DepthAfter(l[k], d[k - 1])
  /\ \A k \in 1 .. Len(l) : l[k].tag = "else" => (q /\ d[k] = 0) \/ ElseOf(l, d, k)

Nested(l, q) == \E d : NestedBy(l, d, q)

LEMMA NestedEmpty ==
  ASSUME NEW q
  PROVE  Nested(<<>>, q)
<1>1. PICK d : d = [k \in 0 .. 0 |-> 0]
  OBVIOUS
<1>2. d \in [0 .. Len(<<>>) -> Nat] /\ d[0] = 0
  BY <1>1
<1>3. NestedBy(<<>>, d, q)
  BY <1>2 DEF NestedBy
<1> QED BY <1>3 DEF Nested

LEMMA NestedSingle ==
  ASSUME NEW s, s.tag \notin BlockTags \cup {"else", "end"}, NEW q
  PROVE  Nested(<<s>>, q)
<1>1. PICK d : d = [k \in 0 .. 1 |-> 0]
  OBVIOUS
<1>2. PICK l : l = <<s>>
  OBVIOUS
<1>3. Len(l) = 1 /\ l[1] = s
  BY <1>2
<1>4. d \in [0 .. Len(l) -> Nat] /\ d[0] = 0 /\ d[1] = 0 /\ d[Len(l)] = 0
  BY <1>1, <1>3
<1>5. DepthAfter(s, 0) = 0
  BY DEF DepthAfter
<1>6. \A k \in 1 .. Len(l) : k = 1
  BY <1>3
<1>7. NestedBy(l, d, q)
  BY <1>3, <1>4, <1>5, <1>6 DEF NestedBy
<1> QED BY <1>2, <1>7 DEF Nested

LEMMA NestedElse ==
  ASSUME NEW s, s.tag = "else"
  PROVE  Nested(<<s>>, TRUE)
<1>1. PICK d : d = [k \in 0 .. 1 |-> 0]
  OBVIOUS
<1>2. PICK l : l = <<s>>
  OBVIOUS
<1>3. Len(l) = 1 /\ l[1] = s
  BY <1>2
<1>4. d \in [0 .. Len(l) -> Nat] /\ d[0] = 0 /\ d[1] = 0 /\ d[Len(l)] = 0
  BY <1>1, <1>3
<1>5. DepthAfter(s, 0) = 0
  BY DEF DepthAfter, BlockTags
<1>6. \A k \in 1 .. Len(l) : k = 1
  BY <1>3
<1>7. NestedBy(l, d, TRUE)
  BY <1>3, <1>4, <1>5, <1>6 DEF NestedBy
<1> QED BY <1>2, <1>7 DEF Nested

LEMMA NestedEither ==
  ASSUME NEW l, Nested(l, FALSE)
  PROVE  Nested(l, TRUE)
BY DEF Nested, NestedBy

(* One list behind another.                                                *)
LEMMA NestedBoth ==
  ASSUME NEW S, NEW a \in Seq(S), NEW b \in Seq(S), NEW q, Nested(a, q), Nested(b, q)
  PROVE  Nested(a \o b, q)
<1>1. PICK f : NestedBy(a, f, q)
  BY DEF Nested
<1>2. PICK g : NestedBy(b, g, q)
  BY DEF Nested
<1>3. PICK l : l = a \o b
  OBVIOUS
<1>4. PICK m, n : m = Len(a) /\ n = Len(b)
  OBVIOUS
<1>5. /\ m \in Nat /\ n \in Nat /\ Len(l) = m + n
      /\ \A k \in 1 .. m : l[k] = a[k]
      /\ \A k \in 1 .. n : l[m + k] = b[k]
  BY <1>3, <1>4, ConcatIs
<1>6. PICK d : d = [k \in 0 .. m + n |-> IF k <= m THEN f[k] ELSE g[k - m]]
  OBVIOUS
<1>7. /\ f \in [0 .. m -> Nat] /\ f[0] = 0 /\ f[m] = 0
      /\ \A k \in 1 .. m : f[k] = DepthAfter(a[k], f[k - 1])
      /\ \A k \in 1 .. m : a[k].tag = "else" => (q /\ f[k] = 0) \/ ElseOf(a, f, k)
  BY <1>1, <1>4 DEF NestedBy
<1>8. /\ g \in [0 .. n -> Nat] /\ g[0] = 0 /\ g[n] = 0
      /\ \A k \in 1 .. n : g[k] = DepthAfter(b[k], g[k - 1])
      /\ \A k \in 1 .. n : b[k].tag = "else" => (q /\ g[k] = 0) \/ ElseOf(b, g, k)
  BY <1>2, <1>4 DEF NestedBy
<1>9. \A k \in 0 .. m : d[k] = f[k]
  BY <1>5, <1>6
<1>10. \A k \in 0 .. n : d[m + k] = g[k]
  <2> SUFFICES ASSUME NEW k \in 0 .. n PROVE d[m + k] = g[k]
    OBVIOUS
  <2>1. CASE k = 0
    <3>1. m \in 0 .. m /\ m + k = m
      BY <1>5, <2>1
    <3>2. d[m] = f[m]
      BY <1>9, <3>1
    <3>3. g[k] = 0
      BY <1>8, <2>1
    <3>4. d[m + k] = d[m]
      BY <3>1
    <3>5. f[m] = 0
      BY <1>7
    <3> QED BY <3>2, <3>3, <3>4, <3>5
  <2>2. CASE k # 0
    <3>1. PICK o : o = m + k
      OBVIOUS
    <3>2. o \in 0 .. m + n /\ ~(o <= m) /\ o - m = k
      BY <1>5, <2>2, <3>1
    <3>3. d[o] = g[o - m]
      BY <1>6, <3>2
    <3> QED BY <3>1, <3>2, <3>3
  <2> QED BY <2>1, <2>2
<1>11. d \in [0 .. m + n -> Nat]
  <2>1. ASSUME NEW k \in 0 .. m + n PROVE (IF k <= m THEN f[k] ELSE g[k - m]) \in Nat
    BY <1>5, <1>7, <1>8
  <2> QED BY <1>6, <2>1
<1>12. \A k \in 1 .. m + n : k \in 1 .. m \/ \E i \in 1 .. n : k = m + i
  <2> SUFFICES ASSUME NEW k \in 1 .. m + n, k \notin 1 .. m PROVE \E i \in 1 .. n : k = m + i
    OBVIOUS
  <2>1. k - m \in 1 .. n /\ k = m + (k - m)
    BY <1>5
  <2> QED BY <2>1
<1>13. \A k \in 1 .. m + n : d[k] = DepthAfter(l[k], d[k - 1])
  <2> SUFFICES ASSUME NEW k \in 1 .. m + n PROVE d[k] = DepthAfter(l[k], d[k - 1])
    OBVIOUS
  <2>1. ASSUME k \in 1 .. m PROVE d[k] = DepthAfter(l[k], d[k - 1])
    <3>1. k \in 0 .. m /\ k - 1 \in 0 .. m
      BY <1>5, <2>1
    <3> QED BY <1>5, <1>7, <1>9, <2>1, <3>1
  <2>2. ASSUME NEW i \in 1 .. n, k = m + i PROVE d[k] = DepthAfter(l[k], d[k - 1])
    <3>1. i \in 0 .. n /\ i - 1 \in 0 .. n /\ k - 1 = m + (i - 1)
      BY <1>5, <2>2
    <3>2. d[k] = g[i] /\ d[k - 1] = g[i - 1] /\ l[k] = b[i]
      BY <1>5, <1>10, <2>2, <3>1
    <3> QED BY <1>8, <3>2
  <2> QED BY <1>12, <2>1, <2>2
<1>14. ASSUME NEW k \in 1 .. m + n, l[k].tag = "else" PROVE (q /\ d[k] = 0) \/ ElseOf(l, d, k)
  <2>1. ASSUME k \in 1 .. m PROVE (q /\ d[k] = 0) \/ ElseOf(l, d, k)
    <3>1. k \in 0 .. m /\ d[k] = f[k] /\ l[k] = a[k]
      BY <1>5, <1>9, <2>1
    <3>2. ASSUME ElseOf(a, f, k) PROVE ElseOf(l, d, k)
      <4>1. PICK i \in 1 .. k - 1 : /\ a[i].tag = "branch" /\ f[i] = f[k]
                                   /\ \A j \in i + 1 .. k - 1 : f[j] >= f[k]
        BY <3>2 DEF ElseOf
      <4>2. i \in 1 .. m /\ i \in 0 .. m /\ \A j \in i + 1 .. k - 1 : j \in 0 .. m
        BY <1>5, <2>1
      <4>3. l[i].tag = "branch" /\ d[i] = d[k] /\ \A j \in i + 1 .. k - 1 : d[j] >= d[k]
        BY <1>5, <1>9, <3>1, <4>1, <4>2
      <4> QED BY <4>3 DEF ElseOf
    <3>3. (q /\ f[k] = 0) \/ ElseOf(a, f, k)
      BY <1>7, <1>14, <2>1, <3>1
    <3> QED BY <3>1, <3>2, <3>3
  <2>2. ASSUME NEW h \in 1 .. n, k = m + h PROVE (q /\ d[k] = 0) \/ ElseOf(l, d, k)
    <3>1. h \in 0 .. n /\ d[k] = g[h] /\ l[k] = b[h]
      BY <1>5, <1>10, <2>2
    <3>2. ASSUME ElseOf(b, g, h) PROVE ElseOf(l, d, k)
      <4>1. PICK i \in 1 .. h - 1 : /\ b[i].tag = "branch" /\ g[i] = g[h]
                                   /\ \A j \in i + 1 .. h - 1 : g[j] >= g[h]
        BY <3>2 DEF ElseOf
      <4>2. i \in 1 .. n /\ i \in 0 .. n /\ m + i \in 1 .. k - 1
        BY <1>5, <2>2
      <4>3. l[m + i].tag = "branch" /\ d[m + i] = d[k]
        BY <1>5, <1>10, <3>1, <4>1, <4>2
      <4>4. ASSUME NEW j \in m + i + 1 .. k - 1 PROVE d[j] >= d[k]
        <5>1. j - m \in i + 1 .. h - 1 /\ j - m \in 0 .. n /\ m + (j - m) = j
          BY <1>5, <2>2, <4>2
        <5>2. d[j] = g[j - m]
          BY <1>10, <5>1
        <5> QED BY <3>1, <4>1, <5>1, <5>2
      <4> QED BY <4>2, <4>3, <4>4 DEF ElseOf
    <3>3. (q /\ g[h] = 0) \/ ElseOf(b, g, h)
      BY <1>8, <1>14, <2>2, <3>1
    <3> QED BY <3>1, <3>2, <3>3
  <2> QED BY <1>12, <2>1, <2>2
<1>15. d[0] = 0 /\ d[m + n] = 0
  <2>1. 0 \in 0 .. m /\ n \in 0 .. n
    BY <1>5
  <2> QED BY <1>7, <1>8, <1>9, <1>10, <2>1
<1>16. NestedBy(l, d, q)
  BY <1>5, <1>11, <1>13, <1>14, <1>15 DEF NestedBy
<1> QED BY <1>3, <1>16 DEF Nested

(* A list between the statement it is the block of and an end.             *)
LEMMA NestedBlock ==
  ASSUME NEW S, NEW x \in Seq(S), NEW q, Nested(x, q), NEW s \in S, s.tag \in BlockTags,
         q => s.tag = "branch", NEW e \in S, e.tag = "end"
  PROVE  Nested((<<s>> \o x) \o <<e>>, FALSE)
<1>1. PICK f : NestedBy(x, f, q)
  BY DEF Nested
<1>2. PICK y, l : y = <<s>> \o x /\ l = y \o <<e>>
  OBVIOUS
<1>3. PICK n : n = Len(x)
  OBVIOUS
<1>4. /\ n \in Nat /\ y \in Seq(S) /\ Len(y) = n + 1 /\ y[1] = s
      /\ \A k \in 1 .. n : y[1 + k] = x[k]
  BY <1>2, <1>3, FrontIs
<1>5. Len(l) = n + 2 /\ l[n + 2] = e /\ \A k \in 1 .. n + 1 : l[k] = y[k]
  <2>1. Len(l) = Len(y) + 1 /\ l[Len(y) + 1] = e /\ \A k \in 1 .. Len(y) : l[k] = y[k]
    BY <1>2, <1>4, BehindIs
  <2> QED BY <1>4, <2>1
<1>7. l[1] = s /\ \A k \in 1 .. n : l[k + 1] = x[k]
  BY <1>4, <1>5
<1>8. /\ f \in [0 .. n -> Nat] /\ f[0] = 0 /\ f[n] = 0
      /\ \A k \in 1 .. n : f[k] = DepthAfter(x[k], f[k - 1])
      /\ \A k \in 1 .. n : x[k].tag = "else" => (q /\ f[k] = 0) \/ ElseOf(x, f, k)
  BY <1>1, <1>3 DEF NestedBy
<1>9. PICK d : d = [k \in 0 .. n + 2 |-> IF k \in {0, n + 2} THEN 0 ELSE f[k - 1] + 1]
  OBVIOUS
<1>10. d \in [0 .. n + 2 -> Nat] /\ d[0] = 0 /\ d[n + 2] = 0
  <2>1. ASSUME NEW k \in 0 .. n + 2 PROVE (IF k \in {0, n + 2} THEN 0 ELSE f[k - 1] + 1) \in Nat
    BY <1>4, <1>8
  <2>2. d \in [0 .. n + 2 -> Nat]
    BY <1>9, <2>1
  <2>3. 0 \in 0 .. n + 2 /\ n + 2 \in 0 .. n + 2
    BY <1>4
  <2> QED BY <1>9, <2>2, <2>3
<1>11. \A k \in 0 .. n : d[k + 1] = f[k] + 1
  <2> SUFFICES ASSUME NEW k \in 0 .. n PROVE d[k + 1] = f[k] + 1
    OBVIOUS
  <2>1. k + 1 \in 0 .. n + 2 /\ k + 1 \notin {0, n + 2} /\ (k + 1) - 1 = k
    BY <1>4
  <2> QED BY <1>9, <2>1
<1>12. \A k \in 1 .. n + 2 : k = 1 \/ k = n + 2 \/ \E i \in 1 .. n : k = i + 1
  <2> SUFFICES ASSUME NEW k \in 1 .. n + 2, k # 1, k # n + 2 PROVE \E i \in 1 .. n : k = i + 1
    OBVIOUS
  <2>1. k - 1 \in 1 .. n /\ k = (k - 1) + 1
    BY <1>4
  <2> QED BY <2>1
<1>13. d[1] = 1 /\ d[n + 1] = 1
  <2>1. 0 \in 0 .. n /\ n \in 0 .. n
    BY <1>4
  <2>2. d[0 + 1] = f[0] + 1 /\ d[n + 1] = f[n] + 1
    BY <1>11, <2>1
  <2> QED BY <1>8, <2>2
<1>14. ASSUME NEW k \in 1 .. n + 2 PROVE d[k] = DepthAfter(l[k], d[k - 1])
  <2>1. CASE k = 1
    <3>1. DepthAfter(s, 0) = 1
      BY DEF DepthAfter
    <3> QED BY <1>7, <1>10, <1>13, <2>1, <3>1
  <2>2. CASE k = n + 2
    <3>1. DepthAfter(e, 1) = 0
      BY DEF DepthAfter, BlockTags
    <3>2. k - 1 = n + 1
      BY <1>4, <2>2
    <3> QED BY <1>5, <1>10, <1>13, <2>2, <3>1, <3>2
  <2>3. ASSUME NEW i \in 1 .. n, k = i + 1 PROVE d[k] = DepthAfter(l[k], d[k - 1])
    <3>1. i \in 0 .. n /\ i - 1 \in 0 .. n /\ k - 1 = (i - 1) + 1
      BY <1>4, <2>3
    <3>2. d[k] = f[i] + 1 /\ d[k - 1] = f[i - 1] + 1 /\ l[k] = x[i] /\ f[i - 1] \in Nat /\ f[i] \in Nat
      BY <1>7, <1>8, <1>11, <2>3, <3>1
    <3>3. f[i] = DepthAfter(x[i], f[i - 1])
      BY <1>8
    <3>4. DepthAfter(x[i], f[i - 1] + 1) = DepthAfter(x[i], f[i - 1]) + 1
      BY <3>2 DEF DepthAfter
    <3> QED BY <3>2, <3>3, <3>4
  <2> QED BY <1>12, <2>1, <2>2, <2>3
<1>15. ASSUME NEW k \in 1 .. n + 2, l[k].tag = "else" PROVE ElseOf(l, d, k)
  <2>1. k # 1 /\ k # n + 2
    BY <1>5, <1>7, <1>15 DEF BlockTags
  <2>2. PICK h \in 1 .. n : k = h + 1
    BY <1>12, <2>1
  <2>3. h \in 0 .. n /\ d[k] = f[h] + 1 /\ l[k] = x[h] /\ f[h] \in Nat
    BY <1>4, <1>7, <1>8, <1>11, <2>2
  <2>4. (q /\ f[h] = 0) \/ ElseOf(x, f, h)
    BY <1>8, <1>15, <2>3
  <2>5. CASE q /\ f[h] = 0
    <3>1. l[1].tag = "branch" /\ d[1] = d[k] /\ 1 \in 1 .. k - 1
      BY <1>4, <1>7, <1>13, <2>2, <2>3, <2>5
    <3>2. ASSUME NEW j \in 1 + 1 .. k - 1 PROVE d[j] >= d[k]
      <4>1. j - 1 \in 0 .. n /\ (j - 1) + 1 = j
        BY <1>4, <2>2
      <4>2. d[j] = f[j - 1] + 1 /\ f[j - 1] \in Nat
        <5>1. d[(j - 1) + 1] = f[j - 1] + 1
          BY <1>11, <4>1
        <5> QED BY <1>8, <4>1, <5>1
      <4> QED BY <2>3, <2>5, <4>2
    <3> QED BY <3>1, <3>2 DEF ElseOf
  <2>6. CASE ElseOf(x, f, h)
    <3>1. PICK i \in 1 .. h - 1 : /\ x[i].tag = "branch" /\ f[i] = f[h]
                                 /\ \A j \in i + 1 .. h - 1 : f[j] >= f[h]
      BY <2>6 DEF ElseOf
    <3>2. i \in 1 .. n /\ i \in 0 .. n /\ i + 1 \in 1 .. k - 1
      BY <1>4, <2>2
    <3>3. l[i + 1].tag = "branch" /\ d[i + 1] = d[k]
      BY <1>7, <1>11, <2>3, <3>1, <3>2
    <3>4. ASSUME NEW j \in (i + 1) + 1 .. k - 1 PROVE d[j] >= d[k]
      <4>1. j - 1 \in i + 1 .. h - 1 /\ j - 1 \in 0 .. n /\ (j - 1) + 1 = j
        BY <1>4, <2>2, <3>2
      <4>2. d[j] = f[j - 1] + 1 /\ f[j - 1] \in Nat
        <5>1. d[(j - 1) + 1] = f[j - 1] + 1
          BY <1>11, <4>1
        <5> QED BY <1>8, <4>1, <5>1
      <4>3. f[j - 1] >= f[h]
        BY <3>1, <4>1
      <4> QED BY <2>3, <4>2, <4>3, SMTT(30)
    <3> QED BY <3>2, <3>3, <3>4 DEF ElseOf
  <2> QED BY <2>4, <2>5, <2>6
<1>16. NestedBy(l, d, FALSE)
  BY <1>5, <1>10, <1>14, <1>15 DEF NestedBy
<1> QED BY <1>2, <1>16 DEF Nested

(* A statement that has all it needs, in a list or complete but for the    *)
(* blocks; a list of them; the blocks a statement has in the end.          *)
FlatFits(s)    == CondDone(s) /\ Named(s) /\ Len(s.args) <= 2
ListFits(l)    == Nested(l, FALSE) /\ \A k \in 1 .. Len(l) : FlatFits(l[k])
BlocksFit(s)   == \A i \in 1 .. Len(s.blocks) : ListFits(s.blocks[i])
BlocksThere(s) ==
  IF s.tag \in BlockTags THEN Len(s.blocks) \in (IF s.tag = "branch" THEN 1 .. 2 ELSE {1})
  ELSE s.blocks = <<>>

LEMMA BothFit ==
  ASSUME NEW a \in Seq(Flat), NEW b \in Seq(Flat), NEW q, Nested(a, q), Nested(b, q),
         \A k \in 1 .. Len(a) : FlatFits(a[k]), \A k \in 1 .. Len(b) : FlatFits(b[k])
  PROVE  /\ a \o b \in Seq(Flat) /\ Nested(a \o b, q)
         /\ \A k \in 1 .. Len(a \o b) : FlatFits((a \o b)[k])
<1>1. Nested(a \o b, q)
  BY NestedBoth
<1>2. PICK l : l = a \o b
  OBVIOUS
<1>3. PICK m, n : m = Len(a) /\ n = Len(b)
  OBVIOUS
<1>4. /\ m \in Nat /\ n \in Nat /\ l \in Seq(Flat) /\ Len(l) = m + n
      /\ \A k \in 1 .. m : l[k] = a[k]
      /\ \A k \in 1 .. n : l[m + k] = b[k]
  BY <1>2, <1>3, ConcatIs
<1>5. ASSUME NEW k \in 1 .. m + n PROVE FlatFits(l[k])
  <2>1. CASE k <= m
    <3>1. k \in 1 .. m
      BY <1>4, <2>1
    <3>2. FlatFits(a[k])
      BY <1>3, <3>1
    <3> QED BY <1>4, <3>1, <3>2
  <2>2. CASE k > m
    <3>1. PICK i \in 1 .. n : k = m + i
      <4>1. k - m \in 1 .. n /\ k = m + (k - m)
        BY <1>4, <2>2
      <4> QED BY <4>1
    <3>2. FlatFits(b[i])
      BY <1>3
    <3> QED BY <1>4, <3>1, <3>2
  <2> QED BY <1>4, <2>1, <2>2
<1> QED BY <1>1, <1>2, <1>4, <1>5

LEMMA OneFits ==
  ASSUME NEW s \in Flat, FlatFits(s)
  PROVE  <<s>> \in Seq(Flat) /\ \A k \in 1 .. Len(<<s>>) : FlatFits(<<s>>[k])
<1>1. PICK a \in Seq(Flat) : a = <<s>> /\ Len(a) = 1 /\ a[1] = s
  BY SingleIs
<1>2. \A k \in 1 .. Len(a) : FlatFits(a[k])
  BY <1>1
<1> QED BY <1>1, <1>2

LEMMA ElseAndEnd ==
  /\ Statement("else") \in Flat /\ FlatFits(Statement("else")) /\ Statement("else").tag = "else"
  /\ Statement("end") \in Flat /\ FlatFits(Statement("end")) /\ Statement("end").tag = "end"
BY DEF Statement, Flat, Ops, FlatFits, CondDone, CondFits, Named, None

(* What a statement adds to its list.                                      *)
LEMMA WrittenFits ==
  ASSUME NEW s \in Growing, FlatFits(s), BlocksFit(s), BlocksThere(s)
  PROVE  Written(s) \in Seq(Flat) /\ ListFits(Written(s))
<1>1. PICK h : h = [s EXCEPT !.blocks = <<>>]
  OBVIOUS
<1>2. h \in Flat /\ h.tag = s.tag /\ h.tag \notin {"else", "end"}
  BY <1>1 DEF Growing, Flat, Tags
<1>3. FlatFits(h)
  <2>1. h.tag = s.tag /\ h.cond = s.cond /\ h.name = s.name /\ h.args = s.args
    BY <1>1 DEF Growing
  <2> QED BY <2>1 DEF FlatFits, CondDone, CondFits, Named
<1>4. \A i \in 1 .. Len(s.blocks) : s.blocks[i] \in Seq(Flat) /\ ListFits(s.blocks[i])
  <2>1. s.blocks \in Seq(Seq(Flat))
    BY DEF Growing
  <2> QED BY <2>1, ElementOfSeq DEF BlocksFit
<1>5. PICK o \in Seq(Flat) : /\ o = <<>> /\ Nested(o, FALSE) /\ Nested(o, TRUE)
                            /\ \A k \in 1 .. Len(o) : FlatFits(o[k])
  <2>1. PICK o \in Seq(Flat) : o = <<>> /\ Len(o) = 0
    <3>1. <<>> \in Seq(Flat) /\ Len(<<>>) = 0
      OBVIOUS
    <3> QED BY <3>1
  <2>2. Nested(o, FALSE) /\ Nested(o, TRUE)
    BY <2>1, NestedEmpty
  <2>3. \A k \in 1 .. Len(o) : FlatFits(o[k])
    BY <2>1
  <2> QED BY <2>1, <2>2, <2>3
<1>a. PICK q \in BOOLEAN : q <=> s.tag = "branch"
  OBVIOUS
<1>6. <<h>> \in Seq(Flat) /\ \A k \in 1 .. Len(<<h>>) : FlatFits(<<h>>[k])
  BY <1>2, <1>3, OneFits
<1>7. PICK x \in Seq(Flat) :
        /\ x = IF Len(s.blocks) >= 1 /\ s.blocks[1] # <<>> THEN s.blocks[1] ELSE <<>>
        /\ Nested(x, FALSE) /\ \A k \in 1 .. Len(x) : FlatFits(x[k])
  <2>1. CASE Len(s.blocks) >= 1 /\ s.blocks[1] # <<>>
    <3>1. 1 \in 1 .. Len(s.blocks)
      BY <2>1 DEF Growing
    <3>2. s.blocks[1] \in Seq(Flat) /\ ListFits(s.blocks[1])
      BY <1>4, <3>1
    <3> QED BY <2>1, <3>2 DEF ListFits
  <2>2. CASE ~(Len(s.blocks) >= 1 /\ s.blocks[1] # <<>>)
    BY <1>5, <2>2
  <2> QED BY <2>1, <2>2
<1>8. PICK y \in Seq(Flat) :
        /\ y = IF Len(s.blocks) >= 2 /\ s.blocks[2] # <<>>
               THEN <<Statement("else")>> \o s.blocks[2] ELSE <<>>
        /\ Nested(y, q) /\ \A k \in 1 .. Len(y) : FlatFits(y[k])
        /\ s.tag \notin BlockTags => y = <<>>
  <2>1. CASE Len(s.blocks) >= 2 /\ s.blocks[2] # <<>>
    <3>0. Len(s.blocks) \in Nat /\ Len(s.blocks) # 0 /\ Len(s.blocks) # 1 /\ Len(s.blocks) >= 2
      BY <2>1 DEF Growing
    <3>a. 2 \in 1 .. Len(s.blocks)
      BY <3>0
    <3>b. s.tag = "branch"
      <4>1. s.blocks # <<>>
        BY <3>0
      <4> QED BY <3>0, <4>1 DEF BlocksThere
    <3>1. 2 \in 1 .. Len(s.blocks) /\ s.tag = "branch"
      BY <3>a, <3>b
    <3>2. PICK z \in Seq(Flat) : z = s.blocks[2] /\ ListFits(z)
      BY <1>4, <3>1
    <3>3. Nested(z, TRUE) /\ \A k \in 1 .. Len(z) : FlatFits(z[k])
      BY <3>2, NestedEither DEF ListFits
    <3>4. PICK a \in Seq(Flat) :
            /\ a = <<Statement("else")>> /\ Nested(a, TRUE) /\ \A k \in 1 .. Len(a) : FlatFits(a[k])
      <4>1. Nested(<<Statement("else")>>, TRUE)
        BY ElseAndEnd, NestedElse
      <4>2. <<Statement("else")>> \in Seq(Flat)
              /\ \A k \in 1 .. Len(<<Statement("else")>>) : FlatFits(<<Statement("else")>>[k])
        BY ElseAndEnd, OneFits
      <4> QED BY <4>1, <4>2
    <3>5. /\ a \o z \in Seq(Flat) /\ Nested(a \o z, TRUE)
          /\ \A k \in 1 .. Len(a \o z) : FlatFits((a \o z)[k])
      BY <3>3, <3>4, BothFit
    <3>6. Nested(a \o z, q) /\ s.tag \in BlockTags
      <4>1. q = TRUE
        BY <1>a, <3>1
      <4> QED BY <3>1, <3>5, <4>1 DEF BlockTags
    <3> QED BY <2>1, <3>2, <3>4, <3>5, <3>6
  <2>2. CASE ~(Len(s.blocks) >= 2 /\ s.blocks[2] # <<>>)
    <3>1. Nested(o, q)
      BY <1>5, NestedEmpty
    <3> QED BY <1>5, <2>2, <3>1
  <2> QED BY <2>1, <2>2
<1>9. PICK e : e = Statement("end")
  OBVIOUS
<1>10. Written(s) = ((<<h>> \o x) \o y) \o (IF s.tag \in BlockTags THEN <<e>> ELSE <<>>)
  BY <1>1, <1>7, <1>8, <1>9 DEF Written, BlockTags
<1>11. CASE s.tag \in BlockTags
  <2>1. Nested(x, q)
    <3>1. q = TRUE \/ q = FALSE
      OBVIOUS
    <3> QED BY <1>7, <3>1, NestedEither
  <2>2. PICK w : w = x \o y
    OBVIOUS
  <2>3. w \in Seq(Flat) /\ Nested(w, q) /\ \A k \in 1 .. Len(w) : FlatFits(w[k])
    BY <1>7, <1>8, <2>1, <2>2, BothFit, ZenonT(40)
  <2>4. Written(s) = (<<h>> \o w) \o <<e>>
    <3>1. PICK a \in Seq(Flat) : a = <<h>>
      BY <1>6
    <3>2. (a \o x) \o y = a \o (x \o y)
      <4>1. a \in Seq(Flat) /\ x \in Seq(Flat) /\ y \in Seq(Flat)
        BY <3>1, <1>7, <1>8
      <4> QED BY <4>1, ConcatAssociative, SMTT(30)
    <3> QED BY <1>10, <1>11, <2>2, <3>1, <3>2
  <2>5. e \in Flat /\ FlatFits(e) /\ e.tag = "end"
    BY <1>9, ElseAndEnd
  <2>6. Nested(Written(s), FALSE)
    <3>1. h.tag \in BlockTags /\ (q => h.tag = "branch")
      BY <1>2, <1>11, <1>a
    <3> QED BY <1>2, <2>3, <2>4, <2>5, <3>1, NestedBlock
  <2>7. PICK u : u = <<h>> \o w
    OBVIOUS
  <2>8. /\ Len(w) \in Nat /\ u \in Seq(Flat) /\ Len(u) = Len(w) + 1 /\ u[1] = h
        /\ \A k \in 1 .. Len(w) : u[1 + k] = w[k]
    BY <1>2, <2>3, <2>7, FrontIs
  <2>9. PICK l : l = u \o <<e>>
    OBVIOUS
  <2>10. /\ l \in Seq(Flat) /\ Len(l) = Len(u) + 1 /\ l[Len(u) + 1] = e
         /\ \A k \in 1 .. Len(u) : l[k] = u[k]
    BY <2>5, <2>8, <2>9, BehindIs
  <2>11. ASSUME NEW k \in 1 .. Len(l) PROVE FlatFits(l[k])
    <3>1. CASE k = 1
      BY <1>3, <2>8, <2>10, <3>1
    <3>2. CASE k = Len(u) + 1
      BY <2>5, <2>10, <3>2
    <3>3. CASE k # 1 /\ k # Len(u) + 1
      <4>1. PICK i : i = k - 1
        OBVIOUS
      <4>2. i \in 1 .. Len(w) /\ k = 1 + i /\ k \in 1 .. Len(u)
        BY <2>8, <2>10, <3>3, <4>1
      <4>3. l[k] = w[i]
        BY <2>8, <2>10, <4>2
      <4> QED BY <2>3, <4>2, <4>3
    <3> QED BY <3>1, <3>2, <3>3
  <2>12. Written(s) = l
    BY <2>4, <2>7, <2>9
  <2> QED BY <2>6, <2>10, <2>11, <2>12 DEF ListFits
<1>12. CASE s.tag \notin BlockTags
  <2>1. x = <<>> /\ y = <<>>
    BY <1>7, <1>8, <1>12 DEF BlocksThere
  <2>2. Written(s) = <<h>>
    BY <1>6, <1>10, <1>12, <2>1
  <2>3. Nested(<<h>>, FALSE)
    BY <1>2, <1>12, NestedSingle
  <2> QED BY <1>6, <2>2, <2>3 DEF ListFits
<1> QED BY <1>11, <1>12

----------------------------------------------------------------------------
(* The depth by counting is the depth from statement to statement.         *)
Below == OpToRel(<, Nat)
LEMMA HasLeast ==
  ASSUME NEW T \in SUBSET Nat, T # {}
  PROVE  \E x \in T : \A y \in T : x <= y
<1>1. IsWellFoundedOn(Below, Nat)
  BY NatLessThanWellFounded DEF Below
<1>2. PICK x \in T : \A y \in T : <<y, x>> \notin Below
  BY <1>1, WFMin, Zenon
<1>3. ASSUME NEW y \in T PROVE x <= y
  <2>1. <<y, x>> \notin Below
    BY <1>2
  <2> QED BY <2>1 DEF Below, OpToRel
<1> QED BY <1>3

LEMMA CountStep ==
  ASSUME NEW A, NEW n \in Nat
  PROVE  /\ Cardinality({i \in 1 .. n : i \in A}) \in Nat
         /\ Cardinality({i \in 1 .. n + 1 : i \in A})
              = Cardinality({i \in 1 .. n : i \in A}) + (IF n + 1 \in A THEN 1 ELSE 0)
<1>1. PICK B : B = {i \in 1 .. n : i \in A}
  OBVIOUS
<1>2. IsFiniteSet(B) /\ Cardinality(B) \in Nat
  <2>1. IsFiniteSet(1 .. n)
    BY FS_Interval
  <2>2. B \in SUBSET (1 .. n)
    BY <1>1
  <2>3. IsFiniteSet(B)
    BY <2>1, <2>2, FS_Subset
  <2> QED BY <2>3, FS_CardinalityType
<1>3. CASE n + 1 \in A
  <2>1. {i \in 1 .. n + 1 : i \in A} = B \cup {n + 1} /\ n + 1 \notin B
    BY <1>1, <1>3
  <2>2. Cardinality(B \cup {n + 1}) = Cardinality(B) + 1
    BY <1>2, <2>1, FS_AddElement
  <2> QED BY <1>1, <1>2, <1>3, <2>1, <2>2
<1>4. CASE n + 1 \notin A
  <2>1. {i \in 1 .. n + 1 : i \in A} = B
    BY <1>1, <1>4
  <2> QED BY <1>1, <1>2, <1>4, <2>1
<1> QED BY <1>3, <1>4

LEMMA DepthStep ==
  ASSUME NEW l, NEW n \in Nat
  PROVE  Depth(l, n) \in Int /\ Depth(l, n + 1) = DepthAfter(l[n + 1], Depth(l, n))
<1>1. PICK A, E : A = {i \in Nat : Opens(l[i])} /\ E = {i \in Nat : l[i].tag = "end"}
  OBVIOUS
<1>2. \A k \in Nat : /\ {i \in 1 .. k : Opens(l[i])} = {i \in 1 .. k : i \in A}
                     /\ {i \in 1 .. k : l[i].tag = "end"} = {i \in 1 .. k : i \in E}
  BY <1>1
<1>3. PICK a, b, e, f : /\ a = Cardinality({i \in 1 .. n : i \in A})
                        /\ b = Cardinality({i \in 1 .. n + 1 : i \in A})
                        /\ e = Cardinality({i \in 1 .. n : i \in E})
                        /\ f = Cardinality({i \in 1 .. n + 1 : i \in E})
  OBVIOUS
<1>4. a \in Nat /\ b = a + (IF n + 1 \in A THEN 1 ELSE 0)
  BY <1>3, CountStep
<1>5. e \in Nat /\ f = e + (IF n + 1 \in E THEN 1 ELSE 0)
  BY <1>3, CountStep
<1>6. Depth(l, n) = a - e
  <2>1. /\ {i \in 1 .. n : Opens(l[i])} = {i \in 1 .. n : i \in A}
        /\ {i \in 1 .. n : l[i].tag = "end"} = {i \in 1 .. n : i \in E}
    BY <1>2
  <2> QED BY <1>3, <2>1 DEF Depth
<1>7. Depth(l, n + 1) = b - f
  <2>1. n + 1 \in Nat
    OBVIOUS
  <2>2. /\ {i \in 1 .. n + 1 : Opens(l[i])} = {i \in 1 .. n + 1 : i \in A}
        /\ {i \in 1 .. n + 1 : l[i].tag = "end"} = {i \in 1 .. n + 1 : i \in E}
    BY <1>2, <2>1
  <2> QED BY <1>3, <2>2 DEF Depth
<1>8. (n + 1 \in A <=> l[n + 1].tag \in BlockTags) /\ (n + 1 \in E <=> l[n + 1].tag = "end")
  BY <1>1 DEF Opens, BlockTags
<1>9. ~(n + 1 \in A /\ n + 1 \in E)
  BY <1>8 DEF BlockTags
<1> QED BY <1>4, <1>5, <1>6, <1>7, <1>8, <1>9 DEF DepthAfter

LEMMA DepthIs ==
  ASSUME NEW l, Len(l) \in Nat, NEW d, NEW q, NestedBy(l, d, q)
  PROVE  \A k \in 0 .. Len(l) : Depth(l, k) = d[k]
<1>1. PICK n : n = Len(l)
  OBVIOUS
<1>2. /\ n \in Nat /\ d \in [0 .. n -> Nat] /\ d[0] = 0
      /\ \A k \in 1 .. n : d[k] = DepthAfter(l[k], d[k - 1])
  BY <1>1 DEF NestedBy
<1>3. PICK T : T = {k \in 0 .. n : Depth(l, k) # d[k]}
  OBVIOUS
<1> SUFFICES ASSUME T # {} PROVE FALSE
  BY <1>1, <1>3
<1>4. PICK x \in T : \A y \in T : x <= y
  <2>1. T \in SUBSET Nat
    BY <1>2, <1>3
  <2> QED BY <2>1, HasLeast
<1>5. x \in 0 .. n /\ Depth(l, x) # d[x]
  BY <1>3, <1>4
<1>6. Depth(l, 0) = 0
  <2>1. {i \in 1 .. 0 : Opens(l[i])} = {} /\ {i \in 1 .. 0 : l[i].tag = "end"} = {}
    OBVIOUS
  <2>2. Cardinality({}) = 0
    BY FS_EmptySet
  <2> QED BY <2>1, <2>2 DEF Depth
<1>7. x # 0
  BY <1>2, <1>5, <1>6
<1>8. PICK y \in Nat : x = y + 1 /\ y \in 0 .. n /\ y + 1 \in 1 .. n
  <2>1. x - 1 \in Nat /\ x = (x - 1) + 1 /\ x - 1 \in 0 .. n /\ (x - 1) + 1 \in 1 .. n
    BY <1>2, <1>5, <1>7
  <2> QED BY <2>1
<1>9. Depth(l, y) = d[y]
  <2>1. y \notin T
    BY <1>4, <1>8
  <2> QED BY <1>3, <1>8, <2>1
<1>10. Depth(l, y + 1) = DepthAfter(l[y + 1], Depth(l, y))
  BY <1>8, DepthStep
<1>11. d[y + 1] = DepthAfter(l[y + 1], d[y])
  <2>1. (y + 1) - 1 = y
    BY <1>8
  <2>2. d[y + 1] = DepthAfter(l[y + 1], d[(y + 1) - 1])
    BY <1>2, <1>8
  <2> QED BY <2>1, <2>2
<1> QED BY <1>5, <1>8, <1>9, <1>10, <1>11

(* The one statement that opens the block of an else.                      *)
LEMMA OpenerIs ==
  ASSUME NEW l, Len(l) \in Nat, NEW d, NEW q, NestedBy(l, d, q), NEW k \in 1 .. Len(l), ElseOf(l, d, k)
  PROVE  l[Opener(l, k)].tag = "branch"
<1>1. \A j \in 0 .. Len(l) : Depth(l, j) = d[j]
  BY DepthIs
<1>2. PICK n : n = Len(l)
  OBVIOUS
<1>3. /\ n \in Nat /\ d \in [0 .. n -> Nat] /\ k \in 1 .. n
      /\ \A j \in 1 .. n : d[j] = DepthAfter(l[j], d[j - 1])
  BY <1>2 DEF NestedBy
<1>4. \A j \in 0 .. n : Depth(l, j) = d[j] /\ d[j] \in Nat
  BY <1>1, <1>2, <1>3
<1>5. PICK i \in 1 .. k - 1 : /\ l[i].tag = "branch" /\ d[i] = d[k]
                             /\ \A j \in i + 1 .. k - 1 : d[j] >= d[k]
  BY DEF ElseOf
<1> DEFINE P(h) == /\ Opens(l[h]) /\ Depth(l, h) = Depth(l, k)
                   /\ \A j \in h + 1 .. k - 1 : Depth(l, j) >= Depth(l, k)
<1>6. P(i)
  <2>1. i \in 0 .. n /\ k \in 0 .. n /\ \A j \in i + 1 .. k - 1 : j \in 0 .. n
    BY <1>3
  <2>2. Opens(l[i])
    BY <1>5 DEF Opens
  <2> QED BY <1>4, <1>5, <2>1, <2>2
<1>7. PICK o : o = Opener(l, k)
  OBVIOUS
<1>8. o \in 1 .. k - 1 /\ P(o)
  <2>1. \E h \in 1 .. k - 1 : P(h)
    BY <1>6
  <2>2. o = CHOOSE h \in 1 .. k - 1 : P(h)
    BY <1>7 DEF Opener
  <2> HIDE DEF P
  <2> QED BY <2>1, <2>2
<1>9. ASSUME NEW g \in 1 .. k - 1, NEW h \in 1 .. k - 1, P(g), P(h), g < h PROVE FALSE
  <2>1. h \in 1 .. n /\ h \in 0 .. n /\ h - 1 \in 0 .. n /\ g \in 0 .. n /\ k \in 0 .. n
    BY <1>3
  <2>2. d[h] = d[h - 1] + 1
    <3>1. l[h].tag \in BlockTags
      BY <1>9 DEF Opens, BlockTags
    <3>2. d[h] = DepthAfter(l[h], d[h - 1])
      BY <1>3, <2>1
    <3> QED BY <3>1, <3>2 DEF DepthAfter
  <2>3. d[h] = d[k] /\ d[g] = d[k]
    <3>1. Depth(l, h) = Depth(l, k) /\ Depth(l, g) = Depth(l, k)
      BY <1>9
    <3> QED BY <1>4, <2>1, <3>1
  <2>4. d[h - 1] \in Nat /\ d[k] \in Nat
    BY <1>4, <2>1
  <2>5. CASE h - 1 = g
    BY <2>2, <2>3, <2>4, <2>5
  <2>6. CASE h - 1 # g
    <3>1. h - 1 \in g + 1 .. k - 1
      BY <1>3, <1>9, <2>6
    <3>2. Depth(l, h - 1) >= Depth(l, k)
      BY <1>9, <3>1
    <3>3. Depth(l, h - 1) = d[h - 1] /\ Depth(l, k) = d[k]
      BY <1>4, <2>1
    <3> QED BY <2>2, <2>3, <2>4, <3>2, <3>3
  <2> QED BY <2>5, <2>6
<1>10. o = i
  <2>1. ~(o < i)
    BY <1>6, <1>8, <1>9
  <2>2. ~(i < o)
    BY <1>6, <1>8, <1>9
  <2>3. o \in Int /\ i \in Int
    BY <1>3, <1>8
  <2> QED BY <2>1, <2>2, <2>3
<1> QED BY <1>5, <1>7, <1>10

(* Such a list is what the code generator takes for granted.               *)
LEMMA ListSuits ==
  ASSUME NEW l \in Seq(Flat), ListFits(l)
  PROVE  /\ \A k \in DOMAIN l :
              /\ l[k].tag = "branch" => l[k].cond # <<>>
              /\ l[k].cond # <<>> => Len(l[k].cond) = 3 /\ l[k].cond[2] \in Comparisons
              /\ l[k].tag = "call" <=> l[k].name # None
              /\ Depth(l, k) >= 0
              /\ l[k].tag = "else" => l[Opener(l, k)].tag = "branch"
         /\ Depth(l, Len(l)) = 0
<1>1. PICK d : NestedBy(l, d, FALSE)
  BY DEF ListFits, Nested
<1>2. Len(l) \in Nat /\ DOMAIN l = 1 .. Len(l)
  OBVIOUS
<1>3. \A k \in 0 .. Len(l) : Depth(l, k) = d[k] /\ d[k] \in Nat
  <2>1. d \in [0 .. Len(l) -> Nat]
    BY <1>1 DEF NestedBy
  <2> QED BY <1>1, <1>2, <2>1, DepthIs
<1>4. ASSUME NEW k \in 1 .. Len(l), l[k].tag = "else" PROVE l[Opener(l, k)].tag = "branch"
  <2>1. ElseOf(l, d, k)
    BY <1>1, <1>4 DEF NestedBy
  <2> QED BY <1>1, <1>2, <2>1, OpenerIs
<1>5. Depth(l, Len(l)) = 0
  <2>1. d[Len(l)] = 0 /\ Len(l) \in 0 .. Len(l)
    BY <1>1, <1>2 DEF NestedBy
  <2> QED BY <1>3, <2>1
<1>6. ASSUME NEW k \in 1 .. Len(l)
      PROVE  /\ l[k].tag = "branch" => l[k].cond # <<>>
             /\ l[k].cond # <<>> => Len(l[k].cond) = 3 /\ l[k].cond[2] \in Comparisons
             /\ l[k].tag = "call" <=> l[k].name # None
  <2>1. FlatFits(l[k])
    BY DEF ListFits
  <2>2. l[k].cond \in Seq(CondPart)
    <3>1. l[k] \in Flat
      BY ElementOfSeq
    <3> QED BY <3>1 DEF Flat
  <2>3. l[k].cond # <<>> => Len(l[k].cond) # 0
    BY <2>2, EmptySeq
  <2> QED BY <2>1, <2>3 DEF FlatFits, CondDone, CondFits, Named
<1>7. \A k \in 1 .. Len(l) : Depth(l, k) >= 0
  <2>1. \A k \in 1 .. Len(l) : k \in 0 .. Len(l)
    BY <1>2
  <2> QED BY <1>3, <2>1
<1> QED BY <1>2, <1>4, <1>5, <1>6, <1>7

----------------------------------------------------------------------------
(* The statements in progress and their lists.                             *)
Block == [stmt : Growing, list : Seq(Flat)]

StatementsFit(b) ==
  /\ \A n \in 1 .. Len(b) :
       /\ b[n].stmt.tag # "proc" => Named(b[n].stmt)
       /\ Len(b[n].stmt.args) <= 2
       /\ ListFits(b[n].list) /\ BlocksFit(b[n].stmt)
  /\ \A n \in 1 .. Len(b) - 1 :
       /\ b[n].stmt.tag \in BlockTags \cup {"proc"}
       /\ CondDone(b[n].stmt) /\ b[n].stmt.args = <<>>
  /\ Len(b) >= 1 => b[1].stmt.tag = "proc"

(* The innermost statement and its list become e.                          *)
Changed(b, c, e) ==
  /\ c \in Seq(Block) /\ Len(c) = Len(b)
  /\ \A m \in 1 .. Len(b) - 1 : c[m] = b[m]
  /\ c[Len(b)] = e

LEMMA ChangedIs ==
  ASSUME NEW b \in Seq(Block), Len(b) > 0, NEW e \in Block, NEW c, c = [b EXCEPT ![Len(b)] = e]
  PROVE  Changed(b, c, e)
<1>1. PICK n : n = Len(b)
  OBVIOUS
<1>2. n \in Nat \ {0} /\ b \in [1 .. n -> Block]
  BY <1>1
<1>3. c = [k \in 1 .. n |-> IF k = n THEN e ELSE b[k]]
  BY <1>1, <1>2
<1>4. c \in Seq(Block) /\ Len(c) = n
  BY <1>2, <1>3
<1>5. c[n] = e /\ \A m \in 1 .. n - 1 : c[m] = b[m]
  BY <1>2, <1>3
<1> QED BY <1>1, <1>4, <1>5 DEF Changed

LEMMA ChangedFits ==
  ASSUME NEW b \in Seq(Block), Len(b) > 0, StatementsFit(b), NEW e, NEW c, Changed(b, c, e),
         e.stmt.tag # "proc" => Named(e.stmt), Len(e.stmt.args) <= 2,
         ListFits(e.list), BlocksFit(e.stmt), Len(b) = 1 => e.stmt.tag = "proc"
  PROVE  SameOthers(b, c) /\ StatementsFit(c)
<1>1. PICK n : n = Len(b)
  OBVIOUS
<1>2. n \in Nat \ {0}
  BY <1>1
<1>3. Len(c) = n /\ c[n] = e /\ \A m \in 1 .. n - 1 : c[m] = b[m]
  BY <1>1 DEF Changed
<1>4. SameOthers(b, c)
  BY <1>1, <1>3 DEF SameOthers
<1>5. \A m \in 1 .. n : m = n \/ m \in 1 .. n - 1
  BY <1>2
<1>6. ASSUME NEW m \in 1 .. n
      PROVE  /\ c[m].stmt.tag # "proc" => Named(c[m].stmt)
             /\ Len(c[m].stmt.args) <= 2
             /\ ListFits(c[m].list) /\ BlocksFit(c[m].stmt)
  <2>1. CASE m = n
    BY <1>3, <2>1
  <2>2. CASE m \in 1 .. n - 1
    <3>1. c[m] = b[m] /\ m \in 1 .. Len(b)
      BY <1>1, <1>2, <1>3, <2>2
    <3> QED BY <3>1 DEF StatementsFit
  <2> QED BY <1>5, <2>1, <2>2
<1>7. ASSUME NEW m \in 1 .. n - 1
      PROVE  /\ c[m].stmt.tag \in BlockTags \cup {"proc"}
             /\ CondDone(c[m].stmt) /\ c[m].stmt.args = <<>>
  <2>1. c[m] = b[m] /\ m \in 1 .. Len(b) - 1
    BY <1>1, <1>2, <1>3
  <2> QED BY <2>1 DEF StatementsFit
<1>8. c[1].stmt.tag = "proc"
  <2>1. CASE n = 1
    BY <1>1, <1>3, <2>1
  <2>2. CASE n # 1
    <3>1. 1 \in 1 .. n - 1
      BY <1>2, <2>2
    <3>2. b[1].stmt.tag = "proc"
      BY <1>1, <1>2 DEF StatementsFit
    <3> QED BY <1>3, <3>1, <3>2
  <2> QED BY <2>1, <2>2
<1> QED BY <1>2, <1>3, <1>4, <1>6, <1>7, <1>8 DEF StatementsFit

(* SetStmt.                                                                *)
Put(b, z) == [b EXCEPT ![Len(b)].stmt = z]

LEMMA StatementSet ==
  ASSUME NEW b \in Seq(Block), Len(b) > 0, StatementsFit(b),
         NEW z \in Growing, NEW c, c = Put(b, z),
         z.tag # "proc" => Named(z), Len(z.args) <= 2, BlocksFit(z), Len(b) = 1 => z.tag = "proc"
  PROVE  /\ c \in Seq(Block) /\ SameOthers(b, c) /\ StatementsFit(c) /\ c[Len(b)].stmt = z
         /\ Len(b) # 1 => c[1] = b[1]
<1>1. PICK n : n = Len(b)
  OBVIOUS
<1>2. n \in Nat \ {0} /\ b[n] \in Block /\ n \in 1 .. n
  <2>1. n \in Nat \ {0} /\ n \in 1 .. Len(b)
    BY <1>1
  <2> QED BY <1>1, <2>1, ElementOfSeq
<1>3. PICK e : e = [b[n] EXCEPT !.stmt = z]
  OBVIOUS
<1>4. e \in Block /\ e.stmt = z /\ e.list = b[n].list
  BY <1>2, <1>3 DEF Block
<1>5. c = [b EXCEPT ![Len(b)] = e]
  BY <1>1, <1>3 DEF Put
<1>6. Changed(b, c, e)
  BY <1>4, <1>5, ChangedIs
<1>7. ListFits(e.list)
  <2>1. ListFits(b[n].list)
    BY <1>1, <1>2 DEF StatementsFit
  <2> QED BY <1>4, <2>1
<1>8. SameOthers(b, c) /\ StatementsFit(c)
  BY <1>4, <1>6, <1>7, ChangedFits
<1>9. n # 1 => c[1] = b[1]
  <2>1. n # 1 => 1 \in 1 .. n - 1
    BY <1>2
  <2> QED BY <1>1, <1>6, <2>1 DEF Changed
<1> QED BY <1>1, <1>4, <1>6, <1>8, <1>9 DEF Changed

(* Emplace.                                                                *)
LEMMA NothingYet ==
  /\ Statement(None) \in Growing /\ Statement(None).tag = "none" /\ Statement(None).blocks = <<>>
  /\ Len(Statement(None).args) = 0 /\ Named(Statement(None)) /\ BlocksFit(Statement(None))
<1>1. Len(<<>>) = 0 /\ 1 .. 0 = {}
  OBVIOUS
<1>2. Statement(None) \in Growing
  BY DEF Statement, Growing, Tags, Ops, None
<1> QED BY <1>1, <1>2 DEF Statement, Named, BlocksFit, None

Emplaced(b, s) ==
  [b EXCEPT ![Len(b)] = [stmt |-> Statement(None), list |-> @.list \o Written(s)]]

LEMMA StatementEmplaced ==
  ASSUME NEW b \in Seq(Block), Len(b) > 1, StatementsFit(b), NEW s, s = b[Len(b)].stmt,
         FlatFits(s), BlocksThere(s), NEW c, c = Emplaced(b, s)
  PROVE  /\ c \in Seq(Block) /\ SameOthers(b, c) /\ StatementsFit(c)
         /\ c[1] = b[1]
<1>1. PICK n : n = Len(b)
  OBVIOUS
<1>2. n \in Nat \ {0} /\ b[n] \in Block /\ n \in 1 .. n /\ n > 1
  <2>1. n \in Nat \ {0} /\ n \in 1 .. Len(b)
    BY <1>1
  <2> QED BY <1>1, <2>1, ElementOfSeq
<1>3. s \in Growing /\ b[n].list \in Seq(Flat) /\ ListFits(b[n].list) /\ BlocksFit(s)
  <2>1. ListFits(b[n].list) /\ BlocksFit(b[n].stmt)
    BY <1>1, <1>2 DEF StatementsFit
  <2> QED BY <1>1, <1>2, <2>1 DEF Block
<1>4. PICK l \in Seq(Flat) : l = Written(s) /\ ListFits(l)
  BY <1>3, WrittenFits
<1>5. PICK a : a = b[n].list \o l
  OBVIOUS
<1>6. a \in Seq(Flat) /\ ListFits(a)
  BY <1>3, <1>4, <1>5, BothFit DEF ListFits
<1>7. PICK e : e = [stmt |-> Statement(None), list |-> a]
  OBVIOUS
<1>8. e \in Block /\ e.stmt = Statement(None) /\ e.list = a
  BY <1>6, <1>7, NothingYet DEF Block
<1>9. c = [b EXCEPT ![Len(b)] = e]
  BY <1>1, <1>4, <1>5, <1>7 DEF Emplaced
<1>a. Len(b) > 0 /\ Len(b) # 1
  BY <1>1, <1>2
<1>10. Changed(b, c, e)
  BY <1>8, <1>9, <1>a, ChangedIs
<1>11. SameOthers(b, c) /\ StatementsFit(c)
  <2>1. Named(e.stmt) /\ Len(e.stmt.args) <= 2 /\ ListFits(e.list) /\ BlocksFit(e.stmt)
    BY <1>6, <1>8, NothingYet
  <2> QED BY <1>a, <1>10, <2>1, ChangedFits
<1>12. c[1] = b[1]
  <2>1. 1 \in 1 .. n - 1
    BY <1>2
  <2> QED BY <1>1, <1>10, <2>1 DEF Changed
<1> QED BY <1>10, <1>11, <1>12 DEF Changed

(* A list begun for the innermost statement.                               *)
LEMMA ListBegun ==
  ASSUME NEW b \in Seq(Block), Len(b) > 0, StatementsFit(b), NEW s, s = b[Len(b)].stmt,
         s.tag \in BlockTags \cup {"proc"}, CondDone(s), Len(s.args) = 0,
         NEW c, c = Append(b, [stmt |-> Statement(None), list |-> <<>>])
  PROVE  /\ c \in Seq(Block) /\ OneMore(b, c) /\ StatementsFit(c)
         /\ c[1] = b[1]
<1>1. PICK n : n = Len(b)
  OBVIOUS
<1>2. n \in Nat \ {0} /\ b[n] \in Block /\ 1 \in 1 .. n
  <2>1. n \in Nat \ {0} /\ n \in 1 .. Len(b)
    BY <1>1
  <2> QED BY <1>1, <2>1, ElementOfSeq
<1>3. PICK e : e = [stmt |-> Statement(None), list |-> <<>>]
  OBVIOUS
<1>4. e \in Block /\ e.stmt = Statement(None) /\ e.list = <<>>
  BY <1>3, NothingYet DEF Block
<1>5. /\ c \in Seq(Block) /\ Len(c) = n + 1 /\ c[n + 1] = e
      /\ \A m \in 1 .. n : c[m] = b[m]
  BY <1>1, <1>3, <1>4, AppendIs
<1>6. OneMore(b, c)
  BY <1>1, <1>5 DEF OneMore
<1>7. ListFits(<<>>)
  <2>1. PICK l : l = <<>>
    OBVIOUS
  <2>2. Len(l) = 0 /\ 1 .. 0 = {}
    BY <2>1
  <2>a. Nested(l, FALSE)
    BY <2>1, NestedEmpty
  <2>3. ListFits(l)
    BY <2>2, <2>a DEF ListFits
  <2> QED BY <2>1, <2>3
<1>8. ASSUME NEW m \in 1 .. n + 1
      PROVE  /\ c[m].stmt.tag # "proc" => Named(c[m].stmt)
             /\ Len(c[m].stmt.args) <= 2
             /\ ListFits(c[m].list) /\ BlocksFit(c[m].stmt)
  <2>1. CASE m = n + 1
    BY <1>4, <1>5, <1>7, <2>1, NothingYet
  <2>2. CASE m # n + 1
    <3>1. m \in 1 .. n
      BY <1>2, <2>2
    <3>2. c[m] = b[m] /\ m \in 1 .. Len(b)
      BY <1>1, <1>5, <3>1
    <3> QED BY <3>2 DEF StatementsFit
  <2> QED BY <2>1, <2>2
<1>9. ASSUME NEW m \in 1 .. n
      PROVE  /\ c[m].stmt.tag \in BlockTags \cup {"proc"}
             /\ CondDone(c[m].stmt) /\ c[m].stmt.args = <<>>
  <2>1. c[m] = b[m]
    BY <1>5
  <2>2. CASE m = n
    <3>1. s.args = <<>>
      <4>1. s.args \in Seq(OperandType)
        BY <1>1, <1>2 DEF Block, Growing
      <4> QED BY <4>1
    <3> QED BY <1>1, <2>1, <2>2, <3>1
  <2>3. CASE m # n
    <3>1. m \in 1 .. Len(b) - 1
      BY <1>1, <1>2, <2>3
    <3> QED BY <2>1, <3>1 DEF StatementsFit
  <2> QED BY <2>2, <2>3
<1>10. c[1] = b[1] /\ b[1].stmt.tag = "proc"
  BY <1>1, <1>2, <1>5 DEF StatementsFit
<1>11. StatementsFit(c)
  <2>1. Len(c) = n + 1 /\ (n + 1) - 1 = n
    BY <1>2, <1>5
  <2> QED BY <1>8, <1>9, <1>10, <2>1 DEF StatementsFit
<1> QED BY <1>5, <1>6, <1>10, <1>11

(* CloseBlock.                                                             *)
LEMMA FrontOf ==
  ASSUME NEW S, NEW b \in Seq(S), Len(b) > 0
  PROVE  /\ Front(b) \in Seq(S) /\ Len(Front(b)) = Len(b) - 1
         /\ \A k \in 1 .. Len(b) - 1 : Front(b)[k] = b[k]
<1>1. PICK f : f = Front(b)
  OBVIOUS
<1>2. PICK n : n = Len(b)
  OBVIOUS
<1>3. n \in Nat \ {0}
  BY <1>2
<1>4. f = [k \in 1 .. n - 1 |-> b[k]]
  <2>1. f = SubSeq(b, 1, n - 1)
    BY <1>1, <1>2 DEF Front
  <2>2. SubSeq(b, 1, n - 1) = [k \in 1 .. (1 + (n - 1)) - 1 |-> b[(k + 1) - 1]]
    BY <1>2, <1>3
  <2> QED BY <1>3, <2>1, <2>2
<1>5. \A k \in 1 .. n - 1 : b[k] \in S
  BY <1>2, <1>3
<1>6. f \in Seq(S) /\ Len(f) = n - 1 /\ \A k \in 1 .. n - 1 : f[k] = b[k]
  BY <1>3, <1>4, <1>5
<1> QED BY <1>1, <1>2, <1>6

Closed(o, l) == [o EXCEPT ![Len(o)].stmt.blocks = Append(@, l)]

LEMMA ClosedIs ==
  ASSUME NEW o, NEW l
  PROVE  Closed(o, l) =
           [o EXCEPT ![Len(o)] =
              [o[Len(o)] EXCEPT !.stmt =
                 [o[Len(o)].stmt EXCEPT !.blocks = Append(o[Len(o)].stmt.blocks, l)]]]
BY Zenon DEF Closed

LEMMA ListClosed ==
  ASSUME NEW b \in Seq(Block), Len(b) > 1, StatementsFit(b), NEW o, o = Front(b),
         NEW c, c = Closed(o, b[Len(b)].list)
  PROVE  c \in Seq(Block) /\ BlockAdded(b, c) /\ StatementsFit(c) /\ c[1].stmt.name = b[1].stmt.name
<1>1. PICK n : n = Len(b) - 1
  OBVIOUS
<1>2. /\ n \in Nat \ {0} /\ Len(b) = n + 1 /\ b[n] \in Block /\ n \in 1 .. n
      /\ n \in 1 .. Len(b) - 1 /\ n \in 1 .. Len(b) /\ n + 1 \in 1 .. Len(b) /\ b[n + 1] \in Block
  <2>a. Len(b) \in Nat
    OBVIOUS
  <2>1. n \in Nat \ {0} /\ Len(b) = n + 1
    BY <1>1, <2>a
  <2>2. n \in 1 .. Len(b) /\ n + 1 \in 1 .. Len(b) /\ n \in 1 .. Len(b) - 1 /\ n \in 1 .. n
    BY <2>1
  <2> QED BY <2>1, <2>2, ElementOfSeq
<1>3. o \in Seq(Block) /\ Len(o) = n /\ \A k \in 1 .. n : o[k] = b[k]
  <2>1. Len(b) > 0
    BY <1>2
  <2> QED BY <1>1, <2>1, FrontOf
<1>4. PICK s, l : s = b[n].stmt /\ l = b[n + 1].list
  OBVIOUS
<1>5. /\ s \in Growing /\ l \in Seq(Flat) /\ ListFits(l) /\ BlocksFit(s) /\ Len(s.args) <= 2
      /\ s.tag \in BlockTags \cup {"proc"} /\ CondDone(s) /\ s.args = <<>>
      /\ s.tag # "proc" => Named(s)
      /\ ListFits(b[n].list) /\ b[1].stmt.tag = "proc"
  <2>1. s \in Growing /\ l \in Seq(Flat)
    BY <1>2, <1>4 DEF Block
  <2>2. ListFits(l)
    BY <1>2, <1>4 DEF StatementsFit
  <2>3. BlocksFit(s) /\ Len(s.args) <= 2 /\ (s.tag # "proc" => Named(s)) /\ ListFits(b[n].list)
    BY <1>2, <1>4 DEF StatementsFit
  <2>4. s.tag \in BlockTags \cup {"proc"} /\ CondDone(s) /\ s.args = <<>>
    BY <1>2, <1>4 DEF StatementsFit
  <2>5. b[1].stmt.tag = "proc"
    BY <1>2 DEF StatementsFit
  <2> QED BY <2>1, <2>2, <2>3, <2>4, <2>5
<1>6. PICK a : a = Append(s.blocks, l)
  OBVIOUS
<1>7. s.blocks \in Seq(Seq(Flat))
  BY <1>5 DEF Growing
<1>8. /\ a \in Seq(Seq(Flat)) /\ Len(s.blocks) \in Nat /\ Len(a) = Len(s.blocks) + 1
      /\ a[Len(s.blocks) + 1] = l
      /\ \A i \in 1 .. Len(s.blocks) : a[i] = s.blocks[i]
  <2>1. PICK T : T = Seq(Flat)
    OBVIOUS
  <2>2. s.blocks \in Seq(T) /\ l \in T
    BY <1>5, <1>7, <2>1
  <2> QED BY <1>6, <2>1, <2>2, AppendIs
<1>9. PICK z : z = [s EXCEPT !.blocks = a]
  OBVIOUS
<1>10. /\ z \in Growing /\ z.blocks = a /\ z.tag = s.tag /\ z.cond = s.cond /\ z.args = s.args
       /\ z.name = s.name
  BY <1>5, <1>8, <1>9 DEF Growing
<1>11. BlocksFit(z)
  <2> SUFFICES ASSUME NEW i \in 1 .. Len(a) PROVE ListFits(a[i])
    BY <1>10 DEF BlocksFit
  <2>1. CASE i = Len(s.blocks) + 1
    BY <1>5, <1>8, <2>1
  <2>2. CASE i # Len(s.blocks) + 1
    <3>1. i \in 1 .. Len(s.blocks)
      BY <1>8, <2>2
    <3>2. ListFits(s.blocks[i])
      BY <1>5, <3>1 DEF BlocksFit
    <3> QED BY <1>8, <3>1, <3>2
  <2> QED BY <2>1, <2>2
<1>12. PICK e : e = [b[n] EXCEPT !.stmt = z]
  OBVIOUS
<1>13. e \in Block /\ e.stmt = z /\ e.list = b[n].list
  BY <1>2, <1>10, <1>12 DEF Block
<1>14. c = [o EXCEPT ![Len(o)] = e]
  <2>1. o[n] = b[n]
    BY <1>2, <1>3
  <2>2. b[Len(b)].list = l
    BY <1>2, <1>4
  <2>3. e = [o[n] EXCEPT !.stmt = [o[n].stmt EXCEPT !.blocks = Append(o[n].stmt.blocks, l)]]
    BY <1>4, <1>6, <1>9, <1>12, <2>1
  <2> QED BY <1>3, <2>2, <2>3, ClosedIs, Zenon
<1>15. Changed(o, c, e)
  <2>1. Len(o) > 0
    BY <1>2, <1>3
  <2> QED BY <1>3, <1>13, <1>14, <2>1, ChangedIs
<1>16. c \in Seq(Block) /\ Len(c) = n /\ c[n] = e /\ \A m \in 1 .. n - 1 : c[m] = b[m]
  <2>1. \A m \in 1 .. n - 1 : m \in 1 .. n
    BY <1>2
  <2> QED BY <1>3, <1>15, <2>1 DEF Changed
<1>17. BlockAdded(b, c)
  BY <1>1, <1>4, <1>5, <1>8, <1>10, <1>13, <1>16 DEF BlockAdded
<1>18. StatementsFit(o)
  <2>1. \A m \in 1 .. n : o[m] = b[m] /\ m \in 1 .. Len(b) /\ m \in 1 .. Len(b) - 1
    BY <1>2, <1>3
  <2>2. \A m \in 1 .. n - 1 : m \in 1 .. n
    BY <1>2
  <2>3. o[1] = b[1]
    BY <1>2, <2>1
  <2>4. ASSUME NEW m \in 1 .. n
        PROVE  /\ o[m].stmt.tag # "proc" => Named(o[m].stmt)
               /\ Len(o[m].stmt.args) <= 2
               /\ ListFits(o[m].list) /\ BlocksFit(o[m].stmt)
    <3>1. o[m] = b[m] /\ m \in 1 .. Len(b)
      BY <2>1
    <3> QED BY <3>1 DEF StatementsFit
  <2>5. ASSUME NEW m \in 1 .. n - 1
        PROVE  /\ o[m].stmt.tag \in BlockTags \cup {"proc"}
               /\ CondDone(o[m].stmt) /\ o[m].stmt.args = <<>>
    <3>1. o[m] = b[m] /\ m \in 1 .. Len(b) - 1
      BY <2>1, <2>2
    <3> QED BY <3>1 DEF StatementsFit
  <2> QED BY <1>3, <1>5, <2>3, <2>4, <2>5 DEF StatementsFit
<1>19. StatementsFit(c)
  <2>1. Len(o) > 0 /\ (Len(o) = 1 => e.stmt.tag = "proc")
    BY <1>2, <1>3, <1>4, <1>5, <1>10, <1>13
  <2>2. /\ e.stmt.tag # "proc" => Named(e.stmt)
        /\ Len(e.stmt.args) <= 2 /\ ListFits(e.list) /\ BlocksFit(e.stmt)
    BY <1>5, <1>10, <1>11, <1>13 DEF Named
  <2> QED BY <1>3, <1>15, <1>18, <2>1, <2>2, ChangedFits
<1>20. c[1].stmt.name = b[1].stmt.name
  <2>1. CASE n = 1
    BY <1>4, <1>10, <1>13, <1>16, <2>1
  <2>2. CASE n # 1
    <3>1. 1 \in 1 .. n - 1
      BY <1>2, <2>2
    <3> QED BY <1>16, <3>1
  <2> QED BY <2>1, <2>2
<1> QED BY <1>16, <1>17, <1>19, <1>20

----------------------------------------------------------------------------
(* The invariant.                                                          *)
Shape(t, b) == b \in Seq(Block) /\ StatementsFit(b) /\ \E v : Fits(t, v, b)

Outputs(p) ==
  /\ p \in [DOMAIN p -> Seq(Flat)]
  /\ \A m \in DOMAIN p : ListFits(p[m])

(* The tokens of s that were passed behind a proc.                         *)
NameAt(s) == {k \in 2 .. Len(s) - 1 : s[k - 1] = "proc"}
Repeated(s) == \E j, k \in NameAt(s) : j # k /\ s[j] = s[k]

(* The procedures of D are those the tokens at the places of P name.       *)
NamedAt(P, s, D) ==
  /\ \A j, k \in P : s[j] = s[k] => j = k
  /\ \A k \in P : s[k] \in D
  /\ \A m \in D : \E k \in P : s[k] = m

(* The name of the procedure in progress is not looked up yet.             *)
Tracked(s, t, b, D) ==
  /\ Head(t) = "name" <=> (Len(s) > 1 /\ s[Len(s) - 1] = "proc")
  /\ IF b = <<>> \/ Head(t) = "name" THEN NamedAt(NameAt(s), s, D)
     ELSE \E c \in NameAt(s) : s[c] = b[1].stmt.name /\ NamedAt(NameAt(s) \ {c}, s, D)

NamesKept ==
  IF status = "redeclared" THEN Repeated(tokens)
  ELSE Tracked(tokens, todo, blocks, DOMAIN procedures)

IInv ==
  /\ tokens \in Seq(vocabulary.words \cup {"eof"}) /\ tokens # <<>>
  /\ parserSuccess \in BOOLEAN
  /\ status \in {"parsing", "parsed", "error", "redeclared"}
  /\ status = "parsed" => Head(todo) = "declaration"
  /\ Shape(todo, blocks)
  /\ Outputs(procedures)
  /\ NamesKept

(* What is known of the innermost statement, and of the steps behind the   *)
(* next one, which is one of its own.                                      *)
Top(t, b, s) ==
  /\ Len(t) \in Nat /\ Len(t) >= 2 /\ Precedes(t[1], t[2]) /\ HeadFits(t[1], t[2], s)
  /\ Len(b) \in Nat \ {0} /\ s = b[Len(b)].stmt /\ s \in Growing
  /\ s.tag # "proc" => Named(s) /\ Len(b) > 1
  /\ Len(s.args) <= 2 /\ BlocksFit(s)
  /\ t[1] # "declare" => Precedes(t[2], t[3]) /\ StepFits(t[2], s)
  /\ t[1] = "comparison" => t[3] # "comparison"
  /\ t[1] = "(" => t[3] = "comparison"

LEMMA TopIs ==
  ASSUME NEW t, NEW b, Shape(t, b), t[1] \notin {"statements", "check", "declaration"},
         NEW s, s = b[Len(b)].stmt
  PROVE  Top(t, b, s)
<1>1. PICK v : Fits(t, v, b)
  BY DEF Shape
<1>2. /\ Leads(t, v) /\ t \in Seq(Steps) /\ v \in Seq(Nat) /\ Len(v) = Len(t) /\ Len(t) \in Nat
      /\ Len(t) >= 2 /\ Precedes(t[1], t[2]) /\ v[1] > 0 /\ v[1] \in Nat /\ Len(b) = v[1]
  <2>1. t[1] # "declaration" /\ t[1] # "statements"
    OBVIOUS
  <2>2. Leads(t, v) /\ t \in Seq(Steps) /\ v \in Seq(Nat) /\ Len(v) = Len(t) /\ Len(t) \in Nat \ {0}
    BY <1>1, FitsBasics
  <2>3. 1 \in 1 .. Len(t)
    BY <2>2
  <2> QED BY <1>1, <2>1, <2>2, <2>3, FitsBasics
<1>3. HeadFits(t[1], t[2], s)
  BY <1>1, <1>2 DEF Fits
<1>4. PICK n : n = Len(b)
  OBVIOUS
<1>5. n \in Nat \ {0} /\ n \in 1 .. n /\ n \in 1 .. Len(b)
  BY <1>2, <1>4
<1>6. s \in Growing /\ BlocksFit(s) /\ Len(s.args) <= 2 /\ (s.tag # "proc" => Named(s))
  <2>1. b \in Seq(Block) /\ StatementsFit(b)
    BY DEF Shape
  <2>2. b[n] \in Block
    BY <1>5, <2>1, ElementOfSeq
  <2>3. s \in Growing
    BY <1>4, <2>2 DEF Block
  <2>4. BlocksFit(b[n].stmt) /\ Len(b[n].stmt.args) <= 2 /\ (b[n].stmt.tag # "proc" => Named(b[n].stmt))
    BY <1>5, <2>1 DEF StatementsFit
  <2> QED BY <1>4, <2>3, <2>4
<1>7. s.tag # "proc" => n > 1
  <2>1. b[1].stmt.tag = "proc"
    BY <1>4, <1>5 DEF Shape, StatementsFit
  <2>2. n # 1 => n > 1
    BY <1>5
  <2> QED BY <1>4, <2>1, <2>2
<1>8. ASSUME t[1] # "declare"
      PROVE  /\ Precedes(t[2], t[3]) /\ StepFits(t[2], s)
             /\ t[1] = "comparison" => t[3] # "comparison"
             /\ t[1] = "(" => t[3] = "comparison"
  <2>1. 1 \in 1 .. Len(t) - 1
    BY <1>2
  <2>2. v[1 + 1] = v[1]
    BY <1>2, <1>8, <2>1 DEF Leads
  <2>3. t[2] # "declaration"
    BY <1>2, <1>8 DEF Precedes
  <2>4. Len(t) # 2
    BY <1>2, <2>3 DEF Leads
  <2>5. 2 \in 1 .. Len(t) - 1 /\ 2 \in 2 .. Len(t) /\ 1 \in 1 .. Len(t) - 2
    <3>1. PICK l : l = Len(t)
      OBVIOUS
    <3>2. l \in Nat /\ l >= 2 /\ l # 2
      BY <1>2, <2>4, <3>1
    <3>3. 2 \in 1 .. l - 1 /\ 2 \in 2 .. l /\ 1 \in 1 .. l - 2
      BY <3>2
    <3> QED BY <3>1, <3>3
  <2>6. Precedes(t[2], t[2 + 1])
    BY <1>2, <2>5 DEF Leads
  <2>7. StepFits(t[2], b[v[2]].stmt)
    BY <1>1, <1>2, <2>2, <2>5 DEF Fits
  <2>8. /\ t[1] = "comparison" => t[1 + 2] # "comparison"
        /\ t[1] = "(" => t[1 + 2] = "comparison"
    BY <1>2, <2>5 DEF Leads, CondOrder
  <2> QED BY <1>2, <2>2, <2>6, <2>7, <2>8
<1> QED BY <1>2, <1>3, <1>4, <1>5, <1>6, <1>7, <1>8 DEF Top

(* The functions change the name of the procedure only when they meet it.  *)
SameProcedure(b, c) == b # <<>> /\ c # <<>> /\ c[1].stmt.name = b[1].stmt.name

After(u, b, c) == Shape(u, c) /\ SameProcedure(b, c) /\ Head(u) # "name"

LEMMA HeadOf ==
  ASSUME NEW t, NEW b, Shape(t, b), NEW p \in Seq(Steps), p # <<>>
  PROVE  Head(p \o t) = p[1]
<1>1. t \in Seq(Steps)
  BY DEF Shape, Fits, Leads
<1>2. PICK u : u = p \o t
  OBVIOUS
<1>3. Len(p) \in Nat /\ Len(p) # 0 /\ Len(t) \in Nat
  BY <1>1, EmptySeq, LenProperties
<1>4. u \in Seq(Steps) /\ Len(u) = Len(p) + Len(t) /\ \A k \in 1 .. Len(p) : u[k] = p[k]
  BY <1>1, <1>2, ConcatIs
<1>5. 1 \in 1 .. Len(p)
  BY <1>3
<1>6. Head(u) = u[1]
  BY <1>4
<1> QED BY <1>2, <1>4, <1>5, <1>6

LEMMA HeadLater ==
  ASSUME NEW t, NEW b, Shape(t, b), t[1] # "declaration", NEW p \in Seq(Steps),
         p # <<>> => p[1] # "name"
  PROVE  Head(p \o Tail(t)) # "name"
<1>1. PICK v : Fits(t, v, b)
  BY DEF Shape
<1>2. /\ t \in Seq(Steps) /\ Len(t) \in Nat /\ Len(t) >= 2 /\ Precedes(t[1], t[2])
  BY <1>1, FitsBasics
<1>3. PICK r \in Seq(Steps) :
        /\ r = Tail(t) /\ r # <<>> /\ Len(r) = Len(t) - 1
        /\ \A k \in 1 .. Len(t) - 1 : r[k] = t[k + 1]
  BY <1>2, TailIs, Zenon
<1>4. r[1] # "name"
  <2>1. 1 \in 1 .. Len(t) - 1
    BY <1>2
  <2>2. r[1] = t[2]
    BY <1>3, <2>1
  <2> QED BY <1>2, <2>2 DEF Precedes
<1>5. PICK u : u = p \o r
  OBVIOUS
<1>6. /\ u \in Seq(Steps) /\ Len(u) = Len(p) + Len(r) /\ Len(p) \in Nat /\ Len(r) \in Nat \ {0}
      /\ \A k \in 1 .. Len(p) : u[k] = p[k]
      /\ \A k \in 1 .. Len(r) : u[Len(p) + k] = r[k]
  <2>1. Len(r) \in Nat \ {0}
    BY <1>2, <1>3
  <2> QED BY <1>3, <1>5, <2>1, ConcatIs, SMTT(30)
<1>7. u[1] # "name"
  <2>1. CASE p = <<>>
    <3>1. Len(p) = 0 /\ 1 \in 1 .. Len(r)
      BY <1>6, <2>1
    <3>2. u[0 + 1] = r[1]
      BY <1>6, <3>1
    <3> QED BY <1>4, <3>2
  <2>2. CASE p # <<>>
    <3>1. Len(p) # 0
      BY <2>2, EmptySeq
    <3>2. 1 \in 1 .. Len(p)
      BY <1>6, <3>1
    <3> QED BY <1>6, <2>2, <3>2
  <2> QED BY <2>1, <2>2
<1>8. Head(u) = u[1]
  BY <1>6
<1> QED BY <1>3, <1>5, <1>7, <1>8

(* The statement s becomes z, and the steps p are to be made next.         *)
Goes(t, p, s, z) ==
  LET next == IF p = <<>> THEN t[2] ELSE p[1]
      then == IF p = <<>> THEN t[3] ELSE IF Len(p) = 1 THEN t[2] ELSE p[2]
  IN /\ Lined(p, t[2]) /\ \A k \in 1 .. Len(p) : p[k] \notin {"check", "declare"}
     /\ SameKind(s, z)
     /\ t[1] # "after-source" /\ s.tag \in Assigning => z.tag \in Assigning
     /\ s.tag = "proc" \/ (z.name = s.name /\ (z.tag = "call" <=> s.tag = "call"))
     /\ Len(z.args) <= 2
     /\ \A k \in 1 .. Len(p) :
          /\ StepFits(p[k], z)
          /\ p[k] = "statements" =>
               Len(z.blocks) = BlocksBefore(IF k = Len(p) THEN t[2] ELSE p[k + 1], z)
     /\ p # <<>> => p[1] # "statements"
     /\ HeadFits(next, then, z)

LEMMA GoesOn ==
  ASSUME NEW t, NEW b, Shape(t, b),
         t[1] \notin {"brace", "statements", "check", "declare", "declaration"},
         NEW s, s = b[Len(b)].stmt, NEW z \in Growing, NEW p, Goes(t, p, s, z),
         NEW c, (c = b /\ z = s) \/ c = Put(b, z)
  PROVE  /\ Shape(p \o Tail(t), c) /\ b # <<>> /\ c # <<>>
         /\ s.tag # "proc" => After(p \o Tail(t), b, c)
<1>1. Top(t, b, s)
  BY TopIs
<1>2. /\ Len(b) \in Nat \ {0} /\ BlocksFit(s) /\ (s.tag # "proc" => Named(s) /\ Len(b) > 1)
      /\ s \in Growing
  BY <1>1 DEF Top
<1>a. b \in Seq(Block) /\ StatementsFit(b)
  BY DEF Shape
<1>3. /\ SameKind(s, z) /\ Len(z.args) <= 2
      /\ s.tag = "proc" \/ (z.name = s.name /\ (z.tag = "call" <=> s.tag = "call"))
  BY DEF Goes
<1>4. BlocksFit(z)
  BY <1>2, <1>3 DEF SameKind, BlocksFit
<1>5. (z.tag # "proc" => Named(z)) /\ (s.tag = "proc" => z.tag = "proc")
  <2>1. s.tag = "proc" => z.tag = "proc"
    BY <1>3 DEF SameKind, PlainTags
  <2> QED BY <1>2, <1>3, <2>1 DEF Named
<1>6. Len(b) = 1 => z.tag = "proc"
  <2>1. Len(b) = 1 => s.tag = "proc"
    BY <1>2
  <2> QED BY <1>5, <2>1
<1>7. /\ c \in Seq(Block) /\ SameOthers(b, c) /\ StatementsFit(c) /\ c[Len(b)].stmt = z
      /\ Len(b) # 1 => c[1] = b[1]
  <2>1. CASE c = b /\ z = s
    BY <1>a, <2>1 DEF SameOthers
  <2>2. CASE c = Put(b, z)
    <3>1. Len(b) > 0
      BY <1>2
    <3> QED BY <1>3, <1>4, <1>5, <1>6, <1>a, <2>2, <3>1, StatementSet
  <2> QED BY <2>1, <2>2
<1>8. PICK v : Fits(t, v, b)
  BY DEF Shape
<1>9. Takes(t, p, b, c)
  BY <1>7 DEF Takes, Goes, SameOthers
<1>10. \E w : Fits(p \o Tail(t), w, c)
  BY <1>8, <1>9, StepTaken
<1>11. Shape(p \o Tail(t), c)
  BY <1>7, <1>10 DEF Shape
<1>12. b # <<>> /\ c # <<>>
  <2>1. Len(b) # 0 /\ Len(c) # 0
    BY <1>2, <1>7 DEF SameOthers
  <2> QED BY <1>7, <1>a, <2>1, EmptySeq
<1>13. s.tag # "proc" => c[1] = b[1]
  BY <1>2, <1>7
<1>14. s.tag # "proc" => Head(p \o Tail(t)) # "name"
  <2>1. p \in Seq(Steps)
    BY DEF Goes, Lined
  <2>2. s.tag # "proc" => z.tag # "proc"
    BY <1>3 DEF SameKind, PlainTags
  <2>3. p # <<>> => StepFits(p[1], z)
    BY DEF Goes, HeadFits
  <2>4. s.tag # "proc" /\ p # <<>> => p[1] # "name"
    BY <2>2, <2>3 DEF StepFits
  <2>5. t[1] # "declaration"
    OBVIOUS
  <2> QED BY <2>1, <2>4, <2>5, HeadLater
<1> QED BY <1>11, <1>12, <1>13, <1>14 DEF SameProcedure, After

(* The step makes no other call.                                           *)
LEMMA NoCall ==
  /\ Len(<<>>) = 0 /\ 1 .. 0 = {}
  /\ \A t : Lined(<<>>, t)
<1>1. Len(<<>>) = 0 /\ 1 .. 0 = {} /\ 1 .. 0 - 1 = {} /\ 1 .. 0 - 2 = {} /\ <<>> \in Seq(Steps)
  OBVIOUS
<1> QED BY <1>1 DEF Lined, CondOrder

LEMMA GoesPast ==
  ASSUME NEW t, NEW s, NEW z, SameKind(s, z),
         t[1] # "after-source" /\ s.tag \in Assigning => z.tag \in Assigning,
         s.tag = "proc" \/ (z.name = s.name /\ (z.tag = "call" <=> s.tag = "call")),
         Len(z.args) <= 2, HeadFits(t[2], t[3], z)
  PROVE  Goes(t, <<>>, s, z)
BY NoCall DEF Goes

----------------------------------------------------------------------------
(* Steps without a call and what they make of the innermost statement.     *)
LEMMA CondIs ==
  ASSUME NEW s \in Growing
  PROVE  /\ s.cond \in Seq(CondPart) /\ Len(s.cond) \in Nat /\ (s.cond = <<>> <=> Len(s.cond) = 0)
         /\ s.args \in Seq(OperandType) /\ Len(s.args) \in Nat /\ s.tag \in Tags
<1>1. s.cond \in Seq(CondPart) /\ s.args \in Seq(OperandType) /\ s.tag \in Tags
  BY DEF Growing
<1>2. Len(s.cond) \in Nat /\ (s.cond = <<>> <=> Len(s.cond) = 0) /\ Len(s.args) \in Nat
  BY <1>1, EmptySeq
<1> QED BY <1>1, <1>2

LEMMA CondMore ==
  ASSUME NEW s \in Growing, NEW x \in CondPart, NEW c, c = Append(s.cond, x)
  PROVE  /\ c \in Seq(CondPart) /\ Len(c) = Len(s.cond) + 1
         /\ \A k \in 1 .. Len(s.cond) : c[k] = s.cond[k]
         /\ c[Len(s.cond) + 1] = x
BY CondIs, AppendIs

LEMMA ArgsMore ==
  ASSUME NEW s \in Growing, NEW x \in OperandType, NEW a, a = Append(s.args, x)
  PROVE  a \in Seq(OperandType) /\ Len(a) = Len(s.args) + 1
BY CondIs, AppendIs

(* Past an optional or a fixed token.                                      *)
LEMMA GoesBeyond ==
  ASSUME NEW t, NEW b, NEW s, Top(t, b, s), HeadFits(t[2], t[3], s)
  PROVE  Goes(t, <<>>, s, s)
BY GoesPast DEF Top, SameKind

LEMMA BeyondParenOpen ==
  ASSUME NEW t, NEW b, NEW s, Top(t, b, s), t[1] = "("
  PROVE  Goes(t, <<>>, s, s)
<1>1. t[2] = "operand" /\ t[3] = "comparison"
  BY DEF Top, Precedes
<1>2. HeadFits(t[2], t[3], s)
  BY <1>1 DEF Top, HeadFits, StepFits, ArgsBefore, PlainSteps, BlockTags, CondSteps
<1> QED BY <1>2, GoesBeyond

LEMMA BeyondParenClose ==
  ASSUME NEW t, NEW b, NEW s, Top(t, b, s), t[1] = ")"
  PROVE  Goes(t, <<>>, s, s)
<1>1. t[2] = "brace"
  BY DEF Top, Precedes
<1>2. CondDone(s)
  <2>1. Len(s.cond) = 3 /\ s.cond[2] \in Comparisons /\ s \in Growing
    BY DEF Top, HeadFits
  <2>2. s.cond # <<>>
    BY <2>1, CondIs
  <2> QED BY <2>1, <2>2 DEF CondDone, CondFits
<1>3. HeadFits(t[2], t[3], s)
  BY <1>1, <1>2 DEF Top, HeadFits, StepFits, ArgsBefore, PlainSteps, BlockTags, CondSteps
<1> QED BY <1>3, GoesBeyond

LEMMA BeyondIf ==
  ASSUME NEW t, NEW b, NEW s, Top(t, b, s), t[1] = "if"
  PROVE  Goes(t, <<>>, s, s)
<1>1. t[2] \in {"semicolon", "after-source"}
  BY DEF Top, Precedes
<1>2. CondFits(s)
  <2>1. s.cond = <<>> /\ s \in Growing
    BY DEF Top, HeadFits, PlainSteps
  <2> QED BY <2>1, CondIs DEF CondFits
<1>3. HeadFits(t[2], t[3], s)
  BY <1>1, <1>2 DEF Top, HeadFits, StepFits, ArgsBefore, PlainSteps, PlainTags, CondSteps
<1> QED BY <1>3, GoesBeyond

LEMMA BeyondLoopCondition ==
  ASSUME NEW t, NEW b, NEW s, Top(t, b, s), t[1] = "loop-condition"
  PROVE  Goes(t, <<>>, s, s)
<1>1. t[2] = "brace"
  BY DEF Top, Precedes
<1>2. CondDone(s)
  <2>1. s.cond = <<>> /\ s \in Growing /\ s.tag = "loop"
    BY DEF Top, HeadFits
  <2> QED BY <2>1, CondIs DEF CondDone, CondFits
<1>3. HeadFits(t[2], t[3], s)
  BY <1>1, <1>2 DEF Top, HeadFits, StepFits, ArgsBefore, PlainSteps, BlockTags, CondSteps
<1> QED BY <1>3, GoesBeyond

LEMMA BeyondElse ==
  ASSUME NEW t, NEW b, NEW s, Top(t, b, s), t[1] = "else"
  PROVE  Goes(t, <<>>, s, s)
<1>1. t[2] = "end"
  BY DEF Top, Precedes
<1>2. Len(s.blocks) \in 1 .. 2 /\ s.tag = "branch"
  BY DEF Top, HeadFits, StepFits
<1>3. HeadFits(t[2], t[3], s)
  BY <1>1, <1>2 DEF Top, HeadFits, StepFits, ArgsBefore, PlainSteps, BlockTags, CondSteps
<1> QED BY <1>3, GoesBeyond

LEMMA GoesWith ==
  ASSUME NEW t, NEW b, NEW s, Top(t, b, s), NEW z \in Growing, SameKind(s, z), z.name = s.name,
         t[1] # "after-source" /\ s.tag \in Assigning => z.tag \in Assigning,
         z.tag = "call" <=> s.tag = "call", Len(z.args) <= 2, HeadFits(t[2], t[3], z)
  PROVE  Goes(t, <<>>, s, z)
BY GoesPast

LEMMA OperandOfCond ==
  ASSUME NEW t, NEW b, NEW s, Top(t, b, s), t[1] \in {"operand", "minus-operand"},
         NEW x \in OperandType, NEW z, z = [s EXCEPT !.cond = Append(s.cond, x)]
  PROVE  z \in Growing /\ Goes(t, <<>>, s, z)
<1>1. s \in Growing
  BY DEF Top
<1>2. /\ z \in Growing /\ z.tag = s.tag /\ z.blocks = s.blocks /\ z.name = s.name /\ z.args = s.args
      /\ z.cond = Append(s.cond, x)
  <2>1. Append(s.cond, x) \in Seq(CondPart)
    BY <1>1, CondMore DEF CondPart
  <2> QED BY <1>1, <2>1 DEF Growing
<1>3. /\ Len(z.cond) = Len(s.cond) + 1 /\ Len(s.cond) \in Nat /\ (s.cond = <<>> <=> Len(s.cond) = 0)
      /\ z.cond # <<>>
      /\ Len(s.cond) = 2 => z.cond[2] = s.cond[2]
  <2>1. x \in CondPart
    BY DEF CondPart
  <2>2. /\ Len(z.cond) = Len(s.cond) + 1
        /\ \A k \in 1 .. Len(s.cond) : z.cond[k] = s.cond[k]
    BY <1>1, <1>2, <2>1, CondMore
  <2>3. Len(s.cond) \in Nat /\ (s.cond = <<>> <=> Len(s.cond) = 0)
    BY <1>1, CondIs
  <2>a. Len(z.cond) # 0
    BY <2>2, <2>3
  <2>4. z.cond # <<>>
    BY <1>2, <2>a, CondIs
  <2> QED BY <2>2, <2>3, <2>4
<1>4. SameKind(s, z)
  BY <1>2 DEF SameKind
<1>5. t[2] \in {"comparison", ")", "semicolon", "after-source"}
  BY DEF Top, Precedes
<1>6. IF t[2] = "comparison" THEN s.cond = <<>> ELSE Len(s.cond) = 2 /\ s.cond[2] \in Comparisons
  BY DEF Top, HeadFits
<1>7. StepFits(t[2], z)
  BY <1>2, <1>4, KindKept DEF Top
<1>8. Len(z.args) = ArgsBefore(t[2], z)
  BY <1>2, <1>5 DEF Top, HeadFits, ArgsBefore
<1>9. HeadFits(t[2], t[3], z)
  <2>1. CASE t[2] = "comparison"
    <3>1. Len(z.cond) = 1
      BY <1>3, <1>6, <2>1
    <3> QED BY <1>7, <1>8, <2>1, <3>1 DEF HeadFits, PlainSteps
  <2>2. CASE t[2] \in {")", "semicolon", "after-source"}
    <3>1. Len(z.cond) = 3 /\ z.cond[2] \in Comparisons
      <4>1. Len(s.cond) = 2 /\ s.cond[2] \in Comparisons
        BY <1>6, <2>2
      <4> QED BY <1>3, <4>1
    <3> QED BY <1>7, <1>8, <2>2, <3>1 DEF HeadFits, PlainSteps, CondFits
  <2> QED BY <1>5, <2>1, <2>2
<1> QED BY <1>2, <1>4, <1>9, GoesWith DEF Top

LEMMA ComparisonOfCond ==
  ASSUME NEW t, NEW b, NEW s, Top(t, b, s), t[1] = "comparison",
         NEW x \in Comparisons, NEW z, z = [s EXCEPT !.cond = Append(s.cond, x)]
  PROVE  z \in Growing /\ Goes(t, <<>>, s, z)
<1>1. s \in Growing
  BY DEF Top
<1>2. /\ z \in Growing /\ z.tag = s.tag /\ z.blocks = s.blocks /\ z.name = s.name /\ z.args = s.args
      /\ z.cond = Append(s.cond, x)
  <2>1. Append(s.cond, x) \in Seq(CondPart)
    BY <1>1, CondMore DEF CondPart
  <2> QED BY <1>1, <2>1 DEF Growing
<1>3. Len(z.cond) = 2 /\ z.cond[2] = x
  <2>1. x \in CondPart
    BY DEF CondPart
  <2>2. Len(s.cond) = 1
    BY DEF Top, HeadFits
  <2>3. Len(z.cond) = Len(s.cond) + 1 /\ z.cond[Len(s.cond) + 1] = x
    BY <1>1, <1>2, <2>1, CondMore
  <2> QED BY <2>2, <2>3
<1>4. SameKind(s, z)
  BY <1>2 DEF SameKind
<1>5. t[2] = "operand" /\ t[3] # "comparison"
  BY DEF Top, Precedes
<1>6. StepFits(t[2], z)
  BY <1>2, <1>4, KindKept DEF Top
<1>7. Len(z.args) = ArgsBefore(t[2], z)
  BY <1>2, <1>5 DEF Top, HeadFits, ArgsBefore
<1>8. HeadFits(t[2], t[3], z)
  BY <1>3, <1>5, <1>6, <1>7 DEF HeadFits, PlainSteps
<1> QED BY <1>2, <1>4, <1>8, GoesWith DEF Top

LEMMA OperandOfSource ==
  ASSUME NEW t, NEW b, NEW s, Top(t, b, s), t[1] \in {"source", "minus-source"},
         NEW x \in OperandType, NEW z, z = [s EXCEPT !.args = Append(s.args, x)]
  PROVE  z \in Growing /\ Goes(t, <<>>, s, z)
<1>1. s \in Growing
  BY DEF Top
<1>2. /\ z \in Growing /\ z.tag = s.tag /\ z.blocks = s.blocks /\ z.name = s.name /\ z.cond = s.cond
      /\ Len(z.args) = Len(s.args) + 1
  <2>1. Append(s.args, x) \in Seq(OperandType) /\ Len(Append(s.args, x)) = Len(s.args) + 1
    BY <1>1, ArgsMore
  <2> QED BY <1>1, <2>1 DEF Growing
<1>3. /\ Len(s.args) = ArgsBefore(t[1], s) /\ s.cond = <<>>
      /\ s.tag \in {"assignment", "shorthand", "longhand", "stdout"}
  BY DEF Top, HeadFits, PlainSteps
<1>4. SameKind(s, z)
  BY <1>2 DEF SameKind
<1>5. t[2] = "if"
  BY DEF Top, Precedes
<1>6. StepFits(t[2], z)
  BY <1>2, <1>4, KindKept DEF Top
<1>7. Len(z.args) = ArgsBefore(t[2], z) /\ Len(z.args) <= 2
  BY <1>2, <1>3, <1>5 DEF ArgsBefore
<1>8. HeadFits(t[2], t[3], z)
  BY <1>2, <1>3, <1>5, <1>6, <1>7 DEF HeadFits, PlainSteps
<1> QED BY <1>2, <1>4, <1>7, <1>8, GoesWith DEF Top

LEMMA AssignOp ==
  ASSUME NEW t, NEW b, NEW s, Top(t, b, s), t[1] = "assign", NEW x \in {"="} \cup Shorthands,
         NEW z, z = [s EXCEPT !.tag = IF x = "=" THEN s.tag ELSE "shorthand", !.op = x]
  PROVE  z \in Growing /\ Goes(t, <<>>, s, z)
<1>1. s \in Growing /\ s.tag = "assignment" /\ s.cond = <<>> /\ Len(s.args) = 0 /\ StepFits("assign", s)
  BY DEF Top, HeadFits, PlainSteps, ArgsBefore
<1>2. /\ z \in Growing /\ z.tag \in Assigning /\ z.blocks = s.blocks /\ z.name = s.name
      /\ z.cond = s.cond /\ z.args = s.args
  BY <1>1 DEF Growing, Tags, Ops, Assigning
<1>3. SameKind(s, z) /\ (z.tag = "call" <=> s.tag = "call")
  BY <1>1, <1>2 DEF SameKind, Assigning, PlainTags
<1>4. t[2] = "source"
  BY DEF Top, Precedes
<1>5. HeadFits(t[2], t[3], z)
  BY <1>1, <1>2, <1>4 DEF HeadFits, StepFits, ArgsBefore, PlainSteps, PlainTags, Assigning, CondSteps
<1>6. Len(z.args) <= 2
  BY <1>1, <1>2
<1> QED BY <1>2, <1>3, <1>5, <1>6, GoesWith

LEMMA TextSource ==
  ASSUME NEW t, NEW b, NEW s, Top(t, b, s), t[1] = "text", NEW x \in OperandType,
         NEW z, z = [s EXCEPT !.tag = "text", !.args = <<x>>]
  PROVE  z \in Growing /\ Goes(t, <<>>, s, z)
<1>1. s \in Growing /\ s.tag = "stdout" /\ s.cond = <<>> /\ s.blocks = <<>>
  BY DEF Top, HeadFits, PlainSteps, StepFits, CondSteps
<1>2. /\ z \in Growing /\ z.tag = "text" /\ z.blocks = s.blocks /\ z.name = s.name
      /\ z.cond = s.cond /\ Len(z.args) = 1
  <2>1. <<x>> \in Seq(OperandType) /\ Len(<<x>>) = 1
    BY SingleIs
  <2> QED BY <1>1, <2>1 DEF Growing, Tags
<1>3. SameKind(s, z) /\ (z.tag = "call" <=> s.tag = "call")
  BY <1>1, <1>2 DEF SameKind, PlainTags
<1>4. t[2] = "if"
  BY DEF Top, Precedes
<1>5. HeadFits(t[2], t[3], z)
  BY <1>1, <1>2, <1>4 DEF HeadFits, StepFits, ArgsBefore, PlainSteps, PlainTags, CondSteps
<1>6. Len(z.args) <= 2 /\ s.tag \notin Assigning
  BY <1>1, <1>2 DEF Assigning
<1> QED BY <1>2, <1>3, <1>5, <1>6, GoesWith

LEMMA RegisterTaken ==
  ASSUME NEW t, NEW b, NEW s, Top(t, b, s), t[1] = "register", NEW x \in Registers,
         NEW z, z = [s EXCEPT !.reg = x]
  PROVE  z \in Growing /\ Goes(t, <<>>, s, z)
<1>1. s \in Growing /\ s.cond = <<>>
  BY DEF Top, HeadFits, PlainSteps
<1>2. /\ z \in Growing /\ z.tag = s.tag /\ z.blocks = s.blocks /\ z.name = s.name
      /\ z.cond = s.cond /\ z.args = s.args
  BY <1>1 DEF Growing
<1>3. SameKind(s, z)
  BY <1>2 DEF SameKind
<1>4. t[2] = "if"
  BY DEF Top, Precedes
<1>5. StepFits(t[2], z) /\ Len(z.args) = ArgsBefore(t[2], z)
  <2>1. StepFits(t[2], z)
    BY <1>2, <1>3, <1>4, KindKept DEF Top
  <2> QED BY <1>2, <1>4, <2>1 DEF Top, HeadFits, ArgsBefore
<1>6. HeadFits(t[2], t[3], z)
  BY <1>1, <1>2, <1>4, <1>5 DEF HeadFits, PlainSteps
<1> QED BY <1>2, <1>3, <1>6, GoesWith DEF Top

LEMMA NameTaken ==
  ASSUME NEW t, NEW b, NEW s, Top(t, b, s), t[1] = "name", NEW x \in Names,
         NEW z, z = [s EXCEPT !.name = x]
  PROVE  z \in Growing /\ Goes(t, <<>>, s, z)
<1>1. s \in Growing /\ s.tag = "proc" /\ s.cond = <<>> /\ Len(s.args) = 0
  BY DEF Top, HeadFits, StepFits, ArgsBefore
<1>2. /\ z \in Growing /\ z.tag = s.tag /\ z.blocks = s.blocks
      /\ z.cond = s.cond /\ z.args = s.args
  BY <1>1 DEF Growing
<1>3. SameKind(s, z)
  BY <1>2 DEF SameKind
<1>4. t[2] = "brace"
  BY DEF Top, Precedes
<1>5. CondDone(z)
  BY <1>1, <1>2, CondIs DEF CondDone, CondFits
<1>6. HeadFits(t[2], t[3], z)
  BY <1>1, <1>2, <1>4, <1>5 DEF HeadFits, StepFits, ArgsBefore, PlainSteps, CondSteps
<1>7. Len(z.args) <= 2 /\ s.tag \notin Assigning
  BY <1>1, <1>2 DEF Assigning
<1> QED BY <1>1, <1>2, <1>3, <1>6, <1>7, GoesPast

----------------------------------------------------------------------------
(* Steps that call for others.                                             *)
LEMMA GoesTo ==
  ASSUME NEW t, NEW b, NEW s, Top(t, b, s),
         NEW q \in Steps \ {"comparison", "(", "check", "declare", "statements"},
         Precedes(q, t[2]), HeadFits(q, t[2], s)
  PROVE  Goes(t, <<q>>, s, s)
<1>1. PICK p : p = <<q>>
  OBVIOUS
<1>2. p \in Seq(Steps) /\ Len(p) = 1 /\ p[1] = q /\ p # <<>>
  BY <1>1, SingleIs
<1>3. 1 .. 0 = {} /\ 1 .. 1 = {1} /\ 1 - 2 = -1 /\ 1 .. -1 = {} /\ 1 - 1 = 0 /\ ~(1 >= 2)
  OBVIOUS
<1>4. Lined(p, t[2])
  BY <1>2, <1>3 DEF Lined, CondOrder
<1>5. StepFits(q, s) /\ Len(s.args) <= 2
  BY DEF HeadFits, Top
<1>6. SameKind(s, s)
  BY DEF SameKind
<1>7. Goes(t, p, s, s)
  BY <1>2, <1>3, <1>4, <1>5, <1>6 DEF Goes
<1> QED BY <1>1, <1>7

LEMMA GoesToMinus ==
  ASSUME NEW t, NEW b, NEW s, Top(t, b, s)
  PROVE  /\ t[1] = "source" => Goes(t, <<"minus-source">>, s, s)
         /\ t[1] = "operand" => Goes(t, <<"minus-operand">>, s, s)
<1>1. ASSUME t[1] = "source" PROVE Goes(t, <<"minus-source">>, s, s)
  <2>1. HeadFits("minus-source", t[2], s)
    BY <1>1 DEF Top, HeadFits, StepFits, ArgsBefore, PlainSteps, CondSteps
  <2>2. Precedes("minus-source", t[2])
    BY <1>1 DEF Top, Precedes
  <2> QED BY <2>1, <2>2, GoesTo DEF Steps, PlainSteps
<1>2. ASSUME t[1] = "operand" PROVE Goes(t, <<"minus-operand">>, s, s)
  <2>1. HeadFits("minus-operand", t[2], s)
    BY <1>2 DEF Top, HeadFits, StepFits, ArgsBefore, PlainSteps, CondSteps
  <2>2. Precedes("minus-operand", t[2])
    BY <1>2 DEF Top, Precedes
  <2> QED BY <2>1, <2>2, GoesTo DEF Steps, CondSteps
<1> QED BY <1>1, <1>2

LEMMA GoesToSource ==
  ASSUME NEW t, NEW b, NEW s, Top(t, b, s), t[1] = "text"
  PROVE  Goes(t, <<"source">>, s, s)
<1>1. HeadFits("source", t[2], s)
  BY DEF Top, HeadFits, StepFits, ArgsBefore, PlainSteps, CondSteps
<1>2. Precedes("source", t[2])
  BY DEF Top, Precedes
<1> QED BY <1>1, <1>2, GoesTo DEF Steps, PlainSteps

LEMMA GoesToCond ==
  ASSUME NEW t, NEW b, NEW s, Top(t, b, s), t[1] = "if"
  PROVE  Goes(t, <<"operand", "comparison", "operand">>, s, s)
<1>1. PICK p : p = <<"operand", "comparison", "operand">>
  OBVIOUS
<1>2. /\ p \in Seq(Steps) /\ Len(p) = 3 /\ p # <<>>
      /\ p[1] = "operand" /\ p[2] = "comparison" /\ p[3] = "operand"
  BY <1>1 DEF Steps, CondSteps
<1>3. 1 .. 2 = {1, 2} /\ 1 .. 3 = {1, 2, 3} /\ 1 .. 1 = {1}
  OBVIOUS
<1>4. t[2] \in {"semicolon", "after-source"} /\ s \in Growing /\ s.cond = <<>> /\ Len(s.args) <= 2
      /\ Len(s.args) = ArgsBefore("if", s) /\ s.tag # "proc"
  BY DEF Top, HeadFits, StepFits, Precedes, PlainSteps, PlainTags, CondSteps
<1>5. Lined(p, t[2])
  BY <1>2, <1>3, <1>4 DEF Lined, CondOrder, Precedes
<1>6. \A k \in 1 .. 3 : StepFits(p[k], s) /\ p[k] # "statements" /\ p[k] \notin {"check", "declare"}
  BY <1>2, <1>3, <1>4 DEF StepFits, PlainSteps, CondSteps
<1>7. HeadFits(p[1], p[2], s)
  BY <1>2, <1>4 DEF HeadFits, StepFits, ArgsBefore, PlainSteps, CondSteps
<1>8. Goes(t, p, s, s)
  BY <1>2, <1>3, <1>4, <1>5, <1>6, <1>7 DEF Goes, SameKind
<1> QED BY <1>1, <1>8

LEMMA GoesToLoopCond ==
  ASSUME NEW t, NEW b, NEW s, Top(t, b, s), t[1] = "loop-condition"
  PROVE  Goes(t, <<"operand", "comparison", "operand", ")">>, s, s)
<1>1. PICK p : p = <<"operand", "comparison", "operand", ")">>
  OBVIOUS
<1>2. /\ p \in Seq(Steps) /\ Len(p) = 4 /\ p # <<>>
      /\ p[1] = "operand" /\ p[2] = "comparison" /\ p[3] = "operand" /\ p[4] = ")"
  BY <1>1 DEF Steps, CondSteps
<1>3. 1 .. 2 = {1, 2} /\ 1 .. 3 = {1, 2, 3} /\ 1 .. 4 = {1, 2, 3, 4}
  OBVIOUS
<1>4. t[2] = "brace" /\ s \in Growing /\ s.cond = <<>> /\ Len(s.args) <= 2 /\ s.tag = "loop"
      /\ Len(s.args) = ArgsBefore("loop-condition", s)
  BY DEF Top, HeadFits, Precedes, PlainSteps
<1>5. Lined(p, t[2])
  BY <1>2, <1>3, <1>4 DEF Lined, CondOrder, Precedes
<1>6. \A k \in 1 .. 4 : StepFits(p[k], s) /\ p[k] # "statements" /\ p[k] \notin {"check", "declare"}
  BY <1>2, <1>3, <1>4 DEF StepFits, PlainSteps, BlockTags, CondSteps
<1>7. HeadFits(p[1], p[2], s)
  BY <1>2, <1>4 DEF HeadFits, StepFits, ArgsBefore, PlainSteps, CondSteps
<1>8. Goes(t, p, s, s)
  BY <1>2, <1>3, <1>4, <1>5, <1>6, <1>7 DEF Goes, SameKind
<1> QED BY <1>1, <1>8

LEMMA GoesToElse ==
  ASSUME NEW t, NEW b, NEW s, Top(t, b, s), t[1] = "else"
  PROVE  Goes(t, <<"brace", "statements">>, s, s)
<1>1. PICK p : p = <<"brace", "statements">>
  OBVIOUS
<1>2. /\ p \in Seq(Steps) /\ Len(p) = 2 /\ p # <<>>
      /\ p[1] = "brace" /\ p[2] = "statements"
  BY <1>1 DEF Steps
<1>3. 1 .. 1 = {1} /\ 1 .. 2 = {1, 2} /\ 1 .. 0 = {}
  OBVIOUS
<1>4. /\ t[2] = "end" /\ CondDone(s) /\ Len(s.args) <= 2 /\ s.tag = "branch" /\ Len(s.blocks) = 1
      /\ Len(s.args) = ArgsBefore("else", s)
  BY DEF Top, HeadFits, StepFits, Precedes
<1>5. Lined(p, t[2])
  BY <1>2, <1>3, <1>4 DEF Lined, CondOrder, Precedes
<1>6. \A k \in 1 .. 2 : StepFits(p[k], s) /\ p[k] \notin {"check", "declare"}
  BY <1>2, <1>3, <1>4 DEF StepFits, PlainSteps, BlockTags, CondSteps
<1>7. HeadFits(p[1], p[2], s)
  BY <1>2, <1>4 DEF HeadFits, StepFits, ArgsBefore, PlainSteps, BlockTags, CondSteps
<1>8. \A k \in 1 .. 2 : p[k] = "statements" =>
        Len(s.blocks) = BlocksBefore(IF k = Len(p) THEN t[2] ELSE p[k + 1], s)
  BY <1>2, <1>3, <1>4 DEF BlocksBefore
<1>9. Goes(t, p, s, s)
  BY <1>2, <1>3, <1>4, <1>5, <1>6, <1>7, <1>8 DEF Goes, SameKind
<1> QED BY <1>1, <1>9

LEMMA OneIsFew == \A n : n = 1 => n <= 2
OBVIOUS

(* An assignment that goes on as a longhand.                               *)
LEMMA GoesToSecond ==
  ASSUME NEW t, NEW b, NEW s, Top(t, b, s),
         t[1] = "after-source", s.cond = <<>>, s.tag # "shorthand",
         NEW x \in Longhands, NEW z, z = [s EXCEPT !.tag = "longhand", !.op = x]
  PROVE  z \in Growing /\ Goes(t, <<"source", "if", "semicolon">>, s, z)
<1>1. PICK p : p = <<"source", "if", "semicolon">>
  OBVIOUS
<1>2. /\ p \in Seq(Steps) /\ Len(p) = 3 /\ p # <<>>
      /\ p[1] = "source" /\ p[2] = "if" /\ p[3] = "semicolon"
  BY <1>1 DEF Steps, PlainSteps
<1>3. 1 .. 2 = {1, 2} /\ 1 .. 3 = {1, 2, 3} /\ 1 .. 1 = {1}
  OBVIOUS
<1>4. /\ t[2] = "check" /\ s \in Growing /\ s.tag = "assignment" /\ s.blocks = <<>>
      /\ Len(s.args) = 1
  BY DEF Top, HeadFits, StepFits, Precedes, PlainSteps, ArgsBefore, Assigning, CondSteps
<1>5. /\ z \in Growing /\ z.tag = "longhand" /\ z.blocks = <<>> /\ z.name = s.name
      /\ z.cond = <<>> /\ Len(z.args) = 1
  BY <1>4 DEF Growing, Tags, Ops
<1>6. Lined(p, t[2])
  BY <1>2, <1>3, <1>4 DEF Lined, CondOrder, Precedes
<1>7. \A k \in 1 .. 3 : StepFits(p[k], z) /\ p[k] # "statements" /\ p[k] \notin {"check", "declare"}
  BY <1>2, <1>3, <1>5 DEF StepFits, PlainSteps, PlainTags, CondSteps
<1>8. HeadFits(p[1], p[2], z)
  BY <1>2, <1>5 DEF HeadFits, StepFits, ArgsBefore, PlainSteps, PlainTags, CondSteps
<1>9. SameKind(s, z)
  BY <1>4, <1>5 DEF SameKind, PlainTags
<1>10. Goes(t, p, s, z)
  <2>a. z.tag = "call" <=> s.tag = "call"
    BY <1>4, <1>5
  <2>b. Len(z.args) <= 2
    BY <1>5, OneIsFew, Zenon
  <2>1. (z.tag = "call" <=> s.tag = "call") /\ z.name = s.name /\ Len(z.args) <= 2
    BY <1>5, <2>a, <2>b
  <2>2. \A k \in 1 .. Len(p) :
          StepFits(p[k], z) /\ p[k] # "statements" /\ p[k] \notin {"check", "declare"}
    BY <1>2, <1>7
  <2>3. Len(p) # 1
    BY <1>2
  <2> QED BY <1>2, <1>6, <1>8, <1>9, <2>1, <2>2, <2>3 DEF Goes
<1> QED BY <1>1, <1>5, <1>10

----------------------------------------------------------------------------
(* Statements that begin.                                                  *)
Fresh(z, tag) ==
  /\ z \in Growing /\ z.tag = tag /\ Named(z)
  /\ Len(z.args) = 0 /\ z.cond = <<>> /\ z.blocks = <<>>

Opening(p, z) ==
  /\ Lined(p, "statements") /\ p # <<>> /\ p[Len(p)] = "check"
  /\ \A k \in 1 .. Len(p) :
       /\ StepFits(p[k], z)
       /\ p[k] = "statements" => Len(z.blocks) = BlocksBefore(p[k + 1], z)
  /\ p[1] \notin {"statements", "declaration"}
  /\ p[1] # "check" => HeadFits(p[1], p[2], z)

LEMMA ListHead ==
  ASSUME NEW t, NEW b, Shape(t, b), t[1] = "statements"
  PROVE  Len(b) \in Nat /\ Len(b) > 1 /\ b # <<>>
<1>1. PICK v : Fits(t, v, b)
  BY DEF Shape
<1>2. v \in Seq(Nat) /\ Len(v) = Len(t) /\ Len(t) \in Nat \ {0} /\ v[1] > 0 /\ Len(b) = v[1] + 1
  <2>1. t[1] # "declaration"
    OBVIOUS
  <2> QED BY <1>1, <2>1, FitsBasics
<1>3. v[1] \in Nat
  <2>1. 1 \in 1 .. Len(v)
    BY <1>2
  <2> QED BY <1>2, <2>1, ElementOfSeq
<1>4. Len(b) \in Nat /\ Len(b) > 1 /\ Len(b) # 0
  BY <1>2, <1>3
<1> QED BY <1>4, EmptySeq DEF Shape

LEMMA BeginsWith ==
  ASSUME NEW t, NEW b, Shape(t, b), t[1] = "statements", NEW tag, tag # "proc",
         NEW z, Fresh(z, tag), NEW p, Opening(p, z), NEW c, c = Put(b, z)
  PROVE  After(p \o t, b, c)
<1>1. Len(b) \in Nat /\ Len(b) > 1 /\ b # <<>> /\ b \in Seq(Block) /\ StatementsFit(b)
  BY ListHead DEF Shape
<1>2. Len(b) > 0 /\ Len(b) # 1 /\ Len(b) # 0
  <2>1. PICK l : l = Len(b)
    OBVIOUS
  <2>2. l \in Nat /\ l > 1
    BY <1>1, <2>1
  <2>3. l > 0 /\ l # 1 /\ l # 0
    BY <2>2
  <2> QED BY <2>1, <2>3
<1>3. Len(<<>>) = 0 /\ 1 .. 0 = {}
  OBVIOUS
<1>4. z \in Growing /\ Named(z) /\ z.tag # "proc" /\ BlocksFit(z) /\ Len(z.args) = 0
  BY <1>3 DEF Fresh, BlocksFit
<1>a. Len(z.args) <= 2
  BY <1>4
<1>5. c \in Seq(Block) /\ SameOthers(b, c) /\ StatementsFit(c) /\ c[Len(b)].stmt = z /\ c[1] = b[1]
  BY <1>1, <1>2, <1>4, <1>a, StatementSet
<1>6. Starts(p, b, c)
  BY <1>5 DEF Starts, Opening
<1>7. \E w : Fits(p \o t, w, c)
  <2>1. PICK v : Fits(t, v, b)
    BY DEF Shape
  <2> QED BY <1>6, <2>1, StatementBegins
<1>8. c # <<>>
  BY <1>2, <1>5, EmptySeq DEF SameOthers
<1>9. Head(p \o t) # "name"
  <2>1. p \in Seq(Steps) /\ p # <<>>
    BY DEF Opening, Lined
  <2>2. Len(p) \in Nat /\ Len(p) # 0
    BY <2>1, EmptySeq, LenProperties
  <2>3. 1 \in 1 .. Len(p)
    BY <2>2
  <2>4. p[1] # "name"
    BY <1>4, <2>3 DEF Opening, StepFits
  <2> QED BY <2>1, <2>4, HeadOf
<1> QED BY <1>1, <1>5, <1>7, <1>8, <1>9 DEF Shape, SameProcedure, After

(* No statement: only the check is made.                                   *)
LEMMA BeginsWithout ==
  ASSUME NEW t, NEW b, Shape(t, b), t[1] = "statements"
  PROVE  After(<<"check">> \o t, b, b)
<1>1. PICK p : p = <<"check">>
  OBVIOUS
<1>2. p \in Seq(Steps) /\ Len(p) = 1 /\ p[1] = "check" /\ p # <<>>
  BY <1>1 DEF Steps
<1>3. 1 .. 0 = {} /\ 1 .. 1 = {1} /\ 1 - 2 = -1 /\ 1 .. -1 = {} /\ 1 - 1 = 0 /\ ~(1 >= 2)
  OBVIOUS
<1>4. Lined(p, "statements")
  BY <1>2, <1>3 DEF Lined, CondOrder, Precedes
<1>5. \A z : StepFits("check", z)
  BY DEF StepFits, PlainSteps, CondSteps
<1>6. Starts(p, b, b)
  BY <1>2, <1>3, <1>4, <1>5 DEF Starts, SameOthers
<1>7. \E w : Fits(p \o t, w, b)
  <2>1. PICK v : Fits(t, v, b)
    BY DEF Shape
  <2> QED BY <1>6, <2>1, StatementBegins
<1>8. Head(p \o t) # "name"
  <2>1. Head(p \o t) = p[1]
    BY <1>2, HeadOf
  <2> QED BY <1>2, <2>1
<1> QED BY <1>1, <1>7, <1>8, ListHead DEF Shape, SameProcedure, After

LEMMA PlainOpening ==
  ASSUME NEW tag \in PlainTags, NEW z, Fresh(z, tag), NEW q \in {"text", "register"},
         q = "text" <=> tag = "stdout", tag \notin Assigning \cup {"longhand", "text"}
  PROVE  /\ tag # "stdout" => Opening(<<"if", "semicolon", "check">>, z)
         /\ Opening(<<q, "if", "semicolon", "check">>, z)
<1>1. /\ z.tag = tag /\ z.blocks = <<>> /\ z.cond = <<>> /\ Len(z.args) = 0
  BY DEF Fresh
<1>2. 1 .. 1 = {1} /\ 1 .. 2 = {1, 2} /\ 1 .. 3 = {1, 2, 3} /\ 1 .. 4 = {1, 2, 3, 4}
  OBVIOUS
<1>3. ASSUME tag # "stdout" PROVE Opening(<<"if", "semicolon", "check">>, z)
  <2>1. PICK p : p = <<"if", "semicolon", "check">>
    OBVIOUS
  <2>2. p \in Seq(Steps) /\ Len(p) = 3 /\ p # <<>> /\ p[1] = "if" /\ p[2] = "semicolon" /\ p[3] = "check"
    BY <2>1 DEF Steps, PlainSteps
  <2>3. Lined(p, "statements")
    BY <1>2, <2>2 DEF Lined, CondOrder, Precedes
  <2>4. \A k \in 1 .. 3 : StepFits(p[k], z) /\ p[k] # "statements"
    BY <1>1, <1>2, <2>2 DEF StepFits, PlainSteps, CondSteps
  <2>5. HeadFits(p[1], p[2], z)
    BY <1>1, <1>3, <2>2, <2>4
    DEF HeadFits, StepFits, ArgsBefore, PlainSteps, PlainTags, Assigning, CondSteps
  <2>6. Opening(p, z)
    BY <2>2, <2>3, <2>4, <2>5 DEF Opening
  <2> QED BY <2>1, <2>6
<1>4. Opening(<<q, "if", "semicolon", "check">>, z)
  <2>1. PICK p : p = <<q, "if", "semicolon", "check">>
    OBVIOUS
  <2>2. /\ p \in Seq(Steps) /\ Len(p) = 4 /\ p # <<>>
        /\ p[1] = q /\ p[2] = "if" /\ p[3] = "semicolon" /\ p[4] = "check"
    BY <2>1 DEF Steps, PlainSteps
  <2>3. Lined(p, "statements")
    BY <1>2, <2>2 DEF Lined, CondOrder, Precedes
  <2>4. \A k \in 1 .. 4 : StepFits(p[k], z) /\ p[k] # "statements"
    BY <1>1, <1>2, <2>2 DEF StepFits, PlainSteps, CondSteps
  <2>5. HeadFits(p[1], p[2], z)
    BY <1>1, <2>2, <2>4
    DEF HeadFits, StepFits, ArgsBefore, PlainSteps, PlainTags, Assigning, CondSteps
  <2>6. Opening(p, z)
    BY <2>2, <2>3, <2>4, <2>5 DEF Opening
  <2> QED BY <2>1, <2>6
<1> QED BY <1>3, <1>4

LEMMA AssignmentOpening ==
  ASSUME NEW z, Fresh(z, "assignment")
  PROVE  Opening(<<"assign", "source", "if", "after-source", "check">>, z)
<1>1. /\ z.tag = "assignment" /\ z.blocks = <<>> /\ z.cond = <<>> /\ Len(z.args) = 0
  BY DEF Fresh
<1>2. 1 .. 3 = {1, 2, 3} /\ 1 .. 4 = {1, 2, 3, 4} /\ 1 .. 5 = {1, 2, 3, 4, 5}
  OBVIOUS
<1>3. PICK p : p = <<"assign", "source", "if", "after-source", "check">>
  OBVIOUS
<1>4. /\ p \in Seq(Steps) /\ Len(p) = 5 /\ p # <<>>
      /\ p[1] = "assign" /\ p[2] = "source" /\ p[3] = "if" /\ p[4] = "after-source" /\ p[5] = "check"
  BY <1>3 DEF Steps, PlainSteps
<1>5. Lined(p, "statements")
  BY <1>2, <1>4 DEF Lined, CondOrder, Precedes
<1>6. \A k \in 1 .. 5 : StepFits(p[k], z) /\ p[k] # "statements"
  BY <1>1, <1>2, <1>4 DEF StepFits, PlainSteps, PlainTags, Assigning, CondSteps
<1>7. HeadFits(p[1], p[2], z)
  BY <1>1, <1>4, <1>6 DEF HeadFits, StepFits, ArgsBefore, PlainSteps, PlainTags, CondSteps
<1>8. Opening(p, z)
  BY <1>4, <1>5, <1>6, <1>7 DEF Opening
<1> QED BY <1>3, <1>8

LEMMA LoopOpening ==
  ASSUME NEW z, Fresh(z, "loop")
  PROVE  Opening(<<"loop-condition", "brace", "statements", "end", "check">>, z)
<1>1. /\ z.tag = "loop" /\ Len(z.blocks) = 0 /\ z.cond = <<>> /\ Len(z.args) = 0
  BY DEF Fresh
<1>2. 1 .. 3 = {1, 2, 3} /\ 1 .. 4 = {1, 2, 3, 4} /\ 1 .. 5 = {1, 2, 3, 4, 5}
  OBVIOUS
<1>3. PICK p : p = <<"loop-condition", "brace", "statements", "end", "check">>
  OBVIOUS
<1>4. /\ p \in Seq(Steps) /\ Len(p) = 5 /\ p # <<>>
      /\ p[1] = "loop-condition" /\ p[2] = "brace" /\ p[3] = "statements"
      /\ p[4] = "end" /\ p[5] = "check"
  BY <1>3 DEF Steps
<1>5. Lined(p, "statements")
  BY <1>2, <1>4 DEF Lined, CondOrder, Precedes
<1>6. \A k \in 1 .. 5 : StepFits(p[k], z)
  BY <1>1, <1>2, <1>4 DEF StepFits, PlainSteps, BlockTags, CondSteps
<1>7. \A k \in 1 .. 5 : p[k] = "statements" => Len(z.blocks) = BlocksBefore(p[k + 1], z)
  BY <1>1, <1>2, <1>4 DEF BlocksBefore
<1>8. HeadFits(p[1], p[2], z)
  BY <1>1, <1>4, <1>6 DEF HeadFits, StepFits, ArgsBefore, PlainSteps, BlockTags, CondSteps
<1>9. Opening(p, z)
  BY <1>4, <1>5, <1>6, <1>7, <1>8 DEF Opening
<1> QED BY <1>3, <1>9

LEMMA BranchOpening ==
  ASSUME NEW z, Fresh(z, "branch")
  PROVE  Opening(<<"(", "operand", "comparison", "operand", ")", "brace", "statements", "else",
                   "end", "check">>, z)
<1>1. /\ z.tag = "branch" /\ Len(z.blocks) = 0 /\ z.cond = <<>> /\ Len(z.args) = 0
  BY DEF Fresh
<1>2. /\ 1 .. 8 = {1, 2, 3, 4, 5, 6, 7, 8} /\ 1 .. 9 = {1, 2, 3, 4, 5, 6, 7, 8, 9}
      /\ 1 .. 10 = {1, 2, 3, 4, 5, 6, 7, 8, 9, 10}
  OBVIOUS
<1>3. PICK p : p = <<"(", "operand", "comparison", "operand", ")", "brace", "statements", "else",
                     "end", "check">>
  OBVIOUS
<1>4. /\ p \in Seq(Steps) /\ Len(p) = 10 /\ p # <<>>
      /\ p[1] = "(" /\ p[2] = "operand" /\ p[3] = "comparison" /\ p[4] = "operand" /\ p[5] = ")"
      /\ p[6] = "brace" /\ p[7] = "statements" /\ p[8] = "else" /\ p[9] = "end" /\ p[10] = "check"
  BY <1>3 DEF Steps, CondSteps
<1>5. Lined(p, "statements")
  BY <1>2, <1>4 DEF Lined, CondOrder, Precedes
<1>6. \A k \in 1 .. 10 : StepFits(p[k], z)
  BY <1>1, <1>2, <1>4 DEF StepFits, PlainSteps, BlockTags, CondSteps
<1>7. \A k \in 1 .. 10 : p[k] = "statements" => Len(z.blocks) = BlocksBefore(p[k + 1], z)
  BY <1>1, <1>2, <1>4 DEF BlocksBefore
<1>8. HeadFits(p[1], p[2], z)
  BY <1>1, <1>4, <1>6 DEF HeadFits, StepFits, ArgsBefore, PlainSteps, BlockTags, CondSteps
<1>9. Opening(p, z)
  BY <1>4, <1>5, <1>6, <1>7, <1>8 DEF Opening
<1> QED BY <1>3, <1>9

(* The statements the functions begin with.                                *)
LEMMA FreshIs ==
  ASSUME NEW tag \in (PlainTags \cup BlockTags) \ {"call"}
  PROVE  Fresh(Statement(tag), tag)
BY DEF Fresh, Statement, Named, Growing, Tags, Ops, PlainTags, BlockTags, None

LEMMA FreshRegister ==
  ASSUME NEW r \in Registers
  PROVE  Fresh([Statement("assignment") EXCEPT !.reg = r], "assignment")
<1>1. PICK z : z = [Statement("assignment") EXCEPT !.reg = r]
  OBVIOUS
<1>2. z = [tag |-> "assignment", reg |-> r, op |-> None, name |-> None,
           args |-> <<>>, cond |-> <<>>, blocks |-> <<>>]
  BY <1>1 DEF Statement
<1>3. Fresh(z, "assignment")
  BY <1>2 DEF Fresh, Named, Growing, Tags, Ops, None
<1> QED BY <1>1, <1>3

LEMMA FreshCall ==
  ASSUME NEW n \in Names
  PROVE  Fresh([Statement("call") EXCEPT !.name = n], "call")
<1>1. PICK z : z = [Statement("call") EXCEPT !.name = n]
  OBVIOUS
<1>2. z = [tag |-> "call", reg |-> None, op |-> None, name |-> n,
           args |-> <<>>, cond |-> <<>>, blocks |-> <<>>]
  BY <1>1 DEF Statement
<1>3. n # None
  BY ParserAssumption DEF None
<1>4. Fresh(z, "call")
  BY <1>2, <1>3 DEF Fresh, Named, Growing, Tags, Ops, None
<1> QED BY <1>1, <1>4

----------------------------------------------------------------------------
(* Statements, lists and procedures that end.                              *)
LEMMA NothingBefore ==
  ASSUME NEW S, NEW t \in Seq(S), Len(t) >= 2
  PROVE  <<>> \o Tail(t) = Tail(t)
<1>1. PICK r \in Seq(S) : r = Tail(t)
  BY TailIs
<1>2. <<>> \o r = r
  BY ConcatEmptySeq
<1> QED BY <1>1, <1>2

LEMMA LongTail ==
  ASSUME NEW t, NEW b, Shape(t, b), t[1] # "declaration"
  PROVE  /\ t \in Seq(Steps) /\ Len(t) \in Nat /\ Len(t) >= 2
         /\ <<>> \o Tail(t) = Tail(t) /\ Head(<<>> \o Tail(t)) # "name"
<1>1. PICK v : Fits(t, v, b)
  BY DEF Shape
<1>2. t \in Seq(Steps) /\ Len(t) \in Nat /\ Len(t) >= 2
  BY <1>1, FitsBasics
<1>3. PICK p : p = <<>>
  OBVIOUS
<1>4. p \in Seq(Steps)
  BY <1>3
<1>5. Head(p \o Tail(t)) # "name"
  BY <1>3, <1>4, HeadLater
<1> QED BY <1>2, <1>3, <1>5, NothingBefore

LEMMA DoneWith ==
  ASSUME NEW t, NEW b, Shape(t, b), t[1] \in {"semicolon", "after-source", "end"},
         NEW s, s = b[Len(b)].stmt, NEW c, c = Emplaced(b, s)
  PROVE  After(<<>> \o Tail(t), b, c)
<1>1. Top(t, b, s) /\ b \in Seq(Block) /\ StatementsFit(b)
  <2>1. t[1] \notin {"statements", "check", "declaration"}
    OBVIOUS
  <2> QED BY <2>1, TopIs DEF Shape
<1>2. /\ s.tag # "proc" /\ CondDone(s) /\ Len(s.args) <= 2 /\ BlocksThere(s)
  <2>1. CASE t[1] \in {"semicolon", "after-source"}
    <3>1. s.tag \in PlainTags /\ s.blocks = <<>> /\ CondFits(s)
      BY <1>1, <2>1 DEF Top, HeadFits, StepFits, PlainSteps, CondSteps
    <3> QED BY <1>1, <3>1 DEF Top, CondDone, BlocksThere, PlainTags, BlockTags
  <2>2. CASE t[1] = "end"
    <3>1. /\ s.tag \in BlockTags /\ CondDone(s)
          /\ Len(s.blocks) \in (IF s.tag = "branch" THEN 1 .. 2 ELSE {1})
      BY <1>1, <2>2 DEF Top, HeadFits, StepFits
    <3> QED BY <1>1, <3>1 DEF Top, BlocksThere, BlockTags
  <2> QED BY <2>1, <2>2
<1>3. Len(b) \in Nat /\ Len(b) > 1 /\ Named(s)
  BY <1>1, <1>2 DEF Top
<1>4. FlatFits(s)
  BY <1>2, <1>3 DEF FlatFits
<1>5. c \in Seq(Block) /\ SameOthers(b, c) /\ StatementsFit(c) /\ c[1] = b[1]
  BY <1>1, <1>2, <1>3, <1>4, StatementEmplaced
<1>6. \E w : Fits(Tail(t), w, c)
  <2>1. PICK v : Fits(t, v, b)
    BY DEF Shape
  <2> QED BY <1>5, <2>1, StatementEnds
<1>7. b # <<>> /\ c # <<>>
  <2>1. PICK l : l = Len(b)
    OBVIOUS
  <2>2. l # 0
    BY <1>3, <2>1
  <2>3. Len(b) # 0 /\ Len(c) # 0
    BY <1>5, <2>1, <2>2 DEF SameOthers
  <2> QED BY <1>1, <1>5, <2>3, EmptySeq
<1>8. <<>> \o Tail(t) = Tail(t) /\ Head(<<>> \o Tail(t)) # "name"
  <2>1. t[1] # "declaration"
    OBVIOUS
  <2> QED BY <2>1, LongTail
<1> QED BY <1>5, <1>6, <1>7, <1>8 DEF Shape, SameProcedure, After

LEMMA GoesToNext ==
  ASSUME NEW t, NEW b, Shape(t, b), t[1] = "check"
  PROVE  After(<<>> \o Tail(t), b, b)
<1>1. PICK v : Fits(t, v, b)
  BY DEF Shape
<1>2. \E w : Fits(Tail(t), w, b)
  BY <1>1, ListGoesOn
<1>3. <<>> \o Tail(t) = Tail(t) /\ Head(<<>> \o Tail(t)) # "name"
  <2>1. t[1] # "declaration"
    OBVIOUS
  <2> QED BY <2>1, LongTail
<1>4. b # <<>>
  <2>1. t[1] # "declaration" /\ t[1] # "statements"
    OBVIOUS
  <2>2. v[1] > 0 /\ Len(b) = v[1] + 0 /\ Len(t) \in Nat \ {0}
    BY <1>1, <2>1, FitsBasics
  <2>3. v[1] \in Nat
    <3>1. 1 \in 1 .. Len(t)
      BY <2>2
    <3> QED BY <1>1, <3>1, FitsBasics
  <2>4. Len(b) # 0 /\ b \in Seq(Block)
    BY <2>2, <2>3 DEF Shape
  <2> QED BY <2>4, EmptySeq
<1> QED BY <1>2, <1>3, <1>4 DEF Shape, SameProcedure, After

Begun(b) == Append(b, [stmt |-> Statement(None), list |-> <<>>])

LEMMA BlockBegun ==
  ASSUME NEW t, NEW b, Shape(t, b), t[1] = "brace", NEW c, c = Begun(b)
  PROVE  After(<<>> \o Tail(t), b, c)
<1>1. PICK s : s = b[Len(b)].stmt
  OBVIOUS
<1>2. Top(t, b, s) /\ b \in Seq(Block) /\ StatementsFit(b)
  BY <1>1, TopIs DEF Shape
<1>3. /\ s.tag \in BlockTags \cup {"proc"} /\ CondDone(s) /\ Len(s.args) = 0
      /\ Len(b) \in Nat \ {0}
  BY <1>2 DEF Top, HeadFits, StepFits, ArgsBefore, BlockTags
<1>4. c \in Seq(Block) /\ OneMore(b, c) /\ StatementsFit(c) /\ c[1] = b[1]
  <2>1. c = Append(b, [stmt |-> Statement(None), list |-> <<>>]) /\ Len(b) > 0
    BY <1>3 DEF Begun
  <2> QED BY <1>1, <1>2, <1>3, <2>1, ListBegun
<1>5. \E w : Fits(Tail(t), w, c)
  <2>1. PICK v : Fits(t, v, b)
    BY DEF Shape
  <2> QED BY <1>4, <2>1, ListOpens
<1>6. b # <<>> /\ c # <<>>
  <2>1. Len(b) # 0 /\ Len(c) # 0
    BY <1>3, <1>4 DEF OneMore
  <2> QED BY <1>2, <1>4, <2>1, EmptySeq
<1>7. <<>> \o Tail(t) = Tail(t) /\ Head(<<>> \o Tail(t)) # "name"
  <2>1. t[1] # "declaration"
    OBVIOUS
  <2> QED BY <2>1, LongTail
<1> QED BY <1>4, <1>5, <1>6, <1>7 DEF Shape, SameProcedure, After

LEMMA BlockClosed ==
  ASSUME NEW t, NEW b, Shape(t, b), t[1] = "statements", NEW o, o = Front(b),
         NEW c, c = Closed(o, b[Len(b)].list)
  PROVE  After(<<>> \o Tail(t), b, c)
<1>1. Len(b) \in Nat /\ Len(b) > 1 /\ b # <<>> /\ b \in Seq(Block) /\ StatementsFit(b)
  BY ListHead DEF Shape
<1>2. c \in Seq(Block) /\ BlockAdded(b, c) /\ StatementsFit(c) /\ c[1].stmt.name = b[1].stmt.name
  BY <1>1, ListClosed
<1>3. \E w : Fits(Tail(t), w, c)
  <2>1. PICK v : Fits(t, v, b)
    BY DEF Shape
  <2> QED BY <1>2, <2>1, ListCloses
<1>4. c # <<>>
  <2>1. Len(c) = Len(b) - 1
    BY <1>2 DEF BlockAdded
  <2>2. PICK l : l = Len(b)
    OBVIOUS
  <2>3. l - 1 # 0
    BY <1>1, <2>2
  <2>4. Len(c) # 0
    BY <2>1, <2>2, <2>3
  <2> QED BY <1>2, <2>4, EmptySeq
<1>5. <<>> \o Tail(t) = Tail(t) /\ Head(<<>> \o Tail(t)) # "name"
  <2>1. t[1] # "declaration"
    OBVIOUS
  <2> QED BY <2>1, LongTail
<1> QED BY <1>1, <1>2, <1>3, <1>4, <1>5 DEF Shape, SameProcedure, After

LEMMA NoBlocks ==
  ASSUME NEW b, b = <<>>
  PROVE  Shape(<<"declaration">>, b)
<1>1. PICK t, w : t = <<"declaration">> /\ w = <<0>>
  OBVIOUS
<1>2. t \in Seq(Steps) /\ Len(t) = 1 /\ t[1] = "declaration" /\ t # <<>>
  BY <1>1 DEF Steps
<1>3. w \in Seq(Nat) /\ Len(w) = 1 /\ w[1] = 0
  BY <1>1
<1>4. 1 .. 0 = {} /\ 1 .. 1 = {1} /\ 1 - 2 = -1 /\ 1 .. -1 = {} /\ 1 - 1 = 0 /\ 2 .. 1 = {}
  OBVIOUS
<1>5. Leads(t, w)
  BY <1>2, <1>3, <1>4 DEF Leads, CondOrder
<1>6. b \in Seq(Block) /\ Len(b) = 0 /\ 0 - 1 = -1
  OBVIOUS
<1>7. StatementsFit(b)
  BY <1>4, <1>6 DEF StatementsFit
<1>8. Fits(t, w, b)
  BY <1>2, <1>3, <1>4, <1>5, <1>6 DEF Fits
<1> QED BY <1>1, <1>6, <1>7, <1>8 DEF Shape

LEMMA BodyBegun ==
  ASSUME NEW t, NEW b, Shape(t, b), t[1] = "declaration",
         NEW c, c = <<[stmt |-> Statement("proc"), list |-> <<>>]>>
  PROVE  Shape(<<"name", "brace", "statements", "declare">> \o t, c) /\ b = <<>> /\ c # <<>>
<1>1. PICK v : Fits(t, v, b)
  BY DEF Shape
<1>2. t = <<"declaration">> /\ Len(b) = 0 /\ b \in Seq(Block)
  BY <1>1, NoMoreSteps DEF Shape
<1>3. b = <<>>
  BY <1>2, EmptySeq
<1>4. <<"name", "brace", "statements", "declare">> \o <<"declaration">>
        = <<"name", "brace", "statements", "declare", "declaration">>
  BY FourAndOne
<1>5. PICK s : s = Statement("proc")
  OBVIOUS
<1>6. /\ s \in Growing /\ s.tag = "proc" /\ Len(s.args) = 0 /\ Len(s.cond) = 0 /\ Len(s.blocks) = 0
      /\ s.blocks = <<>>
  BY <1>5 DEF Statement, Growing, Tags, Ops, None
<1>7. PICK e : e = [stmt |-> s, list |-> <<>>]
  OBVIOUS
<1>8. e \in Block /\ e.stmt = s /\ e.list = <<>>
  BY <1>6, <1>7 DEF Block
<1>9. c = <<e>>
  BY <1>5, <1>7
<1>10. c \in Seq(Block) /\ Len(c) = 1 /\ c[1] = e /\ c # <<>>
  BY <1>8, <1>9, SingleIs
<1>11. StatementsFit(c)
  <2>1. 1 .. 1 = {1} /\ 1 - 1 = 0 /\ 1 .. 0 = {}
    OBVIOUS
  <2>2. Nested(<<>>, FALSE) /\ Len(<<>>) = 0
    BY NestedEmpty
  <2>3. ListFits(e.list)
    BY <1>8, <2>1, <2>2 DEF ListFits
  <2>4. BlocksFit(e.stmt)
    BY <1>6, <1>8, <2>1 DEF BlocksFit
  <2> QED BY <1>6, <1>8, <1>10, <2>1, <2>3, <2>4 DEF StatementsFit
<1>12. \E w : Fits(<<"name", "brace", "statements", "declare", "declaration">>, w, c)
  BY <1>6, <1>8, <1>10, ProcedureBegins
<1> QED BY <1>2, <1>3, <1>4, <1>10, <1>11, <1>12 DEF Shape

LEMMA BodyDone ==
  ASSUME NEW t, NEW b, Shape(t, b), t[1] = "declare", NEW s, s = b[Len(b)].stmt
  PROVE  /\ Shape(<<>> \o Tail(t), <<>>) /\ <<>> \o Tail(t) = <<"declaration">>
         /\ Len(b) = 1 /\ b # <<>> /\ s = b[1].stmt
         /\ s.blocks[1] \in Seq(Flat) /\ ListFits(s.blocks[1])
<1>1. PICK v : Fits(t, v, b)
  BY DEF Shape
<1>2. Tail(t) = <<"declaration">> /\ Len(b) = 1
  BY <1>1, ProcedureEnds
<1>3. Shape(<<"declaration">>, <<>>)
  BY NoBlocks
<1>4. <<>> \o Tail(t) = Tail(t) /\ Head(<<>> \o Tail(t)) # "name"
  <2>1. t[1] # "declaration"
    OBVIOUS
  <2> QED BY <2>1, LongTail
<1>5. Top(t, b, s)
  BY TopIs
<1>6. s \in Growing /\ Len(s.blocks) = 1 /\ BlocksFit(s)
  BY <1>5 DEF Top, HeadFits
<1>7. 1 \in 1 .. Len(s.blocks) /\ s.blocks \in Seq(Seq(Flat))
  BY <1>6 DEF Growing
<1>8. s.blocks[1] \in Seq(Flat) /\ ListFits(s.blocks[1])
  BY <1>6, <1>7, ElementOfSeq DEF BlocksFit
<1>9. b # <<>>
  BY <1>2
<1> QED BY <1>2, <1>3, <1>4, <1>8, <1>9

LEMMA TagIs ==
  ASSUME NEW t, NEW b, NEW s, Top(t, b, s),
         t[1] \in PlainSteps \cup CondSteps \cup {"(", ")", "loop-condition", "else", "end"}
  PROVE  s.tag # "proc"
BY DEF Top, HeadFits, StepFits, PlainTags, BlockTags

----------------------------------------------------------------------------
(* The names of the procedures.                                            *)
Longer(s, r) ==
  /\ Len(s) \in Nat \ {0} /\ Len(r) = Len(s) + 1 /\ Len(r) > 1
  /\ r[Len(s)] = Last(s) /\ r[Len(r) - 1] = Last(s)
  /\ NameAt(r) = NameAt(s) \cup (IF Len(s) > 1 /\ s[Len(s) - 1] = "proc" THEN {Len(s)} ELSE {})
  /\ \A k \in NameAt(s) : k \in Nat /\ k < Len(s) /\ r[k] = s[k]

LEMMA EatenIs ==
  ASSUME NEW W, NEW s \in Seq(W), s # <<>>, NEW x \in W, NEW r, r = Append(s, x)
  PROVE  r \in Seq(W) /\ r # <<>> /\ Longer(s, r)
<1>1. PICK n : n = Len(s)
  OBVIOUS
<1>2. n \in Nat \ {0}
  BY <1>1, EmptySeq
<1>3. /\ r \in Seq(W) /\ Len(r) = n + 1 /\ \A k \in 1 .. n : r[k] = s[k]
  BY <1>1, AppendIs
<1>4. Last(s) = s[n]
  BY <1>1 DEF Last
<1>5. r[n] = s[n] /\ (n + 1) - 1 = n /\ n + 1 > 1 /\ n + 1 # 0
  <2>1. n \in 1 .. n
    BY <1>2
  <2> QED BY <1>2, <1>3, <2>1
<1>6. r # <<>>
  BY <1>3, <1>5, EmptySeq
<1>7. \A k \in NameAt(s) : k \in Nat /\ k < n /\ k \in 1 .. n
  BY <1>1, <1>2 DEF NameAt
<1>8. NameAt(r) = NameAt(s) \cup (IF n > 1 /\ s[n - 1] = "proc" THEN {n} ELSE {})
  <2>1. NameAt(r) = {k \in 2 .. n : r[k - 1] = "proc"}
    BY <1>3, <1>5 DEF NameAt
  <2>2. NameAt(s) = {k \in 2 .. n - 1 : s[k - 1] = "proc"}
    BY <1>1 DEF NameAt
  <2>3. \A k \in 2 .. n : k - 1 \in 1 .. n /\ (k = n \/ k \in 2 .. n - 1)
    BY <1>2
  <2>4. \A k \in 2 .. n : r[k - 1] = s[k - 1]
    BY <1>3, <2>3
  <2>5. \A k : k \in 2 .. n - 1 => k \in 2 .. n
    BY <1>2
  <2>6. n > 1 <=> n \in 2 .. n
    BY <1>2
  <2> QED BY <2>1, <2>2, <2>3, <2>4, <2>5, <2>6
<1> QED BY <1>1, <1>2, <1>3, <1>4, <1>5, <1>6, <1>7, <1>8 DEF Longer

LEMMA NamedSame ==
  ASSUME NEW P, NEW s, NEW r, NEW D, NamedAt(P, s, D), \A k \in P : r[k] = s[k]
  PROVE  NamedAt(P, r, D)
BY DEF NamedAt

(* A step that eats no token, or one that is not proc.                     *)
LEMMA NamesPast ==
  ASSUME NEW s, NEW t, NEW b, NEW D, Tracked(s, t, b, D), Head(t) # "name",
         NEW u, NEW c, SameProcedure(b, c), Head(u) # "name"
  PROVE  Tracked(s, u, c, D)
BY DEF Tracked, SameProcedure

LEMMA NamesEaten ==
  ASSUME NEW s, NEW r, Longer(s, r),
         NEW t, NEW b, NEW D, Tracked(s, t, b, D), Head(t) # "name",
         NEW u, NEW c, SameProcedure(b, c), Head(u) # "name", Last(s) # "proc"
  PROVE  Tracked(r, u, c, D)
<1>1. /\ r[Len(r) - 1] = Last(s) /\ NameAt(r) = NameAt(s)
      /\ \A k \in NameAt(s) : r[k] = s[k]
  BY DEF Tracked, Longer
<1>2. PICK k \in NameAt(s) : s[k] = b[1].stmt.name /\ NamedAt(NameAt(s) \ {k}, s, D)
  BY DEF Tracked, SameProcedure
<1>3. r[k] = c[1].stmt.name /\ NamedAt(NameAt(s) \ {k}, r, D)
  BY <1>1, <1>2, NamedSame DEF SameProcedure
<1> QED BY <1>1, <1>2, <1>3 DEF Tracked, SameProcedure

(* The proc of a procedure, and its name.                                  *)
LEMMA ProcEaten ==
  ASSUME NEW s, NEW r, Longer(s, r),
         NEW t, NEW D, Tracked(s, t, <<>>, D), Head(t) # "name",
         NEW u, NEW c, Head(u) = "name", Last(s) = "proc"
  PROVE  Tracked(r, u, c, D)
<1>1. /\ r[Len(r) - 1] = Last(s) /\ Len(r) > 1 /\ NameAt(r) = NameAt(s)
      /\ \A k \in NameAt(s) : r[k] = s[k]
  BY DEF Tracked, Longer
<1>2. NamedAt(NameAt(s), s, D)
  BY DEF Tracked
<1>3. NamedAt(NameAt(s), r, D)
  BY <1>1, <1>2, NamedSame
<1> QED BY <1>1, <1>3 DEF Tracked

LEMMA NameEaten ==
  ASSUME NEW s, NEW r, Longer(s, r),
         NEW t, NEW b, NEW D, Tracked(s, t, b, D), Head(t) = "name",
         NEW u, NEW c, c # <<>>, c[1].stmt.name = Last(s), Head(u) # "name", Last(s) # "proc"
  PROVE  Tracked(r, u, c, D)
<1>1. /\ r[Len(r) - 1] = Last(s) /\ NameAt(r) = NameAt(s) \cup {Len(s)} /\ r[Len(s)] = Last(s)
      /\ \A k \in NameAt(s) : k \in Nat /\ k < Len(s) /\ r[k] = s[k]
      /\ Len(s) \in Nat
  BY DEF Tracked, Longer
<1>2. NamedAt(NameAt(s), s, D)
  BY DEF Tracked
<1>3. NamedAt(NameAt(s), r, D)
  BY <1>1, <1>2, NamedSame
<1>4. Len(s) \notin NameAt(s)
  BY <1>1
<1>5. NameAt(r) \ {Len(s)} = NameAt(s) /\ Len(s) \in NameAt(r)
  BY <1>1, <1>4
<1> QED BY <1>1, <1>3, <1>5 DEF Tracked

(* The procedure in progress is looked up and declared.                    *)
LEMMA NameDeclared ==
  ASSUME NEW s, NEW t, NEW b, NEW D, Tracked(s, t, b, D), Head(t) = "declare", b # <<>>,
         NEW n, n = b[1].stmt.name
  PROVE  /\ n \in D => Repeated(s)
         /\ n \notin D => Tracked(s, <<"declaration">>, <<>>, D \cup {n})
<1>1. PICK c \in NameAt(s) : s[c] = n /\ NamedAt(NameAt(s) \ {c}, s, D)
  BY DEF Tracked
<1>2. n \in D => Repeated(s)
  BY <1>1 DEF NamedAt, Repeated
<1>3. Head(<<"declaration">>) = "declaration"
  OBVIOUS
<1>4. ASSUME n \notin D PROVE NamedAt(NameAt(s), s, D \cup {n})
  <2>1. \A k \in NameAt(s) : k # c => s[k] \in D
    BY <1>1 DEF NamedAt
  <2>2. \A j, k \in NameAt(s) : s[j] = s[k] => j = k
    BY <1>1, <1>4, <2>1 DEF NamedAt
  <2>3. \A m \in D \cup {n} : \E k \in NameAt(s) : s[k] = m
    BY <1>1 DEF NamedAt
  <2> QED BY <1>1, <2>1, <2>2, <2>3 DEF NamedAt
<1> QED BY <1>2, <1>3, <1>4 DEF Tracked

----------------------------------------------------------------------------
(* The invariant is kept, by the kind of step.                             *)
LEMMA StepReady ==
  ASSUME IInv, NEW step, At(step)
  PROVE  /\ status = "parsing" /\ Head(todo) = step /\ todo[1] = step
         /\ Shape(todo, blocks) /\ Current = blocks[Len(blocks)].stmt
         /\ step \notin {"statements", "check", "declaration"} => Top(todo, blocks, Current)
<1>1. status = "parsing" /\ Head(todo) = step /\ Shape(todo, blocks)
  BY DEF IInv, At
<1>2. todo[1] = step
  <2>1. todo \in Seq(Steps) /\ todo # <<>>
    BY <1>1 DEF Shape, Fits, Leads
  <2> QED BY <1>1, <2>1
<1>3. Current = blocks[Len(blocks)].stmt
  BY DEF Current, Last
<1> QED BY <1>1, <1>2, <1>3, TopIs

LEMMA TokensGrow ==
  ASSUME IInv, Eat, vocabulary' = vocabulary
  PROVE  /\ tokens' \in Seq(vocabulary'.words \cup {"eof"}) /\ tokens' # <<>>
         /\ Longer(tokens, tokens')
<1>1. PICK t \in vocabulary.words \cup {"eof"} : tokens' = Append(tokens, t)
  BY DEF Eat
<1>2. PICK W : W = vocabulary.words \cup {"eof"}
  OBVIOUS
<1>3. tokens \in Seq(W) /\ tokens # <<>> /\ t \in W
  BY <1>1, <1>2 DEF IInv
<1>4. tokens' \in Seq(W) /\ tokens' # <<>> /\ Longer(tokens, tokens')
  BY <1>1, <1>3, EatenIs
<1> QED BY <1>2, <1>4

EatsOther == UNCHANGED tokens \/ (Eat /\ Token # "proc")

LEMMA Moved ==
  ASSUME IInv, status = "parsing", Head(todo) # "name", After(todo', blocks, blocks'),
         Continuing, parserSuccess' \in BOOLEAN, EatsOther
  PROVE  IInv'
<1>1. Tracked(tokens, todo, blocks, DOMAIN procedures)
  BY DEF IInv, NamesKept
<1>2. /\ Shape(todo', blocks') /\ SameProcedure(blocks, blocks') /\ Head(todo') # "name"
  BY DEF After
<1>3. vocabulary' = vocabulary /\ procedures' = procedures /\ status' = "parsing"
  BY DEF Continuing
<1>4. Outputs(procedures')
  BY <1>3 DEF IInv
<1>5. /\ tokens' \in Seq(vocabulary'.words \cup {"eof"}) /\ tokens' # <<>>
      /\ Tracked(tokens', todo', blocks', DOMAIN procedures')
  <2>1. CASE UNCHANGED tokens
    <3>1. tokens' = tokens
      BY <2>1
    <3>2. Tracked(tokens, todo', blocks', DOMAIN procedures)
      BY <1>1, <1>2, NamesPast
    <3> QED BY <1>3, <3>1, <3>2 DEF IInv
  <2>2. CASE Eat /\ Token # "proc"
    <3>1. /\ tokens' \in Seq(vocabulary'.words \cup {"eof"}) /\ tokens' # <<>>
          /\ Longer(tokens, tokens')
      BY <1>3, <2>2, TokensGrow
    <3>2. Last(tokens) # "proc"
      BY <2>2 DEF Token
    <3>3. Tracked(tokens', todo', blocks', DOMAIN procedures)
      BY <1>1, <1>2, <3>1, <3>2, NamesEaten
    <3> QED BY <1>3, <3>1, <3>3
  <2> QED BY <2>1, <2>2 DEF EatsOther
<1>6. NamesKept'
  BY <1>3, <1>5 DEF NamesKept
<1> QED BY <1>2, <1>3, <1>4, <1>5, <1>6 DEF IInv

LEMMA Stopped ==
  ASSUME IInv, status = "parsing", status' \in {"error", "parsed"},
         status' = "parsed" => Head(todo) = "declaration",
         UNCHANGED <<vocabulary, tokens, todo, blocks, procedures>>, parserSuccess' \in BOOLEAN
  PROVE  IInv'
<1>1. /\ vocabulary' = vocabulary /\ tokens' = tokens /\ todo' = todo /\ blocks' = blocks
      /\ procedures' = procedures
  OBVIOUS
<1>2. Tracked(tokens, todo, blocks, DOMAIN procedures)
  BY DEF IInv, NamesKept
<1>3. NamesKept'
  BY <1>1, <1>2 DEF NamesKept
<1> QED BY <1>1, <1>3 DEF IInv

LEMMA Failed ==
  ASSUME IInv, status = "parsing", Fail
  PROVE  IInv'
BY Stopped DEF Fail, IInv

(* A step of a statement is taken.                                         *)
Inner == PlainSteps \cup CondSteps \cup {"(", ")", "loop-condition", "else"}

LEMMA Taken ==
  ASSUME IInv, NEW step \in Inner, At(step), NEW p, Then(p), NEW z \in Growing,
         Goes(todo, p, Current, z),
         (blocks' = blocks /\ z = Current) \/ SetStmt(z),
         Continuing, parserSuccess' \in BOOLEAN, EatsOther
  PROVE  IInv'
<1>1. /\ status = "parsing" /\ Head(todo) = step /\ todo[1] = step
      /\ Shape(todo, blocks) /\ Current = blocks[Len(blocks)].stmt
      /\ Top(todo, blocks, Current)
  <2>1. step \notin {"statements", "check", "declaration"}
    BY DEF Inner, PlainSteps, CondSteps
  <2> QED BY <2>1, StepReady
<1>2. step \notin {"brace", "statements", "check", "declare", "declaration", "name"}
  BY DEF Inner, PlainSteps, CondSteps
<1>3. Current.tag # "proc"
  BY <1>1, TagIs DEF Inner
<1>4. PICK s, c : s = Current /\ c = blocks'
  OBVIOUS
<1>5. (c = blocks /\ z = s) \/ c = Put(blocks, z)
  BY <1>4 DEF SetStmt, Put
<1>6. After(p \o Tail(todo), blocks, c)
  BY <1>1, <1>2, <1>3, <1>4, <1>5, GoesOn
<1>7. After(todo', blocks, blocks')
  BY <1>4, <1>6 DEF Then
<1> QED BY <1>1, <1>2, <1>7, Moved

----------------------------------------------------------------------------
(* The invariant is kept, by each action.                                  *)
LEMMA NoProc ==
  /\ "{" # "proc" /\ "}" # "proc" /\ ";" # "proc"
  /\ \A x \in Registers \cup Numbers \cup Texts \cup Names : x # "proc"
<1>1. "{" # "proc" /\ "}" # "proc" /\ ";" # "proc"
  BY Zenon
<1>2. \A x \in Registers \cup Numbers \cup Texts \cup Names : x # "proc"
  BY ParserAssumption
<1> QED BY <1>1, <1>2, Zenon

LEMMA CurrentIs ==
  ASSUME IInv, NEW step \in Inner, At(step)
  PROVE  /\ Top(todo, blocks, Current) /\ Current \in Growing /\ status = "parsing"
         /\ todo[1] = step /\ parserSuccess \in BOOLEAN
<1>1. step \notin {"statements", "check", "declaration"}
  BY DEF Inner, PlainSteps, CondSteps
<1>2. Top(todo, blocks, Current) /\ status = "parsing" /\ todo[1] = step
  BY <1>1, StepReady
<1> QED BY <1>2 DEF Top, IInv

(* A token that is passed and leaves the statement as it is.               *)
LEMMA Passed ==
  ASSUME IInv, NEW step \in Inner, At(step), NEW p, Then(p), Goes(todo, p, Current, Current),
         UNCHANGED <<blocks, parserSuccess>>, Continuing, EatsOther
  PROVE  IInv'
<1>1. Current \in Growing /\ parserSuccess \in BOOLEAN
  BY CurrentIs
<1>2. blocks' = blocks /\ parserSuccess' = parserSuccess
  OBVIOUS
<1> QED BY <1>1, <1>2, Taken

LEMMA ParenOpenKeeps == IInv /\ ParenOpen => IInv'
<1> SUFFICES ASSUME IInv, ParenOpen PROVE IInv'
  OBVIOUS
<1>1. At("(") /\ "(" \in Inner
  BY DEF ParenOpen, Expect, Inner
<1>2. CASE Token = "("
  <2>1. Eat /\ Then(<<>>) /\ UNCHANGED <<blocks, parserSuccess>> /\ Continuing
    BY <1>2 DEF ParenOpen, Expect
  <2>2. Goes(todo, <<>>, Current, Current)
    BY <1>1, CurrentIs, BeyondParenOpen
  <2>3. EatsOther
    BY <1>2, <2>1 DEF EatsOther
  <2> QED BY <1>1, <2>1, <2>2, <2>3, Passed
<1>3. CASE Token # "("
  BY <1>1, <1>3, Failed, CurrentIs DEF ParenOpen, Expect
<1> QED BY <1>2, <1>3

LEMMA ParenCloseKeeps == IInv /\ ParenClose => IInv'
<1> SUFFICES ASSUME IInv, ParenClose PROVE IInv'
  OBVIOUS
<1>1. At(")") /\ ")" \in Inner
  BY DEF ParenClose, Expect, Inner
<1>2. CASE Token = ")"
  <2>1. Eat /\ Then(<<>>) /\ UNCHANGED <<blocks, parserSuccess>> /\ Continuing
    BY <1>2 DEF ParenClose, Expect
  <2>2. Goes(todo, <<>>, Current, Current)
    BY <1>1, CurrentIs, BeyondParenClose
  <2>3. EatsOther
    BY <1>2, <2>1 DEF EatsOther
  <2> QED BY <1>1, <2>1, <2>2, <2>3, Passed
<1>3. CASE Token # ")"
  BY <1>1, <1>3, Failed, CurrentIs DEF ParenClose, Expect
<1> QED BY <1>2, <1>3

LEMMA OptionalKeeps ==
  ASSUME IInv, NEW step \in Inner, NEW token, token # "proc", NEW p, Optional(step, token, p),
         Goes(todo, <<>>, Current, Current), Goes(todo, p, Current, Current)
  PROVE  IInv'
<1>1. At(step) /\ UNCHANGED <<blocks, parserSuccess>> /\ Continuing
  BY DEF Optional
<1>2. CASE Token = token
  <2>1. Eat /\ Then(p)
    BY <1>2 DEF Optional
  <2>2. EatsOther
    BY <1>2, <2>1 DEF EatsOther
  <2> QED BY <1>1, <2>1, <2>2, Passed
<1>3. CASE Token # token
  <2>1. UNCHANGED tokens /\ Then(<<>>)
    BY <1>3 DEF Optional
  <2>2. EatsOther
    BY <2>1 DEF EatsOther
  <2> QED BY <1>1, <2>1, <2>2, Passed
<1> QED BY <1>2, <1>3

LEMMA IfKeeps == IInv /\ If => IInv'
<1> SUFFICES ASSUME IInv, If PROVE IInv'
  OBVIOUS
<1>1. Optional("if", "if", <<"operand", "comparison", "operand">>)
  BY DEF If
<1>2. At("if") /\ "if" \in Inner
  BY <1>1 DEF Optional, Inner, PlainSteps
<1>3. Top(todo, blocks, Current) /\ todo[1] = "if"
  BY <1>2, CurrentIs
<1>4. Goes(todo, <<>>, Current, Current)
  BY <1>3, BeyondIf
<1>5. Goes(todo, <<"operand", "comparison", "operand">>, Current, Current)
  BY <1>3, GoesToCond
<1>6. "if" # "proc"
  OBVIOUS
<1> QED BY <1>1, <1>2, <1>4, <1>5, <1>6, OptionalKeeps

LEMMA LoopConditionKeeps == IInv /\ LoopCondition => IInv'
<1> SUFFICES ASSUME IInv, LoopCondition PROVE IInv'
  OBVIOUS
<1>1. Optional("loop-condition", "(", <<"operand", "comparison", "operand", ")">>)
  BY DEF LoopCondition
<1>2. At("loop-condition") /\ "loop-condition" \in Inner
  BY <1>1 DEF Optional, Inner
<1>3. Top(todo, blocks, Current) /\ todo[1] = "loop-condition"
  BY <1>2, CurrentIs
<1>4. Goes(todo, <<>>, Current, Current)
  BY <1>3, BeyondLoopCondition
<1>5. Goes(todo, <<"operand", "comparison", "operand", ")">>, Current, Current)
  BY <1>3, GoesToLoopCond
<1>6. "(" # "proc"
  OBVIOUS
<1> QED BY <1>1, <1>2, <1>4, <1>5, <1>6, OptionalKeeps

LEMMA ElseKeeps == IInv /\ Else => IInv'
<1> SUFFICES ASSUME IInv, Else PROVE IInv'
  OBVIOUS
<1>1. Optional("else", "else", <<"brace", "statements">>)
  BY DEF Else
<1>2. At("else") /\ "else" \in Inner
  BY <1>1 DEF Optional, Inner
<1>3. Top(todo, blocks, Current) /\ todo[1] = "else"
  BY <1>2, CurrentIs
<1>4. Goes(todo, <<>>, Current, Current)
  BY <1>3, BeyondElse
<1>5. Goes(todo, <<"brace", "statements">>, Current, Current)
  BY <1>3, GoesToElse
<1>6. "else" # "proc"
  OBVIOUS
<1> QED BY <1>1, <1>2, <1>4, <1>5, <1>6, OptionalKeeps

LEMMA TakeKeeps ==
  ASSUME IInv, NEW step \in Inner, NEW set, \A x \in set : x # "proc", NEW z, NEW p,
         Take(step, set, z, p), Token \in set => z \in Growing /\ Goes(todo, p, Current, z)
  PROVE  IInv'
<1>1. At(step)
  BY DEF Take
<1>2. status = "parsing" /\ parserSuccess \in BOOLEAN
  BY <1>1, CurrentIs
<1>3. CASE Token \in set
  <2>1. Eat /\ SetStmt(z) /\ Then(p) /\ UNCHANGED parserSuccess /\ Continuing
    BY <1>3 DEF Take
  <2>2. EatsOther
    BY <1>3, <2>1 DEF EatsOther
  <2>3. parserSuccess' \in BOOLEAN
    BY <1>2, <2>1
  <2> QED BY <1>1, <1>3, <2>1, <2>2, <2>3, Taken
<1>4. CASE Token \notin set
  BY <1>2, <1>4, Failed DEF Take
<1> QED BY <1>3, <1>4

LEMMA OperandToken ==
  /\ \A n \in BOOLEAN, x \in Registers \cup Numbers \cup Texts : Operand(n, x) \in OperandType
  /\ \A x \in Registers \cup Numbers : x # "proc"
BY NoProc DEF Operand, OperandType

LEMMA OperandTaken ==
  ASSUME NEW t, NEW b, NEW field \in {"source", "operand"}, NEW x \in OperandType,
         Top(t, b, Current), t[1] \in {field, Minus[field]}
  PROVE  WithOperand(x, field) \in Growing /\ Goes(t, <<>>, Current, WithOperand(x, field))
<1>1. PICK s : s = Current
  OBVIOUS
<1>2. CASE field = "source"
  <2>1. t[1] \in {"source", "minus-source"}
    BY <1>2 DEF Minus
  <2>2. PICK z : z = [s EXCEPT !.args = Append(s.args, x)]
    OBVIOUS
  <2>3. WithOperand(x, field) = z
    BY <1>1, <1>2, <2>2 DEF WithOperand
  <2> QED BY <1>1, <2>1, <2>2, <2>3, OperandOfSource
<1>3. CASE field = "operand"
  <2>1. t[1] \in {"operand", "minus-operand"}
    BY <1>3 DEF Minus
  <2>2. PICK z : z = [s EXCEPT !.cond = Append(s.cond, x)]
    OBVIOUS
  <2>3. WithOperand(x, field) = z
    BY <1>1, <1>3, <2>2 DEF WithOperand
  <2> QED BY <1>1, <2>1, <2>2, <2>3, OperandOfCond
<1> QED BY <1>2, <1>3

LEMMA ParseOperandKeeps == IInv /\ ParseOperand => IInv'
<1> SUFFICES ASSUME IInv, ParseOperand PROVE IInv'
  OBVIOUS
<1>1. PICK field \in {"source", "operand"} : ParseOperandIn(field)
  BY DEF ParseOperand, Minus
<1>2. At(field) /\ field \in Inner
  BY <1>1 DEF ParseOperandIn, Inner, PlainSteps, CondSteps
<1>3. Top(todo, blocks, Current) /\ todo[1] = field
  BY <1>2, CurrentIs
<1>4. CASE Token = "-"
  <2>1. Eat /\ Then(<<Minus[field]>>) /\ UNCHANGED <<blocks, parserSuccess>> /\ Continuing
    BY <1>1, <1>4 DEF ParseOperandIn
  <2>2. Goes(todo, <<Minus[field]>>, Current, Current)
    <3>1. CASE field = "source"
      <4>1. Goes(todo, <<"minus-source">>, Current, Current)
        BY <1>3, <3>1, GoesToMinus
      <4> QED BY <3>1, <4>1 DEF Minus
    <3>2. CASE field = "operand"
      <4>1. Goes(todo, <<"minus-operand">>, Current, Current)
        BY <1>3, <3>2, GoesToMinus
      <4> QED BY <3>2, <4>1 DEF Minus
    <3> QED BY <3>1, <3>2
  <2>3. EatsOther
    BY <1>4, <2>1 DEF EatsOther
  <2> QED BY <1>2, <2>1, <2>2, <2>3, Passed
<1>5. CASE Token # "-"
  <2>1. Take(field, Registers \cup Numbers, WithOperand(Operand(FALSE, Token), field), <<>>)
    BY <1>1, <1>5 DEF ParseOperandIn
  <2>2. ASSUME Token \in Registers \cup Numbers
        PROVE  /\ WithOperand(Operand(FALSE, Token), field) \in Growing
               /\ Goes(todo, <<>>, Current, WithOperand(Operand(FALSE, Token), field))
    <3>1. Operand(FALSE, Token) \in OperandType
      BY <2>2, OperandToken
    <3> QED BY <1>3, <3>1, OperandTaken
  <2>3. \A x \in Registers \cup Numbers : x # "proc"
    BY OperandToken
  <2> QED BY <1>2, <2>1, <2>2, <2>3, TakeKeeps
<1> QED BY <1>4, <1>5

LEMMA MinusNumberKeeps == IInv /\ MinusNumber => IInv'
<1> SUFFICES ASSUME IInv, MinusNumber PROVE IInv'
  OBVIOUS
<1>1. PICK field \in {"source", "operand"} :
        Take(Minus[field], Numbers, WithOperand(Operand(TRUE, Token), field), <<>>)
  BY DEF MinusNumber, MinusNumberIn, Minus
<1>2. PICK step : step = Minus[field]
  OBVIOUS
<1>3. At(step) /\ step \in Inner
  BY <1>1, <1>2 DEF Take, Minus, Inner, PlainSteps, CondSteps
<1>4. Top(todo, blocks, Current) /\ todo[1] = step
  BY <1>3, CurrentIs
<1>5. ASSUME Token \in Numbers
      PROVE  /\ WithOperand(Operand(TRUE, Token), field) \in Growing
             /\ Goes(todo, <<>>, Current, WithOperand(Operand(TRUE, Token), field))
  <2>1. Operand(TRUE, Token) \in OperandType
    BY <1>5, OperandToken
  <2> QED BY <1>2, <1>4, <2>1, OperandTaken
<1>6. \A x \in Numbers : x # "proc"
  BY OperandToken
<1> QED BY <1>1, <1>2, <1>3, <1>5, <1>6, TakeKeeps

LEMMA ParseComparisonKeeps == IInv /\ ParseComparison => IInv'
<1> SUFFICES ASSUME IInv, ParseComparison PROVE IInv'
  OBVIOUS
<1>1. PICK s, z : s = Current /\ z = [s EXCEPT !.cond = Append(s.cond, Token)]
  OBVIOUS
<1>2. Take("comparison", Comparisons, z, <<>>)
  BY <1>1 DEF ParseComparison
<1>3. At("comparison") /\ "comparison" \in Inner
  BY <1>2 DEF Take, Inner, CondSteps
<1>4. Top(todo, blocks, Current) /\ todo[1] = "comparison"
  BY <1>3, CurrentIs
<1>5. Token \in Comparisons => z \in Growing /\ Goes(todo, <<>>, Current, z)
  BY <1>1, <1>4, ComparisonOfCond
<1>6. \A x \in Comparisons : x # "proc"
  BY DEF Comparisons
<1> QED BY <1>2, <1>3, <1>5, <1>6, TakeKeeps

LEMMA AssignKeeps == IInv /\ Assign => IInv'
<1> SUFFICES ASSUME IInv, Assign PROVE IInv'
  OBVIOUS
<1>1. PICK s, z : /\ s = Current
                  /\ z = [s EXCEPT !.tag = IF Token = "=" THEN s.tag ELSE "shorthand", !.op = Token]
  OBVIOUS
<1>2. Take("assign", {"="} \cup Shorthands, z, <<>>)
  BY <1>1 DEF Assign
<1>3. At("assign") /\ "assign" \in Inner
  BY <1>2 DEF Take, Inner, PlainSteps
<1>4. Top(todo, blocks, Current) /\ todo[1] = "assign"
  BY <1>3, CurrentIs
<1>5. Token \in {"="} \cup Shorthands => z \in Growing /\ Goes(todo, <<>>, Current, z)
  BY <1>1, <1>4, AssignOp
<1>6. \A x \in {"="} \cup Shorthands : x # "proc"
  BY DEF Shorthands
<1> QED BY <1>2, <1>3, <1>5, <1>6, TakeKeeps

LEMMA TextKeeps == IInv /\ Text => IInv'
<1> SUFFICES ASSUME IInv, Text PROVE IInv'
  OBVIOUS
<1>1. At("text") /\ "text" \in Inner
  BY DEF Text, Inner, PlainSteps
<1>2. Top(todo, blocks, Current) /\ todo[1] = "text"
  BY <1>1, CurrentIs
<1>3. CASE Token \in Texts
  <2>1. PICK s, z, x : /\ s = Current /\ x = Operand(FALSE, Token)
                       /\ z = [s EXCEPT !.tag = "text", !.args = <<x>>]
    OBVIOUS
  <2>2. Take("text", Texts, z, <<>>)
    BY <1>3, <2>1 DEF Text
  <2>3. x \in OperandType
    BY <1>3, <2>1, OperandToken
  <2>4. z \in Growing /\ Goes(todo, <<>>, Current, z)
    BY <1>2, <2>1, <2>3, TextSource
  <2>5. \A y \in Texts : y # "proc"
    BY NoProc
  <2> QED BY <1>1, <2>2, <2>4, <2>5, TakeKeeps
<1>4. CASE Token \notin Texts
  <2>1. Then(<<"source">>) /\ UNCHANGED <<tokens, blocks, parserSuccess>> /\ Continuing
    BY <1>4 DEF Text
  <2>2. Goes(todo, <<"source">>, Current, Current)
    BY <1>2, GoesToSource
  <2>3. EatsOther /\ UNCHANGED <<blocks, parserSuccess>>
    BY <2>1 DEF EatsOther
  <2> QED BY <1>1, <2>1, <2>2, <2>3, Passed
<1> QED BY <1>3, <1>4

LEMMA ParseRegisterKeeps == IInv /\ ParseRegister => IInv'
<1> SUFFICES ASSUME IInv, ParseRegister PROVE IInv'
  OBVIOUS
<1>1. At("register") /\ "register" \in Inner
  BY DEF ParseRegister, Inner, PlainSteps
<1>2. Top(todo, blocks, Current) /\ todo[1] = "register" /\ status = "parsing"
  BY <1>1, CurrentIs
<1>3. CASE Token \in Registers
  <2>1. PICK s, z : s = Current /\ z = [s EXCEPT !.reg = Token]
    OBVIOUS
  <2>2. Eat /\ Then(<<>>) /\ SetStmt(z) /\ parserSuccess' \in BOOLEAN /\ Continuing
    BY <1>3, <2>1 DEF ParseRegister
  <2>3. z \in Growing /\ Goes(todo, <<>>, Current, z)
    BY <1>2, <1>3, <2>1, RegisterTaken
  <2>4. EatsOther
    BY <1>3, <2>2, NoProc DEF EatsOther
  <2> QED BY <1>1, <2>2, <2>3, <2>4, Taken
<1>4. CASE Token \notin Registers
  <2>1. /\ status' = "error" /\ parserSuccess' = FALSE
        /\ UNCHANGED <<vocabulary, tokens, todo, blocks, procedures>>
    BY <1>4 DEF ParseRegister
  <2> QED BY <1>2, <2>1, Stopped
<1> QED BY <1>3, <1>4

(* Steps that change the lists, or what the caller finds.                  *)
LEMMA BraceOpenKeeps == IInv /\ BraceOpen => IInv'
<1> SUFFICES ASSUME IInv, BraceOpen PROVE IInv'
  OBVIOUS
<1>1. /\ At("brace")
      /\ \/ /\ Token # "proc" /\ Eat /\ Then(<<>>) /\ blocks' = Begun(blocks)
            /\ UNCHANGED parserSuccess /\ Continuing
         \/ Fail
  BY NoProc, Zenon DEF BraceOpen, Begun
<1>2. status = "parsing" /\ Head(todo) = "brace" /\ todo[1] = "brace" /\ Shape(todo, blocks)
  BY <1>1, StepReady
<1>3. CASE /\ Token # "proc" /\ Eat /\ Then(<<>>) /\ blocks' = Begun(blocks)
           /\ UNCHANGED parserSuccess /\ Continuing
  <2>1. After(<<>> \o Tail(todo), blocks, blocks')
    BY <1>2, <1>3, BlockBegun
  <2>2. After(todo', blocks, blocks') /\ EatsOther
    BY <1>3, <2>1 DEF Then, EatsOther
  <2>3. parserSuccess' \in BOOLEAN
    BY <1>3 DEF IInv
  <2> QED BY <1>2, <1>3, <2>2, <2>3, Moved
<1> QED BY <1>1, <1>2, <1>3, Failed

LEMMA EmplaceIs ==
  ASSUME Emplace(Current)
  PROVE  blocks' = Emplaced(blocks, Current) /\ parserSuccess' = TRUE
BY Zenon DEF Emplace, Emplaced

LEMMA EmplaceKeeps ==
  ASSUME IInv, NEW step \in {"semicolon", "after-source", "end"}, At(step),
         Emplace(Current), Then(<<>>), Continuing, EatsOther
  PROVE  IInv'
<1>1. step \notin {"statements", "check", "declaration", "name"}
  OBVIOUS
<1>2. /\ status = "parsing" /\ Head(todo) = step /\ todo[1] = step /\ Shape(todo, blocks)
      /\ Current = blocks[Len(blocks)].stmt
  BY StepReady
<1>3. blocks' = Emplaced(blocks, Current) /\ parserSuccess' = TRUE
  BY EmplaceIs
<1>4. PICK s, c : s = Current /\ c = blocks'
  OBVIOUS
<1>5. After(<<>> \o Tail(todo), blocks, c)
  BY <1>2, <1>3, <1>4, DoneWith
<1>6. After(todo', blocks, blocks')
  BY <1>4, <1>5 DEF Then
<1> QED BY <1>1, <1>2, <1>3, <1>6, Moved

LEMMA SemicolonKeeps == IInv /\ Semicolon => IInv'
<1> SUFFICES ASSUME IInv, Semicolon PROVE IInv'
  OBVIOUS
<1>1. /\ At("semicolon")
      /\ \/ Token # "proc" /\ Eat /\ Emplace(Current) /\ Then(<<>>) /\ Continuing
         \/ Fail
  BY NoProc, Zenon DEF Semicolon
<1>2. status = "parsing"
  BY <1>1 DEF At
<1>3. CASE Token # "proc" /\ Eat /\ Emplace(Current) /\ Then(<<>>) /\ Continuing
  BY <1>1, <1>3, EmplaceKeeps DEF EatsOther
<1> QED BY <1>1, <1>2, <1>3, Failed

LEMMA EndStatementKeeps == IInv /\ EndStatement => IInv'
<1> SUFFICES ASSUME IInv, EndStatement PROVE IInv'
  OBVIOUS
<1>1. At("end") /\ Emplace(Current) /\ Then(<<>>) /\ UNCHANGED tokens /\ Continuing
  BY DEF EndStatement
<1>2. EatsOther
  BY <1>1 DEF EatsOther
<1> QED BY <1>1, <1>2, EmplaceKeeps

LEMMA AfterSourceKeeps == IInv /\ AfterSource => IInv'
<1> SUFFICES ASSUME IInv, AfterSource PROVE IInv'
  OBVIOUS
<1>1. PICK s, z : s = Current /\ z = [s EXCEPT !.tag = "longhand", !.op = Token]
  OBVIOUS
<1>2. PICK p : p = <<"source", "if", "semicolon">>
  OBVIOUS
<1>3. <<"source">> \o Ending = p
  BY <1>2, OneAndTwo DEF Ending
<1>4. /\ At("after-source")
      /\ \/ Token # "proc" /\ Eat /\ Emplace(Current) /\ Then(<<>>) /\ Continuing
         \/ Fail
         \/ /\ ~(s.cond # <<>> \/ s.tag = "shorthand")
            /\ Take("after-source", Longhands, z, p)
  BY <1>1, <1>3, NoProc, Zenon DEF AfterSource
<1>5. status = "parsing" /\ "after-source" \in Inner
  BY <1>4 DEF At, Inner, PlainSteps
<1>6. CASE Token # "proc" /\ Eat /\ Emplace(Current) /\ Then(<<>>) /\ Continuing
  BY <1>4, <1>6, EmplaceKeeps DEF EatsOther
<1>7. CASE /\ ~(s.cond # <<>> \/ s.tag = "shorthand")
           /\ Take("after-source", Longhands, z, p)
  <2>1. Top(todo, blocks, s) /\ todo[1] = "after-source"
    BY <1>1, <1>4, <1>5, CurrentIs
  <2>2. Token \in Longhands => z \in Growing /\ Goes(todo, p, s, z)
    BY <1>1, <1>2, <1>7, <2>1, GoesToSecond
  <2>3. \A x \in Longhands : x # "proc"
    BY DEF Longhands
  <2> QED BY <1>1, <1>5, <1>7, <2>2, <2>3, TakeKeeps
<1> QED BY <1>4, <1>5, <1>6, <1>7, Failed

LEMMA CheckStatementKeeps == IInv /\ CheckStatement => IInv'
<1> SUFFICES ASSUME IInv, CheckStatement PROVE IInv'
  OBVIOUS
<1>1. /\ At("check")
      /\ \/ Then(<<>>) /\ UNCHANGED <<tokens, blocks, parserSuccess>> /\ Continuing
         \/ Fail
  BY DEF CheckStatement
<1>2. status = "parsing" /\ Head(todo) = "check" /\ todo[1] = "check" /\ Shape(todo, blocks)
  BY <1>1, StepReady
<1>3. CASE Then(<<>>) /\ UNCHANGED <<tokens, blocks, parserSuccess>> /\ Continuing
  <2>1. blocks' = blocks /\ parserSuccess' = parserSuccess /\ tokens' = tokens
    BY <1>3
  <2>2. After(todo', blocks, blocks')
    BY <1>2, <1>3, <2>1, GoesToNext DEF Then
  <2>3. parserSuccess' \in BOOLEAN /\ EatsOther
    BY <2>1 DEF IInv, EatsOther
  <2> QED BY <1>2, <1>3, <2>2, <2>3, Moved
<1> QED BY <1>1, <1>2, <1>3, Failed

(* A statement is begun.                                                   *)
LEMMA BeginKeeps ==
  ASSUME IInv, NEW first, NEW z, NEW p, NEW q, Begin(first, z, p), p \o <<"check">> = q,
         Token # "proc", NEW tag, tag # "proc", Fresh(z, tag), Opening(q, z)
  PROVE  IInv'
<1>1. /\ At("statements") /\ Eat /\ todo' = p \o <<"check">> \o todo /\ SetStmt(z)
      /\ parserSuccess' \in BOOLEAN /\ Continuing
  BY DEF Begin
<1>2. status = "parsing" /\ Head(todo) = "statements" /\ todo[1] = "statements" /\ Shape(todo, blocks)
  BY <1>1, StepReady
<1>3. blocks' = Put(blocks, z)
  BY <1>1 DEF SetStmt, Put
<1>4. todo' = q \o todo
  BY <1>1
<1>5. After(todo', blocks, blocks')
  BY <1>2, <1>3, <1>4, BeginsWith
<1>6. EatsOther
  BY <1>1 DEF EatsOther
<1> QED BY <1>1, <1>2, <1>5, <1>6, Moved

LEMMA ParseAssignmentKeeps == IInv /\ ParseAssignment => IInv'
<1> SUFFICES ASSUME IInv, ParseAssignment PROVE IInv'
  OBVIOUS
<1>1. PICK z, p, q : /\ z = [Statement("assignment") EXCEPT !.reg = Token]
                     /\ p = <<"assign", "source", "if", "after-source">>
                     /\ q = <<"assign", "source", "if", "after-source", "check">>
  OBVIOUS
<1>2. Begin(Token \in Registers, z, p) /\ p \o <<"check">> = q
  BY <1>1, FourAndOne DEF ParseAssignment
<1>3. Token \in Registers
  BY <1>2 DEF Begin
<1>4. Fresh(z, "assignment") /\ Token # "proc"
  BY <1>1, <1>3, FreshRegister, NoProc
<1>5. Opening(q, z)
  BY <1>1, <1>4, AssignmentOpening
<1> QED BY <1>2, <1>4, <1>5, BeginKeeps

LEMMA ParseLoopKeeps == IInv /\ ParseLoop => IInv'
<1> SUFFICES ASSUME IInv, ParseLoop PROVE IInv'
  OBVIOUS
<1>1. PICK z, p, q : /\ z = Statement("loop")
                     /\ p = <<"loop-condition", "brace", "statements", "end">>
                     /\ q = <<"loop-condition", "brace", "statements", "end", "check">>
  OBVIOUS
<1>2. Begin(Token = "loop", z, p) /\ p \o <<"check">> = q
  BY <1>1, FourAndOne DEF ParseLoop
<1>3. Token # "proc"
  BY <1>2 DEF Begin
<1>4. Fresh(z, "loop")
  BY <1>1, FreshIs DEF BlockTags
<1>5. Opening(q, z)
  BY <1>1, <1>4, LoopOpening
<1> QED BY <1>2, <1>3, <1>4, <1>5, BeginKeeps

LEMMA ParseBranchKeeps == IInv /\ ParseBranch => IInv'
<1> SUFFICES ASSUME IInv, ParseBranch PROVE IInv'
  OBVIOUS
<1>1. PICK z, p, q :
        /\ z = Statement("branch")
        /\ p = <<"(", "operand", "comparison", "operand", ")", "brace", "statements", "else", "end">>
        /\ q = <<"(", "operand", "comparison", "operand", ")", "brace", "statements", "else", "end",
                 "check">>
  OBVIOUS
<1>2. Begin(Token = "branch", z, p) /\ p \o <<"check">> = q
  BY <1>1, NineAndOne DEF ParseBranch
<1>3. Token # "proc"
  BY <1>2 DEF Begin
<1>4. Fresh(z, "branch")
  BY <1>1, FreshIs DEF BlockTags
<1>5. Opening(q, z)
  BY <1>1, <1>4, BranchOpening
<1> QED BY <1>2, <1>3, <1>4, <1>5, BeginKeeps

(* A statement of a few words and an if.                                   *)
LEMMA EndingIs ==
  /\ Ending \o <<"check">> = <<"if", "semicolon", "check">>
  /\ \A x : (<<x>> \o Ending) \o <<"check">> = <<x, "if", "semicolon", "check">>
<1>1. Ending \o <<"check">> = <<"if", "semicolon", "check">>
  BY TwoAndOne DEF Ending
<1>2. ASSUME NEW x PROVE (<<x>> \o Ending) \o <<"check">> = <<x, "if", "semicolon", "check">>
  <2>1. <<x>> \o Ending = <<x, "if", "semicolon">>
    BY OneAndTwo DEF Ending
  <2>2. <<x, "if", "semicolon">> \o <<"check">> = <<x, "if", "semicolon", "check">>
    BY ThreeAndOne
  <2> QED BY <2>1, <2>2
<1> QED BY <1>1, <1>2

LEMMA ParseJumpKeeps == IInv /\ ParseJump => IInv'
<1> SUFFICES ASSUME IInv, ParseJump PROVE IInv'
  OBVIOUS
<1>1. PICK z, q : z = Statement(Token) /\ q = <<"if", "semicolon", "check">>
  OBVIOUS
<1>2. Begin(Token \in {"break", "continue", "return"}, z, Ending) /\ Ending \o <<"check">> = q
  BY <1>1, EndingIs DEF ParseJump
<1>3. PICK tag \in {"break", "continue", "return"} : tag = Token
  BY <1>2 DEF Begin
<1>4. Fresh(z, tag) /\ Token # "proc" /\ tag # "proc"
  BY <1>1, <1>3, FreshIs DEF PlainTags
<1>5. Opening(q, z)
  <2>1. /\ tag \in PlainTags /\ tag # "stdout" /\ "register" # "text"
        /\ tag \notin Assigning \cup {"longhand", "text"}
    BY DEF PlainTags, Assigning
  <2> QED BY <1>1, <1>4, <2>1, PlainOpening
<1> QED BY <1>2, <1>4, <1>5, BeginKeeps

LEMMA ParseCallKeeps == IInv /\ ParseCall => IInv'
<1> SUFFICES ASSUME IInv, ParseCall PROVE IInv'
  OBVIOUS
<1>1. PICK z, q : /\ z = [Statement("call") EXCEPT !.name = Token]
                  /\ q = <<"if", "semicolon", "check">>
  OBVIOUS
<1>2. Begin(Token \in Names, z, Ending) /\ Ending \o <<"check">> = q
  BY <1>1, EndingIs DEF ParseCall
<1>3. Token \in Names
  BY <1>2 DEF Begin
<1>4. Fresh(z, "call") /\ Token # "proc"
  BY <1>1, <1>3, FreshCall, NoProc
<1>5. Opening(q, z)
  <2>1. /\ "call" \in PlainTags /\ "call" # "stdout" /\ "register" # "text"
        /\ "call" \notin Assigning \cup {"longhand", "text"}
    BY DEF PlainTags, Assigning
  <2> QED BY <1>1, <1>4, <2>1, PlainOpening
<1>6. "call" # "proc"
  OBVIOUS
<1> QED BY <1>2, <1>4, <1>5, <1>6, BeginKeeps

LEMMA ParseStdoutKeeps == IInv /\ ParseStdout => IInv'
<1> SUFFICES ASSUME IInv, ParseStdout PROVE IInv'
  OBVIOUS
<1>1. PICK z, p, q : /\ z = Statement("stdout") /\ p = <<"text">> \o Ending
                     /\ q = <<"text", "if", "semicolon", "check">>
  OBVIOUS
<1>2. Begin(Token = "<<", z, p) /\ p \o <<"check">> = q
  BY <1>1, EndingIs DEF ParseStdout
<1>3. Token # "proc"
  BY <1>2 DEF Begin
<1>4. Fresh(z, "stdout")
  BY <1>1, FreshIs DEF PlainTags
<1>5. Opening(q, z)
  <2>1. "stdout" \in PlainTags /\ "stdout" \notin Assigning \cup {"longhand", "text"}
    BY DEF PlainTags, Assigning
  <2> QED BY <1>1, <1>4, <2>1, PlainOpening
<1>6. "stdout" # "proc"
  OBVIOUS
<1> QED BY <1>2, <1>3, <1>4, <1>5, <1>6, BeginKeeps

LEMMA ParsePushOrPopKeeps == IInv /\ ParsePushOrPop => IInv'
<1> SUFFICES ASSUME IInv, ParsePushOrPop PROVE IInv'
  OBVIOUS
<1>1. PICK z, p, q : /\ z = Statement(Token) /\ p = <<"register">> \o Ending
                     /\ q = <<"register", "if", "semicolon", "check">>
  OBVIOUS
<1>2. Begin(Token \in {"push", "pop"}, z, p) /\ p \o <<"check">> = q
  BY <1>1, EndingIs DEF ParsePushOrPop
<1>3. PICK tag \in {"push", "pop"} : tag = Token
  BY <1>2 DEF Begin
<1>4. Fresh(z, tag) /\ Token # "proc" /\ tag # "proc"
  BY <1>1, <1>3, FreshIs DEF PlainTags
<1>5. Opening(q, z)
  <2>1. /\ tag \in PlainTags /\ tag # "stdout" /\ "register" # "text"
        /\ tag \notin Assigning \cup {"longhand", "text"}
    BY DEF PlainTags, Assigning
  <2> QED BY <1>1, <1>4, <2>1, PlainOpening
<1> QED BY <1>2, <1>4, <1>5, BeginKeeps

LEMMA NoStatementKeeps == IInv /\ NoStatement => IInv'
<1> SUFFICES ASSUME IInv, NoStatement PROVE IInv'
  OBVIOUS
<1>1. /\ At("statements") /\ todo' = <<"check">> \o todo /\ parserSuccess' = FALSE
      /\ UNCHANGED <<tokens, blocks>> /\ Continuing
  BY DEF NoStatement
<1>2. status = "parsing" /\ Head(todo) = "statements" /\ todo[1] = "statements" /\ Shape(todo, blocks)
  BY <1>1, StepReady
<1>3. blocks' = blocks
  BY <1>1
<1>4. After(todo', blocks, blocks')
  BY <1>1, <1>2, <1>3, BeginsWithout
<1>5. EatsOther
  BY <1>1 DEF EatsOther
<1> QED BY <1>1, <1>2, <1>4, <1>5, Moved

(* Blocks and procedures.                                                  *)
LEMMA CloseBlockKeeps == IInv /\ CloseBlock => IInv'
<1> SUFFICES ASSUME IInv, CloseBlock PROVE IInv'
  OBVIOUS
<1>1. /\ At("statements") /\ Token # "proc" /\ Eat /\ Then(<<>>)
      /\ blocks' = Closed(Front(blocks), Last(blocks).list)
      /\ UNCHANGED parserSuccess /\ Continuing
  BY NoProc, Zenon DEF CloseBlock, Closed
<1>2. status = "parsing" /\ Head(todo) = "statements" /\ todo[1] = "statements" /\ Shape(todo, blocks)
  BY <1>1, StepReady
<1>3. blocks' = Closed(Front(blocks), blocks[Len(blocks)].list)
  BY <1>1, Zenon DEF Last
<1>4. After(<<>> \o Tail(todo), blocks, blocks')
  BY <1>2, <1>3, BlockClosed
<1>5. After(todo', blocks, blocks') /\ EatsOther
  BY <1>1, <1>4 DEF Then, EatsOther
<1>6. parserSuccess' \in BOOLEAN
  BY <1>1 DEF IInv
<1> QED BY <1>1, <1>2, <1>5, <1>6, Moved

LEMMA ParseProcedureKeeps == IInv /\ ParseProcedure => IInv'
<1> SUFFICES ASSUME IInv, ParseProcedure PROVE IInv'
  OBVIOUS
<1>1. PICK p : p = <<"name", "brace", "statements", "declare">>
  OBVIOUS
<1>2. /\ At("declaration") /\ Token = "proc" /\ Eat /\ todo' = p \o todo
      /\ blocks' = <<[stmt |-> Statement("proc"), list |-> <<>>]>>
      /\ parserSuccess' = parserSuccess
      /\ vocabulary' = vocabulary /\ procedures' = procedures /\ status' = status
  BY <1>1 DEF ParseProcedure, Continuing
<1>3. status = "parsing" /\ Head(todo) = "declaration" /\ todo[1] = "declaration" /\ Shape(todo, blocks)
  BY <1>2, StepReady
<1>4. Shape(todo', blocks') /\ blocks = <<>> /\ blocks' # <<>>
  BY <1>1, <1>2, <1>3, BodyBegun
<1>5. p \in Seq(Steps) /\ p # <<>> /\ p[1] = "name"
  BY <1>1 DEF Steps
<1>6. Head(todo') = "name"
  BY <1>2, <1>3, <1>5, HeadOf
<1>7. /\ tokens' \in Seq(vocabulary'.words \cup {"eof"}) /\ tokens' # <<>>
      /\ Longer(tokens, tokens')
  BY <1>2, TokensGrow
<1>8. Tracked(tokens, todo, <<>>, DOMAIN procedures)
  BY <1>3, <1>4 DEF IInv, NamesKept
<1>9. Tracked(tokens', todo', blocks', DOMAIN procedures)
  <2>1. Last(tokens) = "proc" /\ Head(todo) # "name"
    BY <1>2, <1>3 DEF Token
  <2> QED BY <1>6, <1>7, <1>8, <2>1, ProcEaten
<1>10. NamesKept' /\ Outputs(procedures')
  BY <1>2, <1>3, <1>9 DEF NamesKept, IInv
<1>11. parserSuccess' \in BOOLEAN /\ status' = "parsing"
  BY <1>2, <1>3 DEF IInv
<1> QED BY <1>4, <1>7, <1>10, <1>11 DEF IInv

(* The statement that waits for a name is the only one.                    *)
LEMMA NameFirst ==
  ASSUME NEW t, NEW b, Shape(t, b), t[1] = "name"
  PROVE  Len(b) = 1
<1>1. PICK v : Fits(t, v, b)
  BY DEF Shape
<1>2. PICK s : s = b[Len(b)].stmt
  OBVIOUS
<1>3. Top(t, b, s)
  BY <1>2, TopIs
<1>4. /\ Leads(t, v) /\ t \in Seq(Steps) /\ Len(t) \in Nat /\ v[1] \in Nat /\ v[1] > 0
      /\ Len(b) = v[1]
  <2>1. t[1] \notin {"declaration", "statements"}
    OBVIOUS
  <2>2. t \in Seq(Steps) /\ Len(t) \in Nat \ {0}
    BY <1>1, FitsBasics
  <2>3. 1 \in 1 .. Len(t)
    BY <2>2
  <2> QED BY <1>1, <2>1, <2>2, <2>3, FitsBasics
<1>5. PICK l : l = Len(t)
  OBVIOUS
<1>6. /\ l \in Nat \ {0} /\ t[l] = "declaration" /\ v[l] = 0
      /\ \A k \in 1 .. l - 1 :
           /\ Precedes(t[k], t[k + 1])
           /\ v[k + 1] = IF t[k] \in {"check", "declare"} THEN v[k] - 1 ELSE v[k]
  BY <1>1, <1>4, <1>5, FitsBasics DEF Leads
<1>7. s.tag = "proc" /\ \A k \in 2 .. l : v[k] = v[1] => StepFits(t[k], s)
  <2>1. s.tag = "proc"
    BY <1>3 DEF Top, HeadFits, StepFits
  <2> QED BY <1>1, <1>2, <1>4, <1>5, <2>1 DEF Fits
<1>8. t[1 + 1] = "brace" /\ v[1 + 1] = v[1] /\ l # 1 /\ 2 \in 1 .. l
  <2>1. l # 1
    BY <1>6
  <2>2. 1 \in 1 .. l - 1 /\ 2 \in 1 .. l
    BY <1>6, <2>1
  <2> QED BY <1>6, <2>1, <2>2 DEF Precedes
<1>9. t[2 + 1] = "statements" /\ v[2 + 1] = v[1] /\ 3 \in 1 .. l
  <2>1. l # 2
    BY <1>6, <1>8
  <2>2. 2 \in 1 .. l - 1 /\ 3 \in 1 .. l
    BY <1>6, <1>8, <2>1
  <2> QED BY <1>6, <1>8, <2>2 DEF Precedes
<1>10. t[3 + 1] = "declare" /\ v[3 + 1] = v[1] /\ 4 \in 1 .. l
  <2>1. l # 3
    BY <1>6, <1>9
  <2>2. 3 \in 1 .. l - 1 /\ 4 \in 1 .. l /\ 4 \in 2 .. l
    BY <1>6, <1>9, <2>1
  <2>3. t[3 + 1] \in {"else", "end", "declare"} /\ v[3 + 1] = v[1]
    BY <1>6, <1>9, <2>2 DEF Precedes
  <2>4. StepFits(t[4], s)
    BY <1>7, <2>2, <2>3
  <2> QED BY <1>7, <2>2, <2>3, <2>4 DEF StepFits, BlockTags
<1>11. t[4 + 1] = "declaration" /\ v[4 + 1] = v[1] - 1 /\ 5 \in 1 .. l
  <2>1. l # 4
    BY <1>6, <1>10
  <2>2. 4 \in 1 .. l - 1 /\ 5 \in 1 .. l
    BY <1>6, <1>10, <2>1
  <2> QED BY <1>6, <1>10, <2>2 DEF Precedes
<1>12. l = 5
  <2> SUFFICES ASSUME l # 5 PROVE FALSE
    OBVIOUS
  <2>1. 5 \in 1 .. l - 1
    BY <1>6, <1>11
  <2>2. Precedes(t[5], t[5 + 1]) /\ t[5] = "declaration"
    BY <1>6, <1>11, <2>1
  <2> QED BY <2>2 DEF Precedes
<1>13. v[1] = 1
  BY <1>4, <1>6, <1>11, <1>12
<1> QED BY <1>4, <1>13

LEMMA ProcedureNameKeeps == IInv /\ ProcedureName => IInv'
<1> SUFFICES ASSUME IInv, ProcedureName PROVE IInv'
  OBVIOUS
<1>1. PICK s, z : s = Current /\ z = [s EXCEPT !.name = Token]
  OBVIOUS
<1>2. /\ At("name")
      /\ \/ /\ Token \in Names /\ Eat /\ SetStmt(z) /\ Then(<<>>)
            /\ UNCHANGED parserSuccess /\ Continuing
         \/ Fail
  BY <1>1 DEF ProcedureName, Take
<1>3. /\ status = "parsing" /\ Head(todo) = "name" /\ todo[1] = "name" /\ Shape(todo, blocks)
      /\ s = blocks[Len(blocks)].stmt /\ Top(todo, blocks, s)
  <2>1. "name" \notin {"statements", "check", "declaration"}
    OBVIOUS
  <2> QED BY <1>1, <1>2, <2>1, StepReady
<1>4. CASE /\ Token \in Names /\ Eat /\ SetStmt(z) /\ Then(<<>>)
           /\ UNCHANGED parserSuccess /\ Continuing
  <2>1. z \in Growing /\ Goes(todo, <<>>, s, z)
    BY <1>1, <1>3, <1>4, NameTaken
  <2>2. PICK c : c = blocks' /\ c = Put(blocks, z)
    BY <1>4 DEF SetStmt, Put
  <2>3. Shape(<<>> \o Tail(todo), c) /\ blocks # <<>> /\ c # <<>>
    <3>1. todo[1] \notin {"brace", "statements", "check", "declare", "declaration"}
      BY <1>3
    <3> QED BY <1>3, <2>1, <2>2, <3>1, GoesOn
  <2>4. Head(<<>> \o Tail(todo)) # "name"
    <3>1. todo[1] # "declaration"
      BY <1>3
    <3> QED BY <1>3, <3>1, LongTail
  <2>5. Shape(todo', blocks') /\ Head(todo') # "name" /\ blocks' # <<>>
    BY <1>4, <2>2, <2>3, <2>4 DEF Then
  <2>6. blocks'[1].stmt.name = Token
    <3>1. Len(blocks) = 1 /\ blocks \in Seq(Block)
      BY <1>3, NameFirst DEF Shape
    <3>2. blocks[1] \in Block /\ s \in Growing
      <4>1. 1 \in 1 .. Len(blocks)
        BY <3>1
      <4>2. blocks[1] \in Block
        BY <3>1, <4>1, ElementOfSeq
      <4> QED BY <1>3, <4>2 DEF Top
    <3>3. z.name = Token
      BY <1>1, <3>2 DEF Growing
    <3>4. blocks'[1].stmt = z
      BY <2>2, <3>1, <3>2 DEF Put, Block
    <3> QED BY <3>3, <3>4
  <2>7. /\ vocabulary' = vocabulary /\ procedures' = procedures /\ status' = "parsing"
        /\ parserSuccess' \in BOOLEAN
    BY <1>3, <1>4 DEF Continuing, IInv
  <2>8. /\ tokens' \in Seq(vocabulary'.words \cup {"eof"}) /\ tokens' # <<>>
        /\ Longer(tokens, tokens')
    BY <1>4, <2>7, TokensGrow
  <2>9. Tracked(tokens', todo', blocks', DOMAIN procedures)
    <3>1. Tracked(tokens, todo, blocks, DOMAIN procedures)
      BY <1>3 DEF IInv, NamesKept
    <3>2. Last(tokens) # "proc" /\ blocks'[1].stmt.name = Last(tokens)
      BY <1>4, <2>6, NoProc DEF Token
    <3> QED BY <1>3, <2>5, <2>8, <3>1, <3>2, NameEaten
  <2>10. NamesKept' /\ Outputs(procedures')
    BY <2>7, <2>9 DEF NamesKept, IInv
  <2> QED BY <2>5, <2>7, <2>8, <2>10 DEF IInv
<1> QED BY <1>2, <1>3, <1>4, Failed

(* The output with one procedure more.                                     *)
LEMMA OutputMore ==
  ASSUME Outputs(procedures), NEW n, NEW l \in Seq(Flat), ListFits(l),
         NEW q, q = WithProcedure(n, l)
  PROVE  Outputs(q) /\ DOMAIN q = DOMAIN procedures \cup {n}
<1>1. DOMAIN q = DOMAIN procedures \cup {n}
  BY DEF WithProcedure
<1>2. \A m \in DOMAIN q : q[m] = IF m = n THEN l ELSE procedures[m]
  BY DEF WithProcedure
<1>3. q = [m \in DOMAIN q |-> q[m]]
  BY DEF WithProcedure
<1>4. \A m \in DOMAIN q : q[m] \in Seq(Flat) /\ ListFits(q[m])
  BY <1>1, <1>2 DEF Outputs
<1> QED BY <1>1, <1>3, <1>4 DEF Outputs

LEMMA DeclareKeeps == IInv /\ Declare => IInv'
<1> SUFFICES ASSUME IInv, Declare PROVE IInv'
  OBVIOUS
<1>1. PICK s, n, l : s = Current /\ n = s.name /\ l = s.blocks[1]
  OBVIOUS
<1>2. /\ At("declare") /\ parserSuccess' = TRUE /\ Then(<<>>) /\ blocks' = <<>>
      /\ vocabulary' = vocabulary /\ tokens' = tokens
      /\ IF n \in DOMAIN procedures THEN status' = "redeclared" /\ procedures' = procedures
         ELSE status' = status /\ procedures' = WithProcedure(n, l)
  BY <1>1 DEF Declare
<1>3. /\ status = "parsing" /\ Head(todo) = "declare" /\ todo[1] = "declare" /\ Shape(todo, blocks)
      /\ s = blocks[Len(blocks)].stmt
  BY <1>1, <1>2, StepReady
<1>4. /\ Shape(<<>> \o Tail(todo), <<>>) /\ <<>> \o Tail(todo) = <<"declaration">>
      /\ blocks # <<>> /\ s = blocks[1].stmt /\ l \in Seq(Flat) /\ ListFits(l)
  BY <1>1, <1>3, BodyDone
<1>5. Shape(todo', blocks') /\ todo' = <<"declaration">>
  BY <1>2, <1>4 DEF Then
<1>6. /\ n \in DOMAIN procedures => Repeated(tokens)
      /\ n \notin DOMAIN procedures =>
           Tracked(tokens, <<"declaration">>, <<>>, DOMAIN procedures \cup {n})
  <2>1. Tracked(tokens, todo, blocks, DOMAIN procedures) /\ n = blocks[1].stmt.name
    BY <1>1, <1>3, <1>4 DEF IInv, NamesKept
  <2> QED BY <1>3, <1>4, <2>1, NameDeclared
<1>7. CASE n \in DOMAIN procedures
  <2>1. NamesKept' /\ Outputs(procedures') /\ status' = "redeclared"
    BY <1>2, <1>6, <1>7 DEF NamesKept, IInv
  <2> QED BY <1>2, <1>5, <2>1 DEF IInv
<1>8. CASE n \notin DOMAIN procedures
  <2>1. Outputs(procedures') /\ DOMAIN procedures' = DOMAIN procedures \cup {n}
    <3>1. procedures' = WithProcedure(n, l) /\ Outputs(procedures)
      BY <1>2, <1>8 DEF IInv
    <3> QED BY <1>4, <3>1, OutputMore
  <2>2. status' = "parsing" /\ NamesKept'
    BY <1>2, <1>3, <1>5, <1>6, <1>8, <2>1 DEF NamesKept
  <2> QED BY <1>2, <1>5, <2>1, <2>2 DEF IInv
<1> QED BY <1>7, <1>8

LEMMA NoDeclarationKeeps == IInv /\ NoDeclaration => IInv'
<1> SUFFICES ASSUME IInv, NoDeclaration PROVE IInv'
  OBVIOUS
<1>1. /\ At("declaration") /\ parserSuccess' = FALSE /\ status' = "error"
      /\ UNCHANGED <<vocabulary, tokens, todo, blocks, procedures>>
  BY DEF NoDeclaration
<1> QED BY <1>1, Stopped DEF At

LEMMA EndOfFileKeeps == IInv /\ EndOfFile => IInv'
<1> SUFFICES ASSUME IInv, EndOfFile PROVE IInv'
  OBVIOUS
<1>1. /\ At("declaration") /\ status' = "parsed" /\ parserSuccess' = parserSuccess
      /\ UNCHANGED <<vocabulary, tokens, todo, blocks, procedures>>
  BY DEF EndOfFile
<1>2. parserSuccess' \in BOOLEAN
  BY <1>1 DEF IInv
<1> QED BY <1>1, <1>2, Stopped DEF At

----------------------------------------------------------------------------
LEMMA Initially == Init => IInv
<1> SUFFICES ASSUME Init PROVE IInv
  OBVIOUS
<1>1. /\ todo = <<"declaration">> /\ blocks = <<>> /\ procedures = [n \in {} |-> <<>>]
      /\ parserSuccess = FALSE /\ status = "parsing"
  BY DEF Init
<1>2. PICK t \in vocabulary.words \cup {"eof"} : tokens = <<t>>
  BY DEF Init
<1>3. tokens \in Seq(vocabulary.words \cup {"eof"}) /\ tokens # <<>> /\ Len(tokens) = 1
  BY <1>2
<1>4. Shape(todo, blocks)
  BY <1>1, NoBlocks
<1>5. DOMAIN procedures = {}
  BY <1>1
<1>6. Outputs(procedures)
  <2>1. procedures = [m \in DOMAIN procedures |-> procedures[m]]
    BY <1>1
  <2> QED BY <1>5, <2>1 DEF Outputs
<1>7. Tracked(tokens, todo, blocks, DOMAIN procedures)
  <2>1. Head(todo) # "name" /\ ~(1 > 1)
    BY <1>1
  <2>2. NameAt(tokens) = {}
    <3>1. 2 .. 1 - 1 = {}
      OBVIOUS
    <3> QED BY <1>3, <3>1 DEF NameAt
  <2>3. NamedAt(NameAt(tokens), tokens, DOMAIN procedures)
    BY <1>5, <2>2 DEF NamedAt
  <2> QED BY <1>1, <1>3, <2>1, <2>3 DEF Tracked
<1>8. NamesKept
  BY <1>1, <1>7 DEF NamesKept
<1> QED BY <1>1, <1>3, <1>4, <1>6, <1>8 DEF IInv

LEMMA Stuttering == IInv /\ UNCHANGED vars => IInv'
<1> SUFFICES ASSUME IInv, UNCHANGED vars PROVE IInv'
  OBVIOUS
<1>1. /\ vocabulary' = vocabulary /\ tokens' = tokens /\ todo' = todo /\ blocks' = blocks
      /\ procedures' = procedures /\ parserSuccess' = parserSuccess /\ status' = status
  BY DEF vars
<1>2. NamesKept'
  BY <1>1 DEF IInv, NamesKept
<1> QED BY <1>1, <1>2 DEF IInv

LEMMA Inductive == IInv /\ [Next]_vars => IInv'
<1> SUFFICES ASSUME IInv, [Next]_vars PROVE IInv'
  OBVIOUS
<1>1. CASE ParenOpen
  BY <1>1, ParenOpenKeeps
<1>2. CASE ParenClose
  BY <1>2, ParenCloseKeeps
<1>3. CASE BraceOpen
  BY <1>3, BraceOpenKeeps
<1>4. CASE If
  BY <1>4, IfKeeps
<1>5. CASE ParseOperand
  BY <1>5, ParseOperandKeeps
<1>6. CASE MinusNumber
  BY <1>6, MinusNumberKeeps
<1>7. CASE ParseComparison
  BY <1>7, ParseComparisonKeeps
<1>8. CASE ParseAssignment
  BY <1>8, ParseAssignmentKeeps
<1>9. CASE ParseLoop
  BY <1>9, ParseLoopKeeps
<1>10. CASE ParseBranch
  BY <1>10, ParseBranchKeeps
<1>11. CASE ParseJump
  BY <1>11, ParseJumpKeeps
<1>12. CASE ParseCall
  BY <1>12, ParseCallKeeps
<1>13. CASE ParseStdout
  BY <1>13, ParseStdoutKeeps
<1>14. CASE ParsePushOrPop
  BY <1>14, ParsePushOrPopKeeps
<1>15. CASE NoStatement
  BY <1>15, NoStatementKeeps
<1>16. CASE CheckStatement
  BY <1>16, CheckStatementKeeps
<1>17. CASE Assign
  BY <1>17, AssignKeeps
<1>18. CASE Semicolon
  BY <1>18, SemicolonKeeps
<1>19. CASE AfterSource
  BY <1>19, AfterSourceKeeps
<1>20. CASE LoopCondition
  BY <1>20, LoopConditionKeeps
<1>21. CASE Text
  BY <1>21, TextKeeps
<1>22. CASE ParseRegister
  BY <1>22, ParseRegisterKeeps
<1>23. CASE CloseBlock
  BY <1>23, CloseBlockKeeps
<1>24. CASE Else
  BY <1>24, ElseKeeps
<1>25. CASE EndStatement
  BY <1>25, EndStatementKeeps
<1>26. CASE ParseProcedure
  BY <1>26, ParseProcedureKeeps
<1>27. CASE ProcedureName
  BY <1>27, ProcedureNameKeeps
<1>28. CASE Declare
  BY <1>28, DeclareKeeps
<1>29. CASE NoDeclaration
  BY <1>29, NoDeclarationKeeps
<1>30. CASE EndOfFile
  BY <1>30, EndOfFileKeeps
<1>31. CASE UNCHANGED vars
  BY <1>31, Stuttering
<1> QED
  BY <1>1, <1>2, <1>3, <1>4, <1>5, <1>6, <1>7, <1>8, <1>9, <1>10, <1>11, <1>12, <1>13, <1>14,
     <1>15, <1>16, <1>17, <1>18, <1>19, <1>20, <1>21, <1>22, <1>23, <1>24, <1>25, <1>26, <1>27,
     <1>28, <1>29, <1>30, <1>31 DEF Next

LEMMA Always == Spec => []IInv
BY Initially, Inductive, PTL DEF Spec

----------------------------------------------------------------------------
(* What the invariant says of the statements.                              *)
LEMMA GrowingIs ==
  ASSUME NEW s, s \in Growing \/ s \in Flat, Len(s.args) <= 2
  PROVE  IsStatement(s)
<1>1. /\ s.tag \in Tags \cup {"else", "end"} /\ s.reg \in Registers \cup {None} /\ s.op \in Ops
      /\ s.name \in Names \cup {None} /\ s.args \in Seq(OperandType)
  BY DEF Growing, Flat
<1>2. Range(s.args) \subseteq OperandType
  BY <1>1, ElementOfSeq DEF Range
<1> QED BY <1>1, <1>2 DEF IsStatement, Ops

LEMMA ListIs ==
  ASSUME NEW l \in Seq(Flat), ListFits(l), NEW s \in Range(l)
  PROVE  IsStatement(s) /\ s.blocks = <<>>
<1>1. PICK k \in 1 .. Len(l) : s = l[k]
  BY DEF Range
<1>2. s \in Flat /\ FlatFits(s)
  BY <1>1, ElementOfSeq DEF ListFits
<1>3. Len(s.args) <= 2 /\ s.blocks = <<>>
  BY <1>2 DEF FlatFits, Flat
<1> QED BY <1>2, <1>3, GrowingIs

(* The parser's state is well formed, for any source: the statements being *)
(* filled and those in the output have the fields of their types, and a    *)
(* list is flat, the blocks of its statements having been copied into it.  *)
THEOREM ParserTypes == Spec => []TypeOK
<1>1. IInv => TypeOK
  <2> SUFFICES ASSUME IInv PROVE TypeOK
    OBVIOUS
  <2>1. /\ tokens \in Seq(vocabulary.words \cup {"eof"}) /\ tokens # <<>> /\ parserSuccess \in BOOLEAN
        /\ status \in {"parsing", "parsed", "error", "redeclared"}
        /\ blocks \in Seq(Block) /\ StatementsFit(blocks) /\ Outputs(procedures)
    BY DEF IInv, Shape
  <2>2. ASSUME NEW k \in DOMAIN blocks PROVE IsStatement(blocks[k].stmt)
    <3>1. k \in 1 .. Len(blocks)
      BY <2>1
    <3>2. blocks[k] \in Block /\ Len(blocks[k].stmt.args) <= 2
      BY <2>1, <3>1, ElementOfSeq DEF StatementsFit
    <3> QED BY <3>2, GrowingIs DEF Block
  <2>3. ASSUME NEW l \in {b.list : b \in Range(blocks)} \cup Range(procedures)
        PROVE  l \in Seq(Flat) /\ ListFits(l)
    <3>1. CASE l \in Range(procedures)
      BY <2>1, <3>1 DEF Range, Outputs
    <3>2. CASE l \in {b.list : b \in Range(blocks)}
      <4>1. PICK k \in 1 .. Len(blocks) : l = blocks[k].list
        BY <2>1, <3>2 DEF Range
      <4>2. blocks[k] \in Block /\ ListFits(blocks[k].list)
        BY <2>1, <4>1, ElementOfSeq DEF StatementsFit
      <4> QED BY <4>1, <4>2 DEF Block
    <3> QED BY <3>1, <3>2
  <2> QED BY <2>1, <2>2, <2>3, ListIs DEF TypeOK
<1> QED BY <1>1, Always, PTL

(* No procedure is lost to another of its name, however many a source has: *)
(* when all of it is parsed, no name stands behind proc twice, and a       *)
(* source is refused as a redeclaration only when one does (Parse).        *)
THEOREM NamesAreUnique == Spec => []NamesUnique
<1>1. IInv => NamesUnique
  <2> SUFFICES ASSUME IInv PROVE NamesUnique
    OBVIOUS
  <2>1. tokens \in Seq(vocabulary.words \cup {"eof"}) /\ Len(tokens) > 0
    BY EmptySeq DEF IInv
  <2>2. PICK c, n : c = Consumed /\ n = Len(tokens) - 1
    OBVIOUS
  <2>3. n \in Nat /\ Len(c) = n /\ \A k \in 1 .. n : c[k] = tokens[k]
    BY <2>1, <2>2, FrontOf DEF Consumed
  <2>4. PICK P : P = {k \in 2 .. Len(c) : c[k - 1] = "proc"}
    OBVIOUS
  <2>5. \A k \in 2 .. n : k - 1 \in 1 .. n /\ k \in 1 .. n
    BY <2>3
  <2>6. P = NameAt(tokens) /\ \A k \in P : c[k] = tokens[k]
    BY <2>2, <2>3, <2>4, <2>5 DEF NameAt
  <2>7. (\E j, k \in P : j # k /\ c[j] = c[k]) <=> Repeated(tokens)
    BY <2>6 DEF Repeated
  <2>8. status = "redeclared" => Repeated(tokens)
    BY DEF IInv, NamesKept
  <2>9. ASSUME status = "parsed" PROVE ~Repeated(tokens)
    <3>1. Tracked(tokens, todo, blocks, DOMAIN procedures) /\ Head(todo) = "declaration"
      BY <2>9 DEF IInv, NamesKept
    <3>2. blocks = <<>>
      <4>1. PICK v : Fits(todo, v, blocks) /\ blocks \in Seq(Block)
        BY DEF IInv, Shape
      <4>2. todo[1] = "declaration"
        <5>1. todo \in Seq(Steps) /\ todo # <<>>
          BY <4>1 DEF Fits, Leads
        <5> QED BY <3>1, <5>1
      <4>3. Len(blocks) = 0
        BY <4>1, <4>2, NoMoreSteps
      <4> QED BY <4>1, <4>3, EmptySeq
    <3>3. NamedAt(NameAt(tokens), tokens, DOMAIN procedures)
      BY <3>1, <3>2 DEF Tracked
    <3> QED BY <3>3 DEF NamedAt, Repeated
  <2> QED BY <2>2, <2>4, <2>7, <2>8, <2>9 DEF NamesUnique
<1> QED BY <1>1, Always, PTL

(* What the parser puts out is what the code generator takes for granted,  *)
(* for any source: conditions are whole, a branch has one, blocks are      *)
(* nested, and an else stands in a branch (Parse, and GenerateCode, which  *)
(* checks none of it).                                                     *)
THEOREM OutputFits == Spec => []FitsCodeGen
<1>1. IInv => FitsCodeGen
  <2> SUFFICES ASSUME IInv PROVE FitsCodeGen
    OBVIOUS
  <2>1. ASSUME NEW l \in Range(procedures) PROVE l \in Seq(Flat) /\ ListFits(l)
    <3>1. Outputs(procedures)
      BY DEF IInv
    <3> QED BY <3>1 DEF Range, Outputs
  <2> QED BY <2>1, ListSuits DEF FitsCodeGen
<1> QED BY <1>1, Always, PTL
=============================================================================
