----------------------------- MODULE JitProofs -----------------------------
(***************************************************************************)
(* The processor stays in the instructions the compiler generated, from    *)
(* the start procedure's first one until that procedure returns: behind    *)
(* every instruction that lets it, and wherever a jump, a call or a return *)
(* goes, another instruction starts.  And what it does there is what the   *)
(* program says: the second half shows, instruction by instruction, that   *)
(* the code implements Source.                                             *)
(***************************************************************************)
EXTENDS Jit, JumpProofs, ItemProofs, WellFoundedInduction

(* An offset the processor may be at.                                      *)
Runnable(q) == q \in DOMAIN code.at /\ code.at[q].op \notin {"torn", "data"}

(* The inductive invariant: the machine is off until all is compiled, and  *)
(* it is and will return to where it can run.                              *)
MachineTame ==
  /\ run # "off" => phase = "done"
  /\ run = "on" => Runnable(pc)
  /\ run = "off" => stack = <<>>
  /\ stack \in Seq(Nat)
  /\ \A k \in 1 .. Len(stack) : Runnable(stack[k])

----------------------------------------------------------------------------
(* Behind an instruction that is no jump and no return another one starts: *)
(* the code ends with a return and a literal is behind a jump.             *)
LEMMA NextRunnable ==
  ASSUME IInv, JInv, phase = "done",
         NEW p \in DOMAIN code.at, code.at[p].op \notin {"jmp", "ret", "data"}
  PROVE  Runnable(p + code.at[p].len)
<1> DEFINE q == p + code.at[p].len
<1>1. /\ NoneTorn(code) /\ Disjoint(code) /\ Tiled(code)
      /\ code.len - 1 \in DOMAIN code.at /\ code.at[code.len - 1].op = "ret"
  BY DEF IInv, CodeIntact, Intact, JInv, StartBuilt
<1>2. /\ code.len \in Nat
      /\ \A d \in DOMAIN code.at :
           d \in Nat /\ code.at[d].len \in Nat \ {0} /\ d + code.at[d].len <= code.len
  BY CodeFacts DEF IsBuffer, Instruction
<1>3. q \in DOMAIN code.at
  <2> SUFFICES ASSUME q = code.len PROVE FALSE
    BY <1>1 DEF Tiled
  <2>1. p # code.len - 1 /\ p < code.len
    BY <1>1, <1>2
  <2>2. code.len - 1 \in p + 1 .. p + code.at[p].len - 1
    BY <2>1, <1>2
  <2> QED BY <2>2, <1>1 DEF Disjoint
<1>4. code.at[q].op # "data"
  <2> SUFFICES ASSUME code.at[q].op = "data" PROVE FALSE
    OBVIOUS
  <2>1. q - 5 \in DOMAIN code.at /\ code.at[q - 5].op = "jmp" /\ code.at[q - 5].len = 5
    BY <1>3 DEF JInv, DataGuarded
  <2>2. q - 5 # p
    BY <2>1
  <2>3. CASE q - 5 < p
    <3>1. p \in (q - 5) + 1 .. (q - 5) + code.at[q - 5].len - 1
      BY <2>1, <2>3, <1>2
    <3> QED BY <3>1, <2>1, <1>1 DEF Disjoint
  <2>4. CASE p < q - 5
    <3>1. q - 5 \in p + 1 .. p + code.at[p].len - 1
      BY <2>1, <2>4, <1>2
    <3> QED BY <3>1, <2>1, <1>1 DEF Disjoint
  <2> QED BY <2>1, <2>2, <2>3, <2>4, <1>2
<1> QED BY <1>1, <1>3, <1>4 DEF Runnable, NoneTorn

(* Where a jump or a call goes an instruction starts.                      *)
LEMMA TargetRunnable ==
  ASSUME IInv, JInv, phase = "done",
         NEW p \in DOMAIN code.at, code.at[p].op \in Transfers
  PROVE  Runnable(code.at[p].to)
<1>1. Good(code.at[p].to, Slots, code) /\ code.at[p].to <= entry /\ entry < code.len
  BY DEF JInv, JumpsLand, StartBuilt
<1>2. code.at[p].to # code.len
  BY <1>1, CodeFacts DEF Good, IInv, TypeOK
<1> QED BY <1>1, <1>2 DEF Good, Lands, Runnable, IInv, CodeIntact, Intact, NoneTorn

(* And so at the entry.                                                    *)
LEMMA EntryRunnable ==
  ASSUME IInv, JInv, phase = "done"
  PROVE  Runnable(entry)
<1>1. Good(entry, Slots, code) /\ entry < code.len
  BY DEF JInv, StartBuilt
<1>2. entry # code.len
  BY <1>1, CodeFacts DEF IInv, TypeOK
<1> QED BY <1>1, <1>2 DEF Good, Lands, Runnable, IInv, CodeIntact, Intact, NoneTorn

----------------------------------------------------------------------------
(* The compiler does not run the machine and has stopped when it runs.     *)
LEMMA CompileTame ==
  ASSUME MachineTame, Compile, UNCHANGED machine
  PROVE  MachineTame'
<1> SUFFICES ASSUME phase = "done" PROVE FALSE
  BY DEF MachineTame, machine
<1>1. ASSUME NEW n \in Names, BeginProcedure(n) PROVE FALSE
  BY <1>1 DEF BeginProcedure
<1>5. ASSUME NEW p \in uncalled, LinkCall(p) \/ MissingProcedure(p) PROVE FALSE
  BY <1>5 DEF LinkCall, MissingProcedure
<1>6. CASE CompileStart \/ Compiled
  BY <1>6 DEF CompileStart, Compiled
<1>2. CASE \/ EndProcedure \/ StrayLoopControl
           \/ \E s \in Statement : EnterStatement(s) \/ BadCondition(s)
  BY <1>2 DEF EndProcedure, StrayLoopControl, EnterStatement, BadCondition,
              InStatementList, InPart
<1>3. CASE \/ \E n \in BodyLens : EmitStraight(n)
           \/ EmitLonghand \/ EmitBreak \/ EmitContinue \/ EmitReturn \/ EmitCallStatement
           \/ \E n \in TextLens : EmitText(n)
  BY <1>3 DEF EmitStraight, EmitLonghand, EmitBreak, EmitContinue, EmitReturn,
              EmitCallStatement, EmitText, Emitting, InPart
<1>4. CASE EndLoop \/ BeginElse \/ EndThen \/ EndElse \/ LeaveStatement
  BY <1>4 DEF EndLoop, BeginElse, EndThen, EndElse, LeaveStatement, InPart
<1> QED BY <1>1, <1>2, <1>3, <1>4, <1>5, <1>6 DEF Compile

(* One instruction.                                                        *)
LEMMA ExecuteTame ==
  ASSUME IInv, JInv, MachineTame, Launch \/ Execute, UNCHANGED vars
  PROVE  MachineTame'
<1>0. code' = code /\ phase' = phase
  BY DEF vars
<1>1. ASSUME \/ run' # "on"
             \/ run' = "on" /\ phase = "done" /\ Runnable(pc'),
             stack' = stack, run' # "off", phase = "done"
      PROVE  MachineTame'
  BY <1>0, <1>1 DEF MachineTame, Runnable
<1>2. CASE Launch
  BY <1>1, <1>2, EntryRunnable DEF Launch
<1> SUFFICES ASSUME Execute PROVE MachineTame'
  BY <1>2
<1>3. run = "on" /\ phase = "done" /\ pc \in DOMAIN code.at
  BY DEF Execute, FallThrough, ExecCmp, ExecJmp, ExecJcc, ExecCall, ExecRet, Fetches, MachineTame
<1>4. CASE FallThrough \/ ExecCmp
  <2>1. /\ code.at[pc].op \notin {"jmp", "ret", "data"}
        /\ run' = run /\ stack' = stack /\ pc' = pc + code.at[pc].len
    BY <1>4 DEF FallThrough, ExecCmp, Fetches, Here
  <2> QED BY <2>1, <1>1, <1>3, NextRunnable
<1>5. CASE ExecJmp \/ ExecJcc
  <2>1. /\ code.at[pc].op \in {"jmp", "jcc"} /\ run' = run /\ stack' = stack
        /\ \/ pc' = code.at[pc].to
           \/ code.at[pc].op = "jcc" /\ pc' = pc + code.at[pc].len
    BY <1>5 DEF ExecJmp, ExecJcc, Fetches, Here
  <2>2. Runnable(code.at[pc].to)
    BY <2>1, <1>3, TargetRunnable DEF Transfers
  <2>3. code.at[pc].op = "jcc" => Runnable(pc + code.at[pc].len)
    BY <1>3, NextRunnable
  <2> QED BY <2>1, <2>2, <2>3, <1>1, <1>3
<1>6. CASE ExecCall
  <2>1. code.at[pc].op = "call"
    BY <1>6 DEF ExecCall, Fetches, Here
  <2>2. CASE run' = "overflow" /\ stack' = stack
    BY <2>2, <1>1, <1>3, SMTT(30)
  <2>3. CASE run' = run /\ pc' = code.at[pc].to /\ stack' = Append(stack, pc + code.at[pc].len)
    <3>1. Runnable(code.at[pc].to) /\ Runnable(pc + code.at[pc].len)
      BY <2>1, <1>3, TargetRunnable, NextRunnable DEF Transfers
    <3>2. pc + code.at[pc].len \in Nat
      BY <3>1, CodeFacts DEF Runnable, IsBuffer
    <3>3. /\ stack' \in Seq(Nat) /\ Len(stack') = Len(stack) + 1
          /\ \A k \in 1 .. Len(stack') : stack'[k] = stack[k] \/ k = Len(stack) + 1
          /\ stack'[Len(stack) + 1] = pc + code.at[pc].len
      BY <2>3, <3>2, AppendProperties DEF MachineTame
    <3>4. \A k \in 1 .. Len(stack') : Runnable(stack'[k])
      <4>1. Len(stack) \in Nat
        BY LenProperties DEF MachineTame
      <4>2. \A k \in 1 .. Len(stack') : k \in 1 .. Len(stack) \/ k = Len(stack) + 1
        BY <3>3, <4>1
      <4>3. \A k \in 1 .. Len(stack) : Runnable(stack[k])
        BY DEF MachineTame
      <4> QED BY <3>1, <3>3, <4>2, <4>3
    <3> QED BY <2>3, <3>1, <3>3, <3>4, <1>0, <1>3 DEF MachineTame, Runnable
  <2> QED BY <2>2, <2>3, <1>6 DEF ExecCall, Here
<1>7. CASE ExecRet
  <2>1. CASE run' = "exited" /\ stack' = stack
    BY <2>1, <1>1, <1>3
  <2>2. CASE /\ stack # <<>> /\ run' = run /\ pc' = stack[Len(stack)]
             /\ stack' = SubSeq(stack, 1, Len(stack) - 1)
    <3>1. stack \in Seq(Nat) /\ Len(stack) \in 1 .. Len(stack) /\ Len(stack) \in Nat
      BY <2>2, EmptySeq, LenProperties DEF MachineTame
    <3>2. Runnable(pc')
      BY <2>2, <3>1 DEF MachineTame
    <3>3. /\ stack' \in Seq(Nat) /\ Len(stack') = Len(stack) - 1
          /\ \A k \in 1 .. Len(stack') : stack'[k] = stack[k]
      <4>1. /\ Len(stack) - 1 \in Int /\ 1 \in Int
            /\ \A k \in 1 .. Len(stack) - 1 : stack[k] \in Nat
        BY <3>1, ElementOfSeq
      <4>2. /\ stack' \in Seq(Nat)
            /\ Len(stack') = IF 1 <= Len(stack) - 1 THEN (Len(stack) - 1) - 1 + 1 ELSE 0
            /\ \A k \in 1 .. (Len(stack) - 1) - 1 + 1 : stack'[k] = stack[1 + k - 1]
        BY <4>1, <2>2, SubSeqProperties
      <4>3. /\ (Len(stack) - 1) - 1 + 1 = Len(stack) - 1
            /\ \A k \in 1 .. Len(stack) - 1 : 1 + k - 1 = k
            /\ ~(1 <= Len(stack) - 1) => Len(stack) - 1 = 0
        <5> DEFINE m == Len(stack)
        <5>1. m \in Nat /\ 1 <= m
          BY <3>1
        <5> HIDE DEF m
        <5>2. /\ (m - 1) - 1 + 1 = m - 1
              /\ \A k \in 1 .. m - 1 : 1 + k - 1 = k
              /\ ~(1 <= m - 1) => m - 1 = 0
          BY <5>1, SMTT(30)
        <5> QED BY <5>2 DEF m
      <4>4. Len(stack') = Len(stack) - 1
        BY <4>2, <4>3
      <4>5. \A k \in 1 .. Len(stack) - 1 : stack'[k] = stack[k]
        BY <4>2, <4>3, Zenon
      <4> QED BY <4>2, <4>4, <4>5, Zenon
    <3>4. \A k \in 1 .. Len(stack') : Runnable(stack'[k])
      BY <3>1, <3>3 DEF MachineTame
    <3> QED BY <2>2, <3>2, <3>3, <3>4, <1>0, <1>3 DEF MachineTame, Runnable
  <2> QED BY <2>1, <2>2, <1>7 DEF ExecRet
<1> QED BY <1>4, <1>5, <1>6, <1>7 DEF Execute

----------------------------------------------------------------------------
(* What Jit does, without its fairness.                                    *)
JitRuns == JitInit /\ [][JitNext]_jitVars

(* The compiler works as if there were no processor.                       *)
LEMMA JitCompiles == JitRuns => Spec
<1>1. [JitNext]_jitVars => [Next]_vars
  BY DEF JitNext, Processor, Finished, jitVars, Next
<1>2. JitInit => Init
  BY DEF JitInit
<1> QED BY <1>1, <1>2, PTL DEF JitRuns, Spec

LEMMA MachineInvariant ==
  ASSUME SafeForms PROVE JitRuns => []MachineTame
<1>1. JitInit => MachineTame
  BY DEF JitInit, MachineTame
<1>2. IInv /\ JInv /\ MachineTame /\ [JitNext]_jitVars => MachineTame'
  <2> SUFFICES ASSUME IInv, JInv, MachineTame, [JitNext]_jitVars PROVE MachineTame'
    OBVIOUS
  <2>1. CASE Compile /\ UNCHANGED machine
    BY <2>1, CompileTame
  <2>2. CASE Processor
    BY <2>2, ExecuteTame DEF Processor
  <2>3. CASE UNCHANGED jitVars
    BY <2>3 DEF MachineTame, Runnable, jitVars, vars, machine
  <2> QED BY <2>1, <2>2, <2>3 DEF JitNext, Finished
<1> QED BY <1>1, <1>2, JitCompiles, Invariant, JumpsInvariant, PTL DEF JitRuns

LEMMA TameIsNotWild == MachineTame => NeverWild
  BY DEF MachineTame, NeverWild, Runnable, Here

(* Whatever is compiled and however it branches and calls, the processor   *)
(* is never inside an instruction, in a string literal or behind the code. *)
THEOREM NeverLost ==
  ASSUME SafeForms PROVE JitSpec => []NeverWild
<1>1. JitSpec => JitRuns
  BY PTL DEF JitSpec, JitRuns
<1> QED BY <1>1, TameIsNotWild, MachineInvariant, PTL

----------------------------------------------------------------------------
(* Where the processor is in the program.                                  *)

(* Compiled code, with all that is known of it.                            *)
ReadyCode ==
  /\ IInv /\ phase = "done" /\ AllCompiled /\ StartLaid
  /\ CallsReachEntry /\ ConditionExact /\ LoopControlBinds /\ ConditionsCompiled
  /\ LoopInv /\ EmittedItem /\ JInv

(* Offset q is where item i starts, or has only nops before it.            *)
Arriving(q, i) ==
  /\ i \in 1 .. Len(src) /\ Solid(i) /\ q <= src[i].at
  /\ \A k \in 1 .. i - 1 : Solid(k) => CodeEnd(k) <= q
  /\ \A p \in DOMAIN code.at : q <= p /\ p < src[i].at => code.at[p] = Nop
  /\ q < src[i].at => \E j \in 1 .. i - 1 : Solid(j)

LEMMA LeastExists ==
  ASSUME NEW S \in SUBSET Nat, S # {}
  PROVE  \E x \in S : \A y \in S : x <= y
<1>1. PICK R : R = {ss \in Nat \X Nat : ss[1] < ss[2]}
  OBVIOUS
<1>2. IsWellFoundedOn(R, Nat)
  BY <1>1, NatLessThanWellFounded DEF OpToRel
<1>3. PICK x \in S : \A y \in S : ~(<<y, x>> \in R)
  BY <1>2, WFMin
<1>4. \A y \in S : ~(y < x)
  BY <1>1, <1>3
<1> QED BY <1>4

(* The operators of Source are those of the program.                       *)
LEMMA SameOperators ==
  ASSUME NEW s, NEW i
  PROVE  /\ Program!Opener(s, i) = Opener(s, i)
         /\ Program!MatchEnd(s, i) = MatchEnd(s, i)
         /\ Program!InnermostLoop(s, i) = InnermostLoop(s, i)
         /\ Program!After(s, i) = After(s, i)
<1>1. Program!Opener(s, i) = Opener(s, i)
  BY DEF Program!Opener, Opener, Program!Greatest, Greatest, BlockTags, Program!BlockTags
<1>2. Program!InnermostLoop(s, i) = InnermostLoop(s, i)
  BY DEF Program!InnermostLoop, InnermostLoop, Program!LoopsAround, LoopsAround,
         Program!ProcOf, ProcOf, Program!Greatest, Greatest
<1>3. Program!MatchEnd(s, i) = MatchEnd(s, i)
  BY DEF Program!MatchEnd, MatchEnd, Program!Least, Least, EndsOf, Program!EndsOf
<1>4. Program!ElsesOf(s, i) = ElsesOf(s, i)
  BY <1>3 DEF ElsesOf, Program!ElsesOf
<1>5. Program!Least(ElsesOf(s, i)) = Least(ElsesOf(s, i))
  BY DEF Least, Program!Least
<1>6. Program!After(s, i) = After(s, i)
  BY <1>3, <1>4, <1>5 DEF Program!After, After, Program!SimpleTags, SimpleTags
<1> QED BY <1>1, <1>2, <1>3, <1>6

LEMMA SolidIs == ASSUME NEW k PROVE Solid(k) <=> ~Program!Transparent(src, k)
<1>1. Program!Opener(src, k) = Opener(src, k)
  BY SameOperators
<1> QED BY <1>1 DEF Solid, Program!Transparent, Program!NoCond, NoCond

(* The first item from k on that does something.                           *)
LEMMA Settles ==
  ASSUME ReadyCode, NEW k \in 1 .. Len(src)
  PROVE  /\ \E s \in k .. Len(src) :
              Program!Settled(src, k) = s /\ Solid(s) /\ \A j \in k .. s - 1 : ~Solid(j)
         /\ \A s \in k .. Len(src) :
              Solid(s) /\ (\A j \in k .. s - 1 : ~Solid(j)) => Program!Settled(src, k) = s
<1>0. Len(src) \in Nat
  BY DEF ReadyCode, AllCompiled
<1>1. PICK S : S = {x \in k .. Len(src) : Solid(x)}
  OBVIOUS
<1>2. Len(src) \in S
  BY <1>0, <1>1 DEF ReadyCode, AllCompiled, Solid
<1>3. S \in SUBSET Nat
  BY <1>0, <1>1
<1>4. PICK s \in S : \A y \in S : s <= y
  BY <1>2, <1>3, LeastExists
<1>5. s \in k .. Len(src) /\ Solid(s) /\ \A j \in k .. s - 1 : ~Solid(j)
  BY <1>0, <1>1, <1>4
<1>6. ASSUME NEW u \in k .. Len(src), Solid(u), \A j \in k .. u - 1 : ~Solid(j) PROVE u = s
  BY <1>0, <1>5, <1>6
<1>7. Program!Settled(src, k)
        = CHOOSE u \in k .. Len(src) : Solid(u) /\ \A j \in k .. u - 1 : ~Solid(j)
  BY SolidIs DEF Program!Settled
<1>8. Program!Settled(src, k) = s
  BY <1>5, <1>6, <1>7
<1> QED BY <1>5, <1>6, <1>8

(* The order of the code.                                                  *)
LEMMA EndsOrdered ==
  ASSUME ReadyCode
  PROVE  /\ Len(src) \in Nat
         /\ \A j \in 1 .. Len(src) :
              /\ CodeEnd(j) \in Nat /\ src[j].at \in Nat /\ src[j].at <= CodeEnd(j)
              /\ BodyPtr(j) \in Nat /\ src[j].at <= BodyPtr(j) /\ BodyPtr(j) <= CodeEnd(j)
              /\ ~Solid(j) => CodeEnd(j) = src[j].at
         /\ \A j, k \in 1 .. Len(src) : j < k => CodeEnd(j) <= src[k].at
<1>0. Len(src) \in Nat
  BY DEF ReadyCode, AllCompiled
<1>1. ASSUME NEW j \in 1 .. Len(src)
      PROVE  /\ CodeEnd(j) \in Nat /\ src[j].at \in Nat /\ src[j].at <= CodeEnd(j)
             /\ BodyPtr(j) \in Nat /\ src[j].at <= BodyPtr(j) /\ BodyPtr(j) <= CodeEnd(j)
  BY ItemTypes, CodeEndTypes, SMTT(30) DEF ReadyCode, AllCompiled
<1>2. ASSUME NEW j \in 1 .. Len(src), ~Solid(j) PROVE CodeEnd(j) = src[j].at
  BY <1>2, NoCode DEF ReadyCode, Solid
<1>3. ASSUME NEW j \in 1 .. Len(src), NEW k \in 1 .. Len(src), j < k
      PROVE  CodeEnd(j) <= src[k].at
  <2>1. j \in 1 .. Len(src) - 1 /\ j + 1 \in 1 .. Len(src) /\ j + 1 <= k
    BY <1>0, <1>3
  <2>2. Laid(j) /\ src[j + 1].at <= src[k].at
    BY <2>1 DEF ReadyCode, AllCompiled
  <2> QED BY <1>1, <2>1, <2>2, SMTT(30) DEF Laid
<1> QED BY <1>0, <1>1, <1>2, <1>3

(* Behind the code of item k the next item comes.                          *)
LEMMA ArrivesBehind ==
  ASSUME ReadyCode, NEW k \in 1 .. Len(src) - 1, CodeEnd(k) \in DOMAIN code.at
  PROVE  Arriving(CodeEnd(k), Program!Settled(src, k + 1))
<1>0. /\ Len(src) \in Nat /\ k \in 1 .. Len(src) /\ k + 1 \in 1 .. Len(src)
      /\ DOMAIN code.at \subseteq Nat
  BY EndsOrdered DEF ReadyCode, IInv, TypeOK, IsBuffer
<1>1. PICK s \in k + 1 .. Len(src) :
        Program!Settled(src, k + 1) = s /\ Solid(s) /\ \A j \in k + 1 .. s - 1 : ~Solid(j)
  BY <1>0, Settles
<1>2. PICK q : q = CodeEnd(k)
  OBVIOUS
<1>3. s \in 1 .. Len(src) /\ k < s
  BY <1>0, <1>1
<1>4. q \in Nat /\ q <= src[s].at
  BY <1>0, <1>2, <1>3, EndsOrdered
<1>5. ASSUME NEW n \in 1 .. s - 1, Solid(n) PROVE CodeEnd(n) <= q
  <2>1. n \in 1 .. Len(src) /\ n <= k
    BY <1>0, <1>1, <1>5
  <2>2. CASE n < k
    <3>1. CodeEnd(n) <= src[k].at /\ src[k].at <= q
      BY <1>0, <1>2, <2>1, <2>2, EndsOrdered
    <3>2. CodeEnd(n) \in Nat /\ src[k].at \in Nat
      BY <1>0, <2>1, EndsOrdered
    <3> QED BY <1>4, <3>1, <3>2
  <2> QED BY <1>0, <1>2, <1>4, <2>1, <2>2
<1>6. ASSUME NEW p \in DOMAIN code.at, q <= p, p < src[s].at
      PROVE  code.at[p] = Nop /\ \E j \in 1 .. s - 1 : Solid(j)
  <2>1. PICK S : S = {m \in k + 1 .. s : p < src[m].at}
    OBVIOUS
  <2>2. S \in SUBSET Nat /\ s \in S
    BY <1>0, <1>3, <1>6, <2>1
  <2>3. PICK m \in S : \A y \in S : m <= y
    BY <2>2, LeastExists
  <2>4. PICK n : n = m - 1
    OBVIOUS
  <2>5. /\ n \in k .. s - 1 /\ n \in 1 .. Len(src) - 1 /\ n + 1 = m /\ n \in 1 .. Len(src)
        /\ p < src[m].at
    BY <1>0, <1>3, <2>1, <2>3, <2>4
  <2>6. CodeEnd(n) <= p
    <3>1. CASE n = k
      BY <1>2, <1>6, <3>1
    <3>2. CASE n # k
      <4>1. n \in k + 1 .. s - 1 /\ n \notin S
        BY <1>0, <1>3, <2>3, <2>5, <3>2
      <4>2. ~(p < src[n].at) /\ ~Solid(n)
        BY <1>0, <1>1, <1>3, <2>1, <4>1
      <4>3. CodeEnd(n) = src[n].at /\ src[n].at \in Nat
        BY <2>5, <4>2, EndsOrdered
      <4> QED BY <1>0, <4>2, <4>3
    <3> QED BY <3>1, <3>2
  <2>7. code.at[p] = Nop /\ \E j \in 1 .. n : src[j].tag = "branch"
    BY <2>5, <2>6 DEF ReadyCode, AllCompiled, Laid
  <2>8. PICK j \in 1 .. n : src[j].tag = "branch"
    BY <2>7
  <2>9. j \in 1 .. s - 1 /\ Solid(j)
    BY <1>0, <1>3, <2>5, <2>8 DEF Solid
  <2> QED BY <2>7, <2>9
<1>7. q < src[s].at => \E j \in 1 .. s - 1 : Solid(j)
  BY <1>2, <1>4, <1>6
<1> QED BY <1>1, <1>2, <1>3, <1>4, <1>5, <1>6, <1>7 DEF Arriving

(* And where item j starts, it comes itself.                               *)
LEMMA ArrivesAt ==
  ASSUME ReadyCode, NEW j \in 1 .. Len(src), src[j].at \in DOMAIN code.at
  PROVE  Arriving(src[j].at, Program!Settled(src, j))
<1>0. Len(src) \in Nat
  BY EndsOrdered
<1>1. CASE Solid(j)
  <2>1. j \in j .. Len(src) /\ \A n \in j .. j - 1 : ~Solid(n)
    BY <1>0
  <2>2. Program!Settled(src, j) = j
    BY <1>1, <2>1, Settles
  <2>3. \A n \in 1 .. j - 1 : n \in 1 .. Len(src) /\ n < j
    BY <1>0
  <2>4. \A n \in 1 .. j - 1 : CodeEnd(n) <= src[j].at
    BY <2>3, EndsOrdered
  <2>5. src[j].at \in Nat /\ DOMAIN code.at \subseteq Nat
    BY EndsOrdered DEF ReadyCode, IInv, TypeOK, IsBuffer
  <2>6. /\ src[j].at <= src[j].at /\ ~(src[j].at < src[j].at)
        /\ \A p \in DOMAIN code.at : ~(src[j].at <= p /\ p < src[j].at)
    BY <2>5
  <2> QED BY <1>1, <2>2, <2>4, <2>6 DEF Arriving
<1>2. CASE ~Solid(j)
  <2>1. CodeEnd(j) = src[j].at
    BY <1>2, EndsOrdered
  <2>2. j # Len(src)
    BY <1>2 DEF ReadyCode, AllCompiled, Solid
  <2>3. j \in 1 .. Len(src) - 1 /\ j + 1 \in 1 .. Len(src)
    BY <1>0, <2>2
  <2>4. PICK s \in j + 1 .. Len(src) :
          Program!Settled(src, j + 1) = s /\ Solid(s) /\ \A n \in j + 1 .. s - 1 : ~Solid(n)
    BY <2>3, Settles
  <2>5. s \in j .. Len(src) /\ \A n \in j .. s - 1 : ~Solid(n)
    BY <1>0, <1>2, <2>4
  <2>6. Program!Settled(src, j) = s
    BY <2>4, <2>5, Settles
  <2> QED BY <2>1, <2>3, <2>4, <2>6, ArrivesBehind
<1> QED BY <1>1, <1>2

LEMMA GreatestExists ==
  ASSUME NEW n \in Nat, NEW T \in SUBSET (1 .. n), T # {}
  PROVE  \E x \in T : \A y \in T : y <= x
<1>1. PICK M : M = {m \in Nat : n - m \in T}
  OBVIOUS
<1>2. \A y \in T : y \in Nat /\ n - y \in Nat /\ n - (n - y) = y
  OBVIOUS
<1>3. \A y \in T : n - y \in M
  BY <1>1, <1>2
<1>4. M \in SUBSET Nat
  BY <1>1
<1>5. PICK m \in M : \A y \in M : m <= y
  BY <1>3, <1>4, LeastExists
<1>6. m \in Nat /\ n - m \in T
  BY <1>1, <1>5
<1>7. \A y \in T : y \in Nat /\ m <= n - y
  BY <1>2, <1>3, <1>5
<1>8. \A y \in T : y <= n - m
  BY <1>6, <1>7
<1> QED BY <1>6, <1>8

(* The instruction an item begins with, and the one its code proper does.  *)
LEMMA BodyOp ==
  ASSUME ReadyCode, NEW i \in 1 .. Len(src), Solid(i), src[i].tag \notin BlockTags
  PROVE  /\ code.at[BodyPtr(i)].op \in {"straight", "ret", "jmp", "call"}
         /\ BodyPtr(i) < CodeEnd(i)
<1>0. /\ BodyPtr(i) \in Nat /\ BodyIs(i)
      /\ \A p \in DOMAIN code.at : code.at[p].len \in Nat \ {0}
  BY EndsOrdered DEF ReadyCode, AllCompiled, IInv, TypeOK, IsBuffer, Instruction
<1>1. CASE src[i].tag = "straight"
  BY <1>0, <1>1 DEF BodyIs, CodeEnd, BodyLen
<1>2. CASE src[i].tag \in {"return", "endproc"}
  BY <1>0, <1>2 DEF BodyIs, CodeEnd, BodyLen, Ins
<1>3. CASE src[i].tag = "text"
  <2>1. PICK q : q = code.at[BodyPtr(i)].to
    OBVIOUS
  <2>2. code.at[BodyPtr(i)] = Jmp(q) /\ BodyPtr(i) < q /\ q \in DOMAIN code.at
    BY <1>0, <1>3, <2>1 DEF BodyIs, JumpAt
  <2>3. q \in Nat /\ CodeEnd(i) = BodyPtr(i) + (q + 75 - BodyPtr(i))
    BY <1>3, <2>1, <2>2 DEF CodeEnd, BodyLen, ReadyCode, IInv, TypeOK, IsBuffer
  <2> QED BY <1>0, <2>2, <2>3 DEF Jmp
<1>4. CASE src[i].tag \in {"break", "continue"}
  <2>1. PICK q : code.at[BodyPtr(i)] = Jmp(q)
    BY <1>4 DEF ReadyCode, LoopControlBinds
  <2>2. BodyLen(i) = 5
    BY <1>4 DEF BodyLen
  <2> QED BY <1>0, <2>1, <2>2 DEF CodeEnd, Jmp
<1>5. CASE src[i].tag = "call"
  <2>1. PICK q : code.at[BodyPtr(i)] = CallTo(q)
    BY <1>5 DEF ReadyCode, CallsReachEntry
  <2>2. BodyLen(i) = 5
    BY <1>5 DEF BodyLen
  <2> QED BY <1>0, <2>1, <2>2 DEF CodeEnd, CallTo
<1>6. CASE src[i].tag \in {"else", "end"}
  <2>1. src[i].cond = NoCond
    BY <1>6 DEF ReadyCode, AllCompiled, SourceOK, MarkerTags
  <2>2. src[i].tag = "end" => src[Opener(src, i)].tag = "loop"
    <3>1. src[i].tag = "end" => src[Opener(src, i)].tag # "branch"
      BY DEF Solid
    <3>2. PICK j \in 1 .. i : Opens(src, j, i)
      BY <1>6 DEF ReadyCode, AllCompiled
    <3>3. Opener(src, i) = j
      BY <3>2, OpenerIs DEF ReadyCode, IInv, TypeOK
    <3> QED BY <3>1, <3>2, <3>3 DEF Opens, BlockTags
  <2>3. code.at[src[i].at].op = "jmp"
    <3>1. PICK q : JumpAt(src[i].at, q)
      BY <1>6, <2>2, BlocksJumpRight DEF ReadyCode
    <3> QED BY <3>1 DEF JumpAt, Jmp
  <2>4. BodyPtr(i) = src[i].at /\ BodyLen(i) = 5
    BY <1>6, <2>1, <2>2, EndsOrdered DEF BodyPtr, BodyLen, EndsLoop
  <2> QED BY <1>0, <2>3, <2>4 DEF CodeEnd
<1>7. src[i].tag \in StatementTags \cup MarkerTags /\ src[i].tag \notin {"proc", "longhand"}
  BY <1>0, ItemTypes DEF ReadyCode, Solid, BodyIs
<1> QED
  BY <1>1, <1>2, <1>3, <1>4, <1>5, <1>6, <1>7 DEF StatementTags, MarkerTags, SimpleTags, BlockTags

LEMMA FirstOp ==
  ASSUME ReadyCode, NEW i \in 1 .. Len(src), Solid(i)
  PROVE  /\ src[i].at < CodeEnd(i)
         /\ src[i].cond # NoCond =>
              /\ CmpLen(src[i].cond) \in Nat \ {0}
              /\ BodyPtr(i) = src[i].at + CmpLen(src[i].cond) + 6
              /\ code.at[src[i].at].op = "cmp"
              /\ code.at[src[i].at + CmpLen(src[i].cond)].op = "jcc"
         /\ src[i].cond = NoCond =>
              BodyPtr(i) = src[i].at /\ src[i].tag \notin BlockTags
         /\ code.at[src[i].at].op \in {"cmp", "straight", "ret", "jmp", "call"}
<1>1. CASE src[i].cond # NoCond
  <2>1. CmpLen(src[i].cond) \in Nat \ {0} /\ src[i].at \in Nat
    BY <1>1, ItemTypes DEF ReadyCode
  <2>2. BodyPtr(i) = src[i].at + CmpLen(src[i].cond) + 6
    BY <1>1, <2>1, SMTT(30) DEF BodyPtr
  <2>3. code.at[src[i].at].op = "cmp" /\ code.at[src[i].at + CmpLen(src[i].cond)].op = "jcc"
    BY <1>1 DEF ReadyCode, ConditionExact
  <2> QED BY <1>1, <2>1, <2>2, <2>3, EndsOrdered
<1>2. CASE src[i].cond = NoCond
  <2>1. src[i].tag \notin BlockTags
    BY <1>2 DEF ReadyCode, AllCompiled, SourceOK, Solid, BlockTags
  <2>2. BodyPtr(i) = src[i].at
    BY <1>2, EndsOrdered DEF BodyPtr
  <2> QED BY <1>2, <2>1, <2>2, BodyOp
<1> QED BY <1>1, <1>2

(* The item that an address stands for.                                    *)
LEMMA ItemInside ==
  ASSUME ReadyCode, NEW i \in 1 .. Len(src), Solid(i), NEW q \in Nat,
         src[i].at <= q, q < CodeEnd(i), code.at[q].op # "nop"
  PROVE  ItemAt(q) = i
<1> DEFINE H == {h \in 1 .. Len(src) : src[h].at <= q /\ Solid(h)}
<1>1. H \in SUBSET Int /\ i \in H
  OBVIOUS
<1>2. ASSUME NEW y \in H PROVE y <= i
  <2> SUFFICES ASSUME i < y PROVE FALSE
    BY <1>1
  <2>1. CodeEnd(i) <= src[y].at /\ CodeEnd(i) \in Nat /\ src[y].at \in Nat /\ src[y].at <= q
    BY EndsOrdered
  <2> QED BY <2>1
<1> HIDE DEF H
<1>3. Greatest(H) = i
  BY <1>1, <1>2, GreatestIs
<1> QED BY <1>3 DEF ItemAt, H

LEMMA Located ==
  ASSUME ReadyCode, NEW i, NEW q \in DOMAIN code.at, Arriving(q, i)
  PROVE  /\ i \in 1 .. Len(src) /\ ItemAt(q) = i /\ PhaseAt(q) = Program!PhaseOn(src, i)
         /\ \/ q < src[i].at /\ code.at[q] = Nop
            \/ q = src[i].at /\ code.at[q].op # "nop"
<1>0. /\ i \in 1 .. Len(src) /\ Solid(i) /\ Len(src) \in Nat /\ src[i].at \in Nat /\ q \in Nat
      /\ q <= src[i].at /\ src[i].at < CodeEnd(i)
      /\ \A h \in 1 .. Len(src) : src[h].at \in Nat /\ CodeEnd(h) \in Nat /\ src[h].at <= CodeEnd(h)
  BY EndsOrdered, FirstOp DEF Arriving, ReadyCode, IInv, TypeOK, IsBuffer
<1>1. CASE q = src[i].at
  <2>1. code.at[q].op \in {"cmp", "straight", "ret", "jmp", "call"}
    BY <1>0, <1>1, FirstOp
  <2>2. ItemAt(q) = i
    <3>1. src[i].at <= q /\ q < CodeEnd(i)
      BY <1>0, <1>1
    <3>2. code.at[q].op # "nop"
      BY <2>1
    <3> QED BY <1>0, <3>1, <3>2, ItemInside
  <2>3. src[i].cond # NoCond => code.at[q].op = "cmp"
    BY <1>0, <1>1, FirstOp
  <2>4. src[i].cond = NoCond => code.at[q].op \in {"straight", "ret", "jmp", "call"}
    BY <1>0, <1>1, FirstOp, BodyOp
  <2>5. PhaseAt(q) = Program!PhaseOn(src, i)
    BY <2>1, <2>3, <2>4 DEF PhaseAt, Program!PhaseOn, Program!NoCond, NoCond
  <2> QED BY <1>0, <1>1, <2>1, <2>2, <2>5
<1>2. CASE q < src[i].at
  <2>1. code.at[q] = Nop /\ \E j \in 1 .. i - 1 : Solid(j)
    <3>1. \A p \in DOMAIN code.at : q <= p /\ p < src[i].at => code.at[p] = Nop
      BY DEF Arriving
    <3>2. q <= q
      BY <1>0
    <3> QED BY <1>2, <3>1, <3>2 DEF Arriving
  <2>2. PICK T : T = {h \in 1 .. i - 1 : Solid(h)}
    OBVIOUS
  <2>3. T \in SUBSET (1 .. i - 1) /\ T # {} /\ i - 1 \in Nat
    BY <1>0, <2>1, <2>2, SMTT(30)
  <2>4. PICK g \in T : \A y \in T : y <= g
    BY <2>3, GreatestExists
  <2>5. g \in 1 .. Len(src) /\ g < i /\ Solid(g) /\ src[g].at <= q
    <3>1. g \in 1 .. i - 1 /\ Solid(g) /\ g \in 1 .. Len(src)
      BY <1>0, <2>2
    <3>2. CodeEnd(g) <= q
      BY <3>1 DEF Arriving
    <3> QED BY <1>0, <3>1, <3>2
  <2> DEFINE H == {h \in 1 .. Len(src) : src[h].at <= q /\ Solid(h)}
             N == {h \in g + 1 .. Len(src) : Solid(h)}
  <2>6. H \in SUBSET Int /\ g \in H
    BY <2>5
  <2>7. ASSUME NEW y \in H PROVE y <= g
    <3>1. y < i
      <4> SUFFICES ASSUME i <= y PROVE FALSE
        BY <1>0
      <4>1. src[i].at <= src[y].at
        BY <1>0 DEF ReadyCode, AllCompiled
      <4> QED BY <1>0, <1>2, <4>1
    <3>2. y \in T
      BY <1>0, <2>2, <3>1
    <3> QED BY <2>4, <3>2
  <2>8. N \in SUBSET Int /\ i \in N
    BY <1>0, <2>5
  <2>9. ASSUME NEW y \in N PROVE i <= y
    <3> SUFFICES ASSUME y < i PROVE FALSE
      BY <1>0, <2>5
    <3>1. y \in T
      BY <1>0, <2>2, <2>5
    <3> QED BY <2>4, <2>5, <3>1
  <2> HIDE DEF H, N
  <2>10. Greatest(H) = g /\ Least(N) = i
    BY <2>6, <2>7, <2>8, <2>9, GreatestIs, LeastIs
  <2>11. code.at[q].op = "nop"
    BY <2>1, NotNops
  <2>12. ItemAt(q) = i
    BY <2>10, <2>11 DEF ItemAt, H, N
  <2>13. PhaseAt(q) = Program!PhaseOn(src, i)
    BY <2>11, <2>12 DEF PhaseAt, Program!PhaseOn, Program!NoCond, NoCond
  <2> QED BY <1>0, <1>2, <2>1, <2>12, <2>13
<1> QED BY <1>0, <1>1, <1>2


----------------------------------------------------------------------------
(* Where the processor is, and what the program does meanwhile.            *)

Deciding(q, i) ==
  /\ i \in 1 .. Len(src) /\ Solid(i) /\ src[i].cond # NoCond
  /\ q = src[i].at + CmpLen(src[i].cond)

Acting(q, i) ==
  /\ i \in 1 .. Len(src) /\ Solid(i) /\ src[i].tag \notin BlockTags
  /\ q = BodyPtr(i) \/ (src[i].tag = "text" /\ q = code.at[BodyPtr(i)].to)

(* The flags and the last comparison of item i agree.                      *)
Compared(i) ==
  /\ rel \in Relations
  /\ flags = (IF code.at[src[i].at].how = "ab" THEN rel ELSE Converse[rel])

OnItem(q) ==
  \E i \in 1 .. Len(src) :
    Arriving(q, i) \/ Acting(q, i) \/ (Deciding(q, i) /\ Compared(i))

StackFollows ==
  stack # <<>> =>
    /\ stack[1] = entry + 28
    /\ \A k \in 2 .. Len(stack) : \E i : Arriving(stack[k], i)

Follows ==
  run = "on" =>
    /\ StackFollows
    /\ stack = <<>> => pc \in {entry, entry + 23, entry + 28, entry + 51}
    /\ stack # <<>> => OnItem(pc)

LEMMA DecidingAt ==
  ASSUME ReadyCode, NEW i, NEW q, Deciding(q, i)
  PROVE  ItemAt(q) = i /\ PhaseAt(q) = "decide"
<1>1. /\ i \in 1 .. Len(src) /\ Solid(i) /\ src[i].cond # NoCond
      /\ q = src[i].at + CmpLen(src[i].cond)
  BY DEF Deciding
<1>2. /\ CmpLen(src[i].cond) \in Nat \ {0} /\ BodyPtr(i) = src[i].at + CmpLen(src[i].cond) + 6
      /\ code.at[q].op = "jcc"
  BY <1>1, FirstOp
<1>3. src[i].at \in Nat /\ BodyPtr(i) <= CodeEnd(i) /\ CodeEnd(i) \in Nat
  BY <1>1, EndsOrdered
<1>4. q \in Nat /\ src[i].at <= q /\ q < CodeEnd(i)
  BY <1>1, <1>2, <1>3, SMTT(30)
<1>5. ItemAt(q) = i
  BY <1>1, <1>2, <1>4, ItemInside
<1> QED BY <1>2, <1>5 DEF PhaseAt

LEMMA ActingAt ==
  ASSUME ReadyCode, NEW i, NEW q, Acting(q, i)
  PROVE  ItemAt(q) = i /\ PhaseAt(q) = "act"
<1>1. /\ i \in 1 .. Len(src) /\ Solid(i) /\ src[i].tag \notin BlockTags
      /\ q = BodyPtr(i) \/ (src[i].tag = "text" /\ q = code.at[BodyPtr(i)].to)
  BY DEF Acting
<1>2. /\ src[i].at \in Nat /\ src[i].at <= BodyPtr(i) /\ BodyPtr(i) \in Nat /\ CodeEnd(i) \in Nat
  BY <1>1, EndsOrdered
<1>3. /\ q \in Nat /\ src[i].at <= q /\ q < CodeEnd(i)
      /\ code.at[q].op \in {"straight", "ret", "jmp", "call"}
  <2>1. CASE q = BodyPtr(i)
    BY <1>1, <1>2, <2>1, BodyOp
  <2>2. CASE src[i].tag = "text" /\ q = code.at[BodyPtr(i)].to
    <3>1. q \in DOMAIN code.at /\ BodyPtr(i) < q /\ code.at[q] = Ins("straight", 75)
      BY <1>1, <2>2 DEF ReadyCode, AllCompiled, BodyIs
    <3>2. q \in Nat /\ CodeEnd(i) = BodyPtr(i) + (q + 75 - BodyPtr(i))
      BY <2>2, <3>1 DEF CodeEnd, BodyLen, ReadyCode, IInv, TypeOK, IsBuffer
    <3> QED BY <1>2, <3>1, <3>2 DEF Ins
  <2> QED BY <1>1, <2>1, <2>2
<1>4. code.at[q].op # "nop"
  BY <1>3
<1>5. ItemAt(q) = i
  BY <1>1, <1>3, <1>4, ItemInside
<1> QED BY <1>3, <1>5 DEF PhaseAt

(* The mapping.                                                            *)
LEMMA ShownNow ==
  ASSUME phase = "done", run = "on", stack # <<>>, pc \in DOMAIN code.at
  PROVE  /\ InProgram /\ ModeNow = "run" /\ AtNow = ItemAt(pc) /\ PhaseNow = PhaseAt(pc)
         /\ CallsNow = [k \in 1 .. Len(stack) - 1 |-> ItemAt(stack[k + 1])]
BY DEF InProgram, ModeNow, AtNow, PhaseNow, CallsNow

LEMMA ShownNext ==
  ASSUME phase = "done", UNCHANGED vars, run' = "on", stack' # <<>>,
         NEW q \in DOMAIN code.at, pc' = q
  PROVE  /\ InProgram' /\ ModeNow' = "run" /\ AtNow' = ItemAt(q) /\ PhaseNow' = PhaseAt(q)
<1>1. phase' = "done" /\ code' = code /\ src' = src
  BY DEF vars
<1>2. InProgram'
  BY <1>1 DEF InProgram
<1>3. ModeNow' = "run"
  BY <1>1, <1>2 DEF ModeNow
<1>4. AtNow' = ItemAt(q)
  BY <1>1, <1>2, SMTT(30) DEF AtNow, ItemAt, Solid
<1>5. PhaseNow' = PhaseAt(q)
  BY <1>1, <1>2 DEF PhaseNow, PhaseAt, ItemAt, Solid
<1> QED BY <1>2, <1>3, <1>4, <1>5

LEMMA CallsKept ==
  ASSUME UNCHANGED vars, stack' = stack, InProgram, InProgram'
  PROVE  CallsNow' = CallsNow
<1>1. code' = code /\ src' = src
  BY DEF vars
<1>2. ASSUME NEW p PROVE ItemAt(p)' = ItemAt(p)
  BY <1>1 DEF ItemAt, Solid
<1>3. CallsNow = [k \in 1 .. Len(stack) - 1 |-> ItemAt(stack[k + 1])]
  BY DEF CallsNow
<1>4. PICK s : s = stack
  OBVIOUS
<1>5. CallsNow' = [k \in 1 .. Len(s) - 1 |-> ItemAt(s[k + 1])]
  <2>1. CallsNow' = [k \in 1 .. Len(stack') - 1 |-> ItemAt(stack[k + 1])']
    BY DEF CallsNow
  <2>2. \A k : ItemAt(stack[k + 1])' = ItemAt(s[k + 1])
    BY <1>1, <1>4 DEF ItemAt, Solid
  <2> QED BY <1>4, <2>1, <2>2
<1> QED BY <1>3, <1>4, <1>5


(* The compiled program does not change any more.                          *)
LEMMA StillThere ==
  ASSUME UNCHANGED vars, NEW q, NEW i
  PROVE  /\ Arriving(q, i)' <=> Arriving(q, i)
         /\ Acting(q, i)' <=> Acting(q, i)
         /\ Deciding(q, i)' <=> Deciding(q, i)
<1>1. code' = code /\ src' = src
  BY DEF vars
<1>2. \A k : (Solid(k)' <=> Solid(k)) /\ BodyPtr(k)' = BodyPtr(k) /\ (EndsLoop(src, k)' <=> EndsLoop(src, k))
  BY <1>1 DEF Solid, BodyPtr, EndsLoop
<1>3. \A k : BodyLen(k)' = BodyLen(k)
  BY <1>1, <1>2 DEF BodyLen
<1>4. \A k : CodeEnd(k)' = CodeEnd(k)
  BY <1>2, <1>3 DEF CodeEnd
<1>5. Arriving(q, i)' <=> Arriving(q, i)
  BY <1>1, <1>2, <1>4 DEF Arriving
<1> QED BY <1>1, <1>2, <1>5 DEF Acting, Deciding

LEMMA StackKept ==
  ASSUME UNCHANGED vars, stack' = stack, StackFollows
  PROVE  StackFollows'
<1>1. PICK s : s = stack
  OBVIOUS
<1>2. PICK e : e = entry
  OBVIOUS
<1>3. s # <<>> => s[1] = e + 28 /\ \A k \in 2 .. Len(s) : \E i : Arriving(s[k], i)
  BY <1>1, <1>2 DEF StackFollows
<1>4. s # <<>> => s[1] = e + 28 /\ \A k \in 2 .. Len(s) : \E i : Arriving(s[k], i)'
  BY <1>3, StillThere
<1>5. stack' = s /\ entry' = e
  BY <1>1, <1>2 DEF vars
<1> QED BY <1>4, <1>5 DEF StackFollows

LEMMA GoesOnTo ==
  ASSUME ReadyCode, StackFollows, run = "on", stack # <<>>, pc \in DOMAIN code.at,
         UNCHANGED vars, run' = "on", stack' = stack, NEW q \in DOMAIN code.at, pc' = q
  PROVE  /\ StackFollows' /\ ModeNow = "run" /\ ModeNow' = "run" /\ CallsNow' = CallsNow
         /\ src' = src
         /\ AtNow = ItemAt(pc) /\ PhaseNow = PhaseAt(pc)
         /\ AtNow' = ItemAt(q) /\ PhaseNow' = PhaseAt(q)
<1>1. phase = "done" /\ src' = src
  BY DEF ReadyCode, vars
<1>2. InProgram /\ ModeNow = "run" /\ AtNow = ItemAt(pc) /\ PhaseNow = PhaseAt(pc)
  BY <1>1, ShownNow
<1>3. InProgram' /\ ModeNow' = "run" /\ AtNow' = ItemAt(q) /\ PhaseNow' = PhaseAt(q)
  BY <1>1, ShownNext
<1> QED BY <1>1, <1>2, <1>3, CallsKept, StackKept

(* Going to where an item comes next.                                      *)
LEMMA GoesToItem ==
  ASSUME ReadyCode, StackFollows, run = "on", stack # <<>>, pc \in DOMAIN code.at,
         UNCHANGED vars, run' = "on", stack' = stack,
         NEW q \in DOMAIN code.at, pc' = q, NEW s, Arriving(q, s)
  PROVE  /\ Follows' /\ AtNow' = s /\ PhaseNow' = Program!PhaseOn(src, s)
         /\ ModeNow = "run" /\ UNCHANGED <<src, ModeNow, CallsNow>>
<1>1. /\ StackFollows' /\ ModeNow = "run" /\ ModeNow' = "run" /\ CallsNow' = CallsNow
      /\ src' = src /\ AtNow' = ItemAt(q) /\ PhaseNow' = PhaseAt(q)
  BY GoesOnTo
<1>2. ItemAt(q) = s /\ PhaseAt(q) = Program!PhaseOn(src, s) /\ s \in 1 .. Len(src)
  BY Located
<1>3. Arriving(q, s)'
  BY StillThere
<1>4. s \in 1 .. Len(src')
  BY <1>1, <1>2
<1>5. OnItem(pc)'
  BY <1>3, <1>4 DEF OnItem
<1> QED BY <1>1, <1>2, <1>5 DEF Follows


LEMMA ActingIs ==
  ASSUME ReadyCode, NEW i, NEW q, Acting(q, i)
  PROVE  /\ i \in 1 .. Len(src)
         /\ src[i].tag \in SimpleTags \cup {"else", "end", "endproc"} /\ src[i].tag # "longhand"
         /\ src[i].tag = "straight" => code.at[q].op = "straight" /\ q + code.at[q].len = CodeEnd(i)
         /\ src[i].tag = "text" =>
              \/ code.at[q] = Ins("straight", 75) /\ q + 75 = CodeEnd(i)
              \/ code.at[q].op = "jmp" /\ q = BodyPtr(i)
         /\ src[i].tag \in {"return", "endproc"} => code.at[q].op = "ret"
         /\ src[i].tag \in {"break", "continue", "else", "end"} =>
              code.at[q].op = "jmp" /\ q = BodyPtr(i)
         /\ src[i].tag = "call" =>
              code.at[q].op = "call" /\ code.at[q].len = 5 /\ q + 5 = CodeEnd(i) /\ q = BodyPtr(i)
<1>1. /\ i \in 1 .. Len(src) /\ Solid(i) /\ src[i].tag \notin BlockTags
      /\ q = BodyPtr(i) \/ (src[i].tag = "text" /\ q = code.at[BodyPtr(i)].to)
  BY DEF Acting
<1>2. BodyIs(i) /\ BodyPtr(i) \in Nat
  BY <1>1, EndsOrdered DEF ReadyCode, AllCompiled
<1>3. src[i].tag \in SimpleTags \cup {"else", "end", "endproc"} /\ src[i].tag # "longhand"
  BY <1>1, <1>2, ItemTypes DEF ReadyCode, Solid, BodyIs, StatementTags, MarkerTags
<1>4. src[i].tag = "straight" => code.at[q].op = "straight" /\ q + code.at[q].len = CodeEnd(i)
  BY <1>1, <1>2 DEF BodyIs, CodeEnd, BodyLen
<1>5. ASSUME src[i].tag = "text"
      PROVE  \/ code.at[q] = Ins("straight", 75) /\ q + 75 = CodeEnd(i)
             \/ code.at[q].op = "jmp" /\ q = BodyPtr(i)
  <2>1. PICK r : r = code.at[BodyPtr(i)].to
    OBVIOUS
  <2>2. /\ code.at[BodyPtr(i)] = Jmp(r) /\ r \in DOMAIN code.at /\ BodyPtr(i) < r
        /\ code.at[r] = Ins("straight", 75)
    BY <1>2, <1>5, <2>1 DEF BodyIs, JumpAt
  <2>3. r \in Nat /\ CodeEnd(i) = BodyPtr(i) + (r + 75 - BodyPtr(i))
    BY <1>5, <2>1, <2>2 DEF CodeEnd, BodyLen, ReadyCode, IInv, TypeOK, IsBuffer
  <2>4. CodeEnd(i) = r + 75
    BY <1>2, <2>3
  <2>5. code.at[BodyPtr(i)].op = "jmp"
    BY <2>2 DEF Jmp
  <2> QED BY <1>1, <2>1, <2>2, <2>4, <2>5
<1>6. src[i].tag \in {"return", "endproc"} => code.at[q].op = "ret"
  BY <1>1, <1>2 DEF BodyIs, Ins
<1>7. ASSUME src[i].tag \in {"break", "continue"} PROVE code.at[q].op = "jmp" /\ q = BodyPtr(i)
  <2>1. PICK r : code.at[BodyPtr(i)] = Jmp(r)
    BY <1>1, <1>7 DEF ReadyCode, LoopControlBinds
  <2> QED BY <1>1, <1>7, <2>1 DEF Jmp
<1>8. ASSUME src[i].tag \in {"else", "end"} PROVE code.at[q].op = "jmp" /\ q = BodyPtr(i)
  <2>1. q = BodyPtr(i) /\ code.at[q].op \in {"straight", "ret", "jmp", "call"}
    BY <1>1, <1>8, BodyOp
  <2>2. src[i].cond = NoCond /\ BodyPtr(i) = src[i].at
    <3>1. src[i].cond = NoCond
      BY <1>1, <1>8 DEF ReadyCode, AllCompiled, SourceOK, MarkerTags
    <3> QED BY <1>1, <3>1, EndsOrdered DEF BodyPtr
  <2>3. \E r : JumpAt(src[i].at, r)
    <3>1. src[i].tag = "end" => src[Opener(src, i)].tag = "loop"
      <4>1. src[i].tag = "end" => src[Opener(src, i)].tag # "branch"
        BY <1>1 DEF Solid
      <4>2. PICK j \in 1 .. i : Opens(src, j, i)
        BY <1>1, <1>8 DEF ReadyCode, AllCompiled
      <4>3. Opener(src, i) = j
        BY <1>1, <4>2, OpenerIs DEF ReadyCode, IInv, TypeOK
      <4> QED BY <4>1, <4>2, <4>3 DEF Opens, BlockTags
    <3> QED BY <1>1, <1>8, <3>1, BlocksJumpRight DEF ReadyCode
  <2> QED BY <2>1, <2>2, <2>3 DEF JumpAt, Jmp
<1>9. ASSUME src[i].tag = "call"
      PROVE  code.at[q].op = "call" /\ code.at[q].len = 5 /\ q + 5 = CodeEnd(i) /\ q = BodyPtr(i)
  <2>1. PICK r : code.at[BodyPtr(i)] = CallTo(r)
    BY <1>1, <1>9 DEF ReadyCode, CallsReachEntry
  <2>2. q = BodyPtr(i) /\ BodyLen(i) = 5
    BY <1>1, <1>9 DEF BodyLen
  <2> QED BY <2>1, <2>2 DEF CallTo, CodeEnd
<1> QED BY <1>1, <1>3, <1>4, <1>5, <1>6, <1>7, <1>8, <1>9

LEMMA WhereItIs ==
  ASSUME ReadyCode, NEW q \in DOMAIN code.at, OnItem(q)
  PROVE  /\ code.at[q].op = "nop" => \E i \in 1 .. Len(src) : Arriving(q, i) /\ q < src[i].at
         /\ code.at[q].op = "cmp" =>
              \E i \in 1 .. Len(src) : Solid(i) /\ src[i].cond # NoCond /\ q = src[i].at
         /\ code.at[q].op = "jcc" => \E i \in 1 .. Len(src) : Deciding(q, i) /\ Compared(i)
         /\ code.at[q].op \notin {"nop", "cmp", "jcc"} => \E i \in 1 .. Len(src) : Acting(q, i)
<1>1. PICK i \in 1 .. Len(src) : Arriving(q, i) \/ Acting(q, i) \/ (Deciding(q, i) /\ Compared(i))
  BY DEF OnItem
<1>2. CASE Acting(q, i)
  <2>1. code.at[q].op \notin {"nop", "cmp", "jcc"}
    BY <1>2, ActingIs DEF SimpleTags, Ins
  <2> QED BY <1>2, <2>1
<1>3. CASE Deciding(q, i) /\ Compared(i)
  <2>1. code.at[q].op = "jcc"
    BY <1>3, FirstOp DEF Deciding
  <2> QED BY <1>3, <2>1
<1>4. CASE Arriving(q, i)
  <2>1. Solid(i)
    BY <1>4 DEF Arriving
  <2>2. CASE q < src[i].at
    <3>1. code.at[q].op = "nop"
      BY <1>4, <2>2, Located, EndsOrdered DEF Nop, Ins
    <3> QED BY <1>1, <1>4, <2>2, <3>1
  <2>3. CASE q = src[i].at /\ src[i].cond # NoCond
    <3>1. code.at[q].op = "cmp"
      BY <2>1, <2>3, FirstOp
    <3> QED BY <1>1, <2>1, <2>3, <3>1
  <2>4. CASE q = src[i].at /\ src[i].cond = NoCond
    <3>1. Acting(q, i)
      BY <2>1, <2>4, FirstOp DEF Acting
    <3>2. code.at[q].op \notin {"nop", "cmp", "jcc"}
      BY <3>1, ActingIs DEF SimpleTags, Ins
    <3> QED BY <3>1, <3>2
  <2> QED BY <1>4, <2>2, <2>3, <2>4, Located
<1> QED BY <1>1, <1>2, <1>3, <1>4


----------------------------------------------------------------------------
(* One instruction.  The lemmas are about a processor in the program: q is *)
(* where it goes.                                                          *)
Proceeding(q) ==
  /\ ReadyCode /\ StackFollows /\ OnItem(pc)
  /\ run = "on" /\ stack # <<>> /\ pc \in DOMAIN code.at /\ q \in DOMAIN code.at

Shown == Program!Next \/ UNCHANGED Program!vars

(* What the compiled condition of item i is made of.                       *)
LEMMA ConditionCode ==
  ASSUME ReadyCode, NEW i \in 1 .. Len(src), src[i].cond # NoCond
  PROVE  /\ code.at[src[i].at].len = CmpLen(src[i].cond)
         /\ code.at[src[i].at + CmpLen(src[i].cond)].len = 6
<1>1. PICK c : c = src[i].cond
  OBVIOUS
<1>2. PICK p : p = src[i].at
  OBVIOUS
<1>3. ConditionCompiled(c, p)
  BY <1>1, <1>2 DEF ReadyCode, ConditionsCompiled
<1>4. ~SkipPending(c, p + CmpLen(c))
  <2>1. Len(frames) = 0
    BY DEF ReadyCode, IInv, FramesOK
  <2> QED BY <2>1 DEF SkipPending
<1>5. code.at[p].len = CmpLen(c) /\ code.at[p + CmpLen(c)].len = 6
  BY <1>3, <1>4 DEF ConditionCompiled, SkipWritten, Cmp
<1> QED BY <1>1, <1>2, <1>5

(* Nops before an item.                                                    *)
LEMMA NopStep ==
  ASSUME NEW q, Proceeding(q), FallThrough, Here.op = "nop", UNCHANGED vars, pc' = q
  PROVE  Follows' /\ Shown
<1>1. PICK i \in 1 .. Len(src) : Arriving(pc, i) /\ pc < src[i].at
  BY WhereItIs DEF Proceeding, Here
<1>2. code.at[pc].len = 1
  <2>1. \A p \in DOMAIN code.at : pc <= p /\ p < src[i].at => code.at[p] = Nop
    BY <1>1 DEF Arriving
  <2>2. pc \in DOMAIN code.at /\ pc \in Nat
    BY DEF Proceeding, ReadyCode, IInv, TypeOK, IsBuffer
  <2>3. code.at[pc] = Nop
    BY <1>1, <2>1, <2>2
  <2> QED BY <2>3 DEF Nop, Ins
<1>3. pc \in Nat /\ src[i].at \in Nat
  BY <1>1, EndsOrdered DEF Proceeding, ReadyCode, IInv, TypeOK, IsBuffer
<1>4. q = pc + 1 /\ run' = "on" /\ stack' = stack /\ rel' = rel
  BY <1>2 DEF FallThrough, Fetches, Here, Proceeding
<1>5. Arriving(q, i)
  <2>1. /\ Solid(i) /\ \A k \in 1 .. i - 1 : Solid(k) => CodeEnd(k) <= pc
        /\ \A p \in DOMAIN code.at : pc <= p /\ p < src[i].at => code.at[p] = Nop
        /\ \E j \in 1 .. i - 1 : Solid(j)
    BY <1>1 DEF Arriving
  <2>2. q <= src[i].at
    BY <1>1, <1>3, <1>4
  <2>3. \A k \in 1 .. i - 1 : k \in 1 .. Len(src) /\ CodeEnd(k) \in Nat
    BY <1>1, EndsOrdered DEF Proceeding
  <2>4. \A k \in 1 .. i - 1 : Solid(k) => CodeEnd(k) <= q
    BY <1>3, <1>4, <2>1, <2>3
  <2>5. \A p \in DOMAIN code.at : p \in Nat
    BY DEF Proceeding, ReadyCode, IInv, TypeOK, IsBuffer
  <2>6. \A p \in DOMAIN code.at : q <= p /\ p < src[i].at => code.at[p] = Nop
    BY <1>3, <1>4, <2>1, <2>5
  <2> QED BY <1>1, <2>1, <2>2, <2>4, <2>6 DEF Arriving
<1>6. /\ Follows' /\ AtNow' = i /\ PhaseNow' = Program!PhaseOn(src, i)
      /\ UNCHANGED <<src, ModeNow, CallsNow>>
  BY <1>4, <1>5, GoesToItem DEF Proceeding
<1>7. AtNow = i /\ PhaseNow = Program!PhaseOn(src, i)
  BY <1>1, Located, ShownNow DEF Proceeding, ReadyCode
<1> QED BY <1>4, <1>6, <1>7 DEF Shown, Program!vars

(* A straight statement, or the output of a string literal.                *)
LEMMA StraightStep ==
  ASSUME NEW q, Proceeding(q), FallThrough, Here.op = "straight", UNCHANGED vars, pc' = q
  PROVE  Follows' /\ Shown
<1>1. PICK i \in 1 .. Len(src) : Acting(pc, i)
  BY WhereItIs DEF Proceeding, Here
<1>2. src[i].tag \in {"straight", "text"} /\ pc + code.at[pc].len = CodeEnd(i)
  BY <1>1, ActingIs DEF Proceeding, Here, SimpleTags, Ins
<1>3. q = CodeEnd(i) /\ run' = "on" /\ stack' = stack /\ rel' = rel
  BY <1>2 DEF FallThrough, Fetches, Here, Proceeding
<1>4. i \in 1 .. Len(src) - 1
  BY <1>2, NotLast DEF Proceeding, ReadyCode
<1>5. Arriving(q, Program!Settled(src, i + 1))
  BY <1>3, <1>4, ArrivesBehind DEF Proceeding
<1>6. PICK s : s = Program!Settled(src, i + 1)
  OBVIOUS
<1>7. /\ Follows' /\ AtNow' = s /\ PhaseNow' = Program!PhaseOn(src, s)
      /\ ModeNow = "run" /\ UNCHANGED <<src, ModeNow, CallsNow>>
  BY <1>3, <1>5, <1>6, GoesToItem DEF Proceeding
<1>8. AtNow = i /\ PhaseNow = "act"
  BY <1>1, ActingAt, ShownNow DEF Proceeding, ReadyCode
<1>9. Program!Act
  BY <1>2, <1>3, <1>6, <1>7, <1>8 DEF Program!Act, Program!Acts, Program!Arrive
<1> QED BY <1>7, <1>9 DEF Shown, Program!Next, Program!Step


(* A comparison.                                                           *)
LEMMA CmpStep ==
  ASSUME NEW q, Proceeding(q), ExecCmp, UNCHANGED vars, pc' = q
  PROVE  Follows' /\ Shown
<1>1. PICK i \in 1 .. Len(src) : Solid(i) /\ src[i].cond # NoCond /\ pc = src[i].at
  BY WhereItIs DEF Proceeding, ExecCmp, Fetches, Here
<1>2. code.at[pc].len = CmpLen(src[i].cond)
  BY <1>1, ConditionCode DEF Proceeding
<1>3. q = src[i].at + CmpLen(src[i].cond) /\ run' = "on" /\ stack' = stack
  BY <1>1, <1>2 DEF ExecCmp, Here, Proceeding
<1>4. rel' \in Relations /\ flags' = (IF Here.how = "ab" THEN rel' ELSE Converse[rel'])
  BY DEF ExecCmp
<1>5. Deciding(q, i)
  BY <1>1, <1>3 DEF Deciding
<1>6. /\ StackFollows' /\ ModeNow = "run" /\ ModeNow' = "run" /\ CallsNow' = CallsNow
      /\ src' = src /\ AtNow = ItemAt(pc) /\ PhaseNow = PhaseAt(pc)
      /\ AtNow' = ItemAt(q) /\ PhaseNow' = PhaseAt(q)
  BY <1>3, GoesOnTo DEF Proceeding
<1>7. ItemAt(pc) = i /\ PhaseAt(pc) = "test"
  <2>1. /\ pc \in Nat /\ src[i].at <= pc /\ pc < CodeEnd(i) /\ code.at[pc].op = "cmp"
    BY <1>1, FirstOp, EndsOrdered DEF Proceeding
  <2> QED BY <1>1, <2>1, ItemInside DEF Proceeding, PhaseAt
<1>8. ItemAt(q) = i /\ PhaseAt(q) = "decide"
  BY <1>5, DecidingAt DEF Proceeding
<1>9. Deciding(q, i)'
  BY <1>5, StillThere
<1>10. Compared(i)'
  <2>1. src'[i].at = pc /\ code' = code
    BY <1>1, <1>6 DEF vars
  <2> QED BY <1>4, <2>1 DEF Compared, Here
<1>11. OnItem(pc)'
  BY <1>3, <1>6, <1>9, <1>10 DEF OnItem
<1>12. Follows'
  BY <1>3, <1>6, <1>11 DEF Follows, Proceeding
<1>13. Program!Compare
  BY <1>4, <1>6, <1>7, <1>8 DEF Program!Compare, Program!Relations, Relations
<1> QED BY <1>12, <1>13 DEF Shown, Program!Next, Program!Step

(* The jump over a statement.                                              *)
LEMMA JccStep ==
  ASSUME NEW q, Proceeding(q), ExecJcc, UNCHANGED vars, pc' = q
  PROVE  Follows' /\ Shown
<1>1. PICK i \in 1 .. Len(src) : Deciding(pc, i) /\ Compared(i)
  BY WhereItIs DEF Proceeding, ExecJcc, Fetches, Here
<1>2. PICK c : c = src[i].cond
  OBVIOUS
<1>3. /\ Solid(i) /\ c # NoCond /\ pc = src[i].at + CmpLen(c)
      /\ code.at[pc].len = 6 /\ BodyPtr(i) = pc + 6
  BY <1>1, <1>2, ConditionCode, FirstOp DEF Proceeding, Deciding
<1>4. Holds(code.at[pc].how, flags) <=> ~Holds(c.comp, rel)
  <2>1. \A r \in Relations :
          Holds(code.at[pc].how, IF code.at[src[i].at].how = "ab" THEN r ELSE Converse[r])
            <=> ~Holds(c.comp, r)
    BY <1>2, <1>3 DEF Proceeding, ReadyCode, ConditionExact
  <2> QED BY <1>1, <2>1 DEF Compared
<1>5. /\ run' = "on" /\ stack' = stack /\ rel' = rel /\ flags' = flags
      /\ q = IF Holds(c.comp, rel) THEN BodyPtr(i) ELSE code.at[pc].to
  BY <1>3, <1>4 DEF ExecJcc, Here, Proceeding
<1>6. Program!Holds(c.comp, rel) <=> Holds(c.comp, rel)
  BY DEF Program!Holds, Holds
<1>7. AtNow = i /\ PhaseNow = "decide" /\ ModeNow = "run"
  BY <1>1, DecidingAt, ShownNow DEF Proceeding, ReadyCode
<1>8. CASE ~Holds(c.comp, rel)
  <2>1. PICK k \in i .. Len(src) - 1 :
          k \in 1 .. Len(src) /\ After(src, i) = k + 1 /\ code.at[pc].to = CodeEnd(k)
    BY <1>2, <1>3, SkipTarget DEF Proceeding, ReadyCode
  <2>2. PICK s : s = Program!Settled(src, k + 1)
    OBVIOUS
  <2>3. k \in 1 .. Len(src) - 1 /\ q = CodeEnd(k)
    BY <1>5, <1>8, <2>1
  <2>4. Arriving(q, s)
    BY <2>2, <2>3, ArrivesBehind DEF Proceeding
  <2>5. /\ Follows' /\ AtNow' = s /\ PhaseNow' = Program!PhaseOn(src, s)
        /\ UNCHANGED <<src, ModeNow, CallsNow>>
    BY <1>5, <2>4, GoesToItem DEF Proceeding
  <2>6. Program!After(src, i) = k + 1
    BY <2>1, SameOperators
  <2>7. Program!Decide
    BY <1>2, <1>5, <1>6, <1>7, <1>8, <2>2, <2>5, <2>6 DEF Program!Decide, Program!Arrive
  <2> QED BY <2>5, <2>7 DEF Shown, Program!Next, Program!Step
<1>9. CASE Holds(c.comp, rel) /\ src[i].tag \in BlockTags
  <2>1. BodyLen(i) = 0 /\ src[i].tag # "endproc"
    BY <1>9 DEF BodyLen, BlockTags
  <2>2. CodeEnd(i) = q
    BY <1>5, <1>9, <2>1, EndsOrdered DEF CodeEnd, Proceeding
  <2>3. i \in 1 .. Len(src) - 1
    BY <2>1, NotLast DEF Proceeding, ReadyCode
  <2>4. PICK s : s = Program!Settled(src, i + 1)
    OBVIOUS
  <2>5. Arriving(q, s)
    BY <2>2, <2>3, <2>4, ArrivesBehind DEF Proceeding
  <2>6. /\ Follows' /\ AtNow' = s /\ PhaseNow' = Program!PhaseOn(src, s)
        /\ UNCHANGED <<src, ModeNow, CallsNow>>
    BY <1>5, <2>5, GoesToItem DEF Proceeding
  <2>7. src[i].tag \in Program!BlockTags
    BY <1>9 DEF BlockTags, Program!BlockTags
  <2>8. Program!Decide
    BY <1>2, <1>5, <1>6, <1>7, <1>9, <2>4, <2>6, <2>7 DEF Program!Decide, Program!Arrive
  <2> QED BY <2>6, <2>8 DEF Shown, Program!Next, Program!Step
<1>10. CASE Holds(c.comp, rel) /\ src[i].tag \notin BlockTags
  <2>1. Acting(q, i)
    BY <1>3, <1>5, <1>10 DEF Acting
  <2>2. /\ StackFollows' /\ ModeNow' = "run" /\ CallsNow' = CallsNow
        /\ src' = src /\ AtNow' = ItemAt(q) /\ PhaseNow' = PhaseAt(q)
    BY <1>5, GoesOnTo DEF Proceeding
  <2>3. ItemAt(q) = i /\ PhaseAt(q) = "act"
    BY <2>1, ActingAt DEF Proceeding
  <2>4. Acting(q, i)'
    BY <2>1, StillThere
  <2>5. OnItem(pc)'
    BY <2>2, <2>4 DEF OnItem
  <2>6. Follows'
    BY <1>5, <2>2, <2>5 DEF Follows, Proceeding
  <2>7. src[i].tag \notin Program!BlockTags
    BY <1>10 DEF BlockTags, Program!BlockTags
  <2>8. Program!Decide
    BY <1>2, <1>5, <1>6, <1>7, <1>10, <2>2, <2>3, <2>7 DEF Program!Decide
  <2> QED BY <2>6, <2>8 DEF Shown, Program!Next, Program!Step
<1> QED BY <1>8, <1>9, <1>10


(* Items that do nothing are passed over.                                  *)
LEMMA SettledFurther ==
  ASSUME ReadyCode, NEW k \in 1 .. Len(src) - 1, ~Solid(k)
  PROVE  Program!Settled(src, k) = Program!Settled(src, k + 1)
<1>0. Len(src) \in Nat /\ k + 1 \in 1 .. Len(src) /\ k \in 1 .. Len(src)
  BY EndsOrdered
<1>1. PICK s \in k + 1 .. Len(src) :
        Program!Settled(src, k + 1) = s /\ Solid(s) /\ \A j \in k + 1 .. s - 1 : ~Solid(j)
  BY <1>0, Settles
<1>2. s \in k .. Len(src) /\ \A j \in k .. s - 1 : ~Solid(j)
  BY <1>0, <1>1
<1>3. Program!Settled(src, k) = s
  BY <1>0, <1>1, <1>2, Settles
<1> QED BY <1>1, <1>3

LEMMA SettledHere ==
  ASSUME ReadyCode, NEW k \in 1 .. Len(src), Solid(k)
  PROVE  Program!Settled(src, k) = k
<1>1. Len(src) \in Nat
  BY EndsOrdered
<1>2. k \in k .. Len(src) /\ \A j \in k .. k - 1 : ~Solid(j)
  BY <1>1
<1> QED BY <1>2, Settles

(* Where a loop ends.                                                      *)
LEMMA LoopEnd ==
  ASSUME ReadyCode, NEW j \in 1 .. Len(src), src[j].tag = "loop"
  PROVE  /\ MatchEnd(src, j) \in 1 .. Len(src) - 1
         /\ CodeEnd(MatchEnd(src, j)) = src[MatchEnd(src, j)].at + 5
<1>1. PICK e \in j .. Len(src) : Built(j, e)
  BY DEF ReadyCode, AllCompiled, Completed, StatementTags, BlockTags
<1>2. e \in 1 .. Len(src) /\ src[e].tag = "end" /\ Opens(src, j, e)
  BY <1>1, BuiltOpens DEF ReadyCode, BlockTags
<1>3. MatchEnd(src, j) = e /\ Opener(src, e) = j
  BY <1>2, BlockShape DEF ReadyCode
<1>4. e \in 1 .. Len(src) - 1
  BY <1>2, NotLast DEF ReadyCode
<1>5. src[e].cond = NoCond
  BY <1>2 DEF ReadyCode, AllCompiled, SourceOK, MarkerTags
<1>6. BodyPtr(e) = src[e].at
  BY <1>2, <1>5, EndsOrdered DEF BodyPtr
<1>7. BodyLen(e) = 5
  BY <1>2, <1>3 DEF BodyLen, EndsLoop
<1>8. CodeEnd(e) = src[e].at + 5
  BY <1>6, <1>7 DEF CodeEnd
<1> QED BY <1>3, <1>4, <1>8

(* The jumps that are not over a statement.                                *)
LEMMA JmpStep ==
  ASSUME NEW q, Proceeding(q), ExecJmp, UNCHANGED vars, pc' = q
  PROVE  Follows' /\ Shown
<1>1. PICK i \in 1 .. Len(src) : Acting(pc, i)
  BY WhereItIs DEF Proceeding, ExecJmp, Fetches, Here
<1>2. /\ src[i].tag \in {"text", "else", "end", "break", "continue"} /\ pc = BodyPtr(i)
      /\ Solid(i)
  <2>1. code.at[pc].op = "jmp"
    BY DEF ExecJmp, Fetches, Here
  <2>2. code.at[pc] # Ins("straight", 75)
    BY <2>1 DEF Ins
  <2>3. src[i].tag \notin {"straight", "return", "endproc", "call", "longhand"}
    BY <1>1, <2>1, ActingIs DEF Proceeding
  <2>4. src[i].tag \in SimpleTags \cup {"else", "end", "endproc"}
    BY <1>1, ActingIs DEF Proceeding
  <2>5. src[i].tag \in {"text", "else", "end", "break", "continue"}
    BY <2>3, <2>4 DEF SimpleTags
  <2>6. pc = BodyPtr(i)
    BY <1>1, <2>2, <2>5, ActingIs DEF Proceeding
  <2> QED BY <1>1, <2>5, <2>6 DEF Acting
<1>3. q = code.at[pc].to /\ run' = "on" /\ stack' = stack /\ rel' = rel /\ flags' = flags
  BY DEF ExecJmp, Here, Proceeding
<1>4. AtNow = i /\ PhaseNow = "act" /\ ModeNow = "run" /\ ItemAt(pc) = i
  BY <1>1, ActingAt, ShownNow DEF Proceeding, ReadyCode
<1>5. ASSUME NEW s, Arriving(q, s)
      PROVE  /\ Follows' /\ AtNow' = s /\ PhaseNow' = Program!PhaseOn(src, s)
             /\ UNCHANGED <<src, ModeNow, CallsNow>>
  BY <1>3, <1>5, GoesToItem DEF Proceeding
<1>6. CASE src[i].tag = "text"
  <2>1. Acting(q, i)
    BY <1>1, <1>2, <1>3, <1>6 DEF Acting
  <2>2. /\ StackFollows' /\ ModeNow' = "run" /\ CallsNow' = CallsNow
        /\ src' = src /\ AtNow' = ItemAt(q) /\ PhaseNow' = PhaseAt(q)
    BY <1>3, GoesOnTo DEF Proceeding
  <2>3. ItemAt(q) = i /\ PhaseAt(q) = "act"
    BY <2>1, ActingAt DEF Proceeding
  <2>4. Acting(q, i)'
    BY <2>1, StillThere
  <2>5. OnItem(pc)'
    BY <2>2, <2>4 DEF OnItem
  <2>6. Follows'
    BY <1>3, <2>2, <2>5 DEF Follows, Proceeding
  <2>7. UNCHANGED Program!vars
    BY <1>3, <1>4, <2>2, <2>3 DEF Program!vars
  <2> QED BY <2>6, <2>7 DEF Shown
<1>7. CASE src[i].tag = "else"
  <2>1. PICK e : e = MatchEnd(src, Opener(src, i))
    OBVIOUS
  <2>2. /\ e \in 1 .. Len(src) /\ src[e].tag = "end" /\ src[Opener(src, e)].tag = "branch"
        /\ JumpAt(src[i].at, src[e].at)
    <3>1. /\ Opener(src, i) \in 1 .. Len(src) /\ e \in i + 1 .. Len(src) /\ src[e].tag = "end"
          /\ src[Opener(src, i)].tag = "branch" /\ Opener(src, e) = Opener(src, i)
          /\ JumpAt(src[i].at, src[e].at)
      BY <1>7, <2>1, BlocksJumpRight DEF Proceeding, ReadyCode
    <3> QED BY <3>1
  <2>3. src[i].cond = NoCond
    BY <1>7 DEF Proceeding, ReadyCode, AllCompiled, SourceOK, MarkerTags
  <2>4. pc = src[i].at
    BY <1>2, <2>3, EndsOrdered DEF BodyPtr, Proceeding
  <2>5. q = src[e].at
    BY <1>3, <2>2, <2>4 DEF JumpAt, Jmp
  <2>6. ~Solid(e) /\ e \in 1 .. Len(src) - 1
    BY <2>2, NotLast DEF Solid, Proceeding, ReadyCode
  <2>7. PICK s : s = Program!Settled(src, e + 1)
    OBVIOUS
  <2>8. Program!Settled(src, e) = s
    BY <2>6, <2>7, SettledFurther DEF Proceeding
  <2>9. Arriving(q, s)
    BY <2>2, <2>5, <2>8, ArrivesAt DEF Proceeding
  <2>10. Program!MatchEnd(src, Program!Opener(src, i)) = e
    <3>1. Program!Opener(src, i) = Opener(src, i)
      BY SameOperators
    <3>2. Program!MatchEnd(src, Opener(src, i)) = MatchEnd(src, Opener(src, i))
      BY SameOperators
    <3> QED BY <2>1, <3>1, <3>2
  <2>11. Program!PassElse
    BY <1>3, <1>4, <1>5, <1>7, <2>7, <2>9, <2>10
       DEF Program!PassElse, Program!Acts, Program!Arrive
  <2> QED BY <1>5, <2>9, <2>11 DEF Shown, Program!Next, Program!Step
<1>8. CASE src[i].tag = "end"
  <2>1. PICK j : j = Opener(src, i)
    OBVIOUS
  <2>2. src[j].tag # "branch"
    BY <1>2, <1>8, <2>1 DEF Solid
  <2>3. src[j].tag = "loop"
    <3>1. PICK m \in 1 .. i : Opens(src, m, i)
      BY <1>8 DEF Proceeding, ReadyCode, AllCompiled
    <3>2. Opener(src, i) = m
      BY <3>1, OpenerIs DEF Proceeding, ReadyCode, IInv, TypeOK
    <3> QED BY <2>1, <2>2, <3>1, <3>2 DEF Opens, BlockTags
  <2>4. j \in 1 .. Len(src) /\ JumpAt(src[i].at, src[j].at)
    BY <1>8, <2>1, <2>3, BlocksJumpRight DEF Proceeding, ReadyCode
  <2>5. src[i].cond = NoCond
    BY <1>8 DEF Proceeding, ReadyCode, AllCompiled, SourceOK, MarkerTags
  <2>6. pc = src[i].at
    BY <1>2, <2>5, EndsOrdered DEF BodyPtr, Proceeding
  <2>7. q = src[j].at
    BY <1>3, <2>4, <2>6 DEF JumpAt, Jmp
  <2>8. PICK s : s = Program!Settled(src, j)
    OBVIOUS
  <2>9. Arriving(q, s)
    BY <2>4, <2>7, <2>8, ArrivesAt DEF Proceeding
  <2>10. Program!Opener(src, i) = j
    BY <2>1, SameOperators
  <2>11. Program!Repeat
    BY <1>3, <1>4, <1>5, <1>8, <2>8, <2>9, <2>10
       DEF Program!Repeat, Program!Acts, Program!Arrive
  <2> QED BY <1>5, <2>9, <2>11 DEF Shown, Program!Next, Program!Step
<1>9. CASE src[i].tag \in {"break", "continue"}
  <2>1. PICK j \in 1 .. i - 1, e \in 1 .. Len(src) :
          /\ src[j].tag = "loop" /\ InnermostLoop(src, i) = j /\ MatchEnd(src, j) = e
          /\ code.at[BodyPtr(i)] = Jmp(IF src[i].tag = "break" THEN src[e].at + 5 ELSE src[j].at)
    BY <1>9, LoopBinds DEF Proceeding, ReadyCode
  <2>2. j \in 1 .. Len(src)
    BY EndsOrdered DEF Proceeding
  <2>3. Program!InnermostLoop(src, i) = j /\ Program!MatchEnd(src, j) = e
    BY <2>1, SameOperators
  <2>4. CASE src[i].tag = "break"
    <3>1. e \in 1 .. Len(src) - 1 /\ CodeEnd(e) = src[e].at + 5
      BY <2>1, <2>2, LoopEnd DEF Proceeding
    <3>2. q = CodeEnd(e)
      BY <1>2, <1>3, <2>1, <2>4, <3>1 DEF Jmp
    <3>3. PICK s : s = Program!Settled(src, e + 1)
      OBVIOUS
    <3>4. Arriving(q, s)
      BY <3>1, <3>2, <3>3, ArrivesBehind DEF Proceeding
    <3>5. Program!BreakOrContinue
      BY <1>3, <1>4, <1>5, <2>3, <2>4, <3>3, <3>4
         DEF Program!BreakOrContinue, Program!Acts, Program!Arrive
    <3> QED BY <1>5, <3>4, <3>5 DEF Shown, Program!Next, Program!Step
  <2>5. CASE src[i].tag = "continue"
    <3>1. q = src[j].at
      BY <1>2, <1>3, <2>1, <2>5 DEF Jmp
    <3>2. PICK s : s = Program!Settled(src, j)
      OBVIOUS
    <3>3. Arriving(q, s)
      BY <2>2, <3>1, <3>2, ArrivesAt DEF Proceeding
    <3>4. Program!BreakOrContinue
      BY <1>3, <1>4, <1>5, <2>3, <2>5, <3>2, <3>3
         DEF Program!BreakOrContinue, Program!Acts, Program!Arrive
    <3> QED BY <1>5, <3>3, <3>4 DEF Shown, Program!Next, Program!Step
  <2> QED BY <1>9, <2>4, <2>5
<1> QED BY <1>2, <1>6, <1>7, <1>8, <1>9


(* The stack and the calls in progress.                                    *)
LEMMA CallsNext ==
  ASSUME UNCHANGED vars, InProgram', NEW t, stack' = t
  PROVE  CallsNow' = [k \in 1 .. Len(t) - 1 |-> ItemAt(t[k + 1])]
<1>1. code' = code /\ src' = src
  BY DEF vars
<1>2. CallsNow' = [k \in 1 .. Len(stack') - 1 |-> ItemAt(stack[k + 1])']
  BY DEF CallsNow
<1>3. \A k : ItemAt(stack[k + 1])' = ItemAt(t[k + 1])
  BY <1>1 DEF ItemAt, Solid
<1> QED BY <1>2, <1>3

LEMMA ReturnItems ==
  ASSUME NEW t \in Seq(Nat), t # <<>>, \A k \in 2 .. Len(t) : ItemAt(t[k]) \in Nat,
         NEW c, c = [k \in 1 .. Len(t) - 1 |-> ItemAt(t[k + 1])]
  PROVE  /\ Len(t) \in Nat \ {0} /\ c \in Seq(Nat) /\ Len(c) = Len(t) - 1
         /\ \A k \in 1 .. Len(t) - 1 : c[k] = ItemAt(t[k + 1])
<1>1. Len(t) \in Nat \ {0}
  BY EmptySeq
<1>2. PICK n \in Nat : n = Len(t) - 1
  <2>1. PICK m : m = Len(t)
    OBVIOUS
  <2>2. m \in Nat \ {0}
    BY <1>1, <2>1
  <2>3. m - 1 \in Nat
    BY <2>2
  <2> QED BY <2>1, <2>3
<1>3. \A k \in 1 .. n : ItemAt(t[k + 1]) \in Nat
  <2>1. \A k \in 1 .. n : k + 1 \in 2 .. Len(t)
    BY <1>1, <1>2
  <2> QED BY <2>1
<1>4. c = [k \in 1 .. n |-> ItemAt(t[k + 1])]
  BY <1>2
<1>5. c \in [1 .. n -> Nat]
  BY <1>3, <1>4
<1>6. c \in Seq(Nat) /\ Len(c) = n
  BY <1>5, SeqDef
<1> QED BY <1>1, <1>2, <1>4, <1>6

LEMMA StackItems ==
  ASSUME NEW q, Proceeding(q), stack \in Seq(Nat), MachineTame
  PROVE  /\ Len(stack) \in Nat \ {0} /\ CallsNow \in Seq(Nat) /\ Len(CallsNow) = Len(stack) - 1
         /\ \A k \in 1 .. Len(stack) - 1 : CallsNow[k] = ItemAt(stack[k + 1])
         /\ \A k \in 2 .. Len(stack) : ItemAt(stack[k]) \in Nat
<1>1. ASSUME NEW k \in 2 .. Len(stack) PROVE ItemAt(stack[k]) \in Nat
  <2>1. PICK i : Arriving(stack[k], i)
    BY DEF Proceeding, StackFollows
  <2>2. k \in 1 .. Len(stack)
    BY EmptySeq DEF Proceeding
  <2>3. stack[k] \in DOMAIN code.at
    BY <2>2 DEF MachineTame, Runnable
  <2>4. ItemAt(stack[k]) = i /\ i \in 1 .. Len(src)
    BY <2>1, <2>3, Located DEF Proceeding
  <2> QED BY <2>4
<1>2. CallsNow = [k \in 1 .. Len(stack) - 1 |-> ItemAt(stack[k + 1])]
  BY ShownNow DEF Proceeding, ReadyCode
<1>3. stack # <<>>
  BY DEF Proceeding
<1>4. PICK c : c = CallsNow
  OBVIOUS
<1>5. c = [k \in 1 .. Len(stack) - 1 |-> ItemAt(stack[k + 1])]
  BY <1>2, <1>4
<1>6. PICK t \in Seq(Nat) : t = stack
  OBVIOUS
<1>7. /\ Len(t) \in Nat \ {0} /\ c \in Seq(Nat) /\ Len(c) = Len(t) - 1
      /\ \A k \in 1 .. Len(t) - 1 : c[k] = ItemAt(t[k + 1])
  <2>1. t # <<>> /\ \A k \in 2 .. Len(t) : ItemAt(t[k]) \in Nat
    BY <1>1, <1>3, <1>6
  <2>2. c = [k \in 1 .. Len(t) - 1 |-> ItemAt(t[k + 1])]
    BY <1>5, <1>6
  <2> QED BY <2>1, <2>2, ReturnItems
<1> QED BY <1>1, <1>4, <1>6, <1>7

(* Where procedure name begins.                                            *)
LEMMA EntryIs ==
  ASSUME ReadyCode, NEW j \in 1 .. Len(src), src[j].tag = "proc", src[j].at \in DOMAIN code.at
  PROVE  /\ Program!EntryOf(src[j].name) = j + 1
         /\ Arriving(src[j].at, Program!Settled(src, j + 1))
<1>1. Program!EntryOf(src[j].name) = j + 1
  <2>1. \A m \in 1 .. Len(src) : src[m].tag = "proc" /\ src[m].name = src[j].name => m = j
    BY DEF ReadyCode, AllCompiled, SourceOK
  <2>2. (CHOOSE m \in 1 .. Len(src) : src[m].tag = "proc" /\ src[m].name = src[j].name) = j
    BY <2>1
  <2> QED BY <2>2 DEF Program!EntryOf
<1>2. ~Solid(j) /\ j \in 1 .. Len(src) - 1
  BY NotLast DEF Solid, ReadyCode
<1> QED BY <1>1, <1>2, SettledFurther, ArrivesAt

(* A call that the stack has room for, and one that it has not.            *)
LEMMA CallStep ==
  ASSUME NEW q, Proceeding(q), MachineTame, ExecCall, UNCHANGED vars, run' = "on", pc' = q,
         Len(stack) <= MaxCalls, NEW r \in DOMAIN code.at, r = pc + Here.len,
         stack' = Append(stack, r)
  PROVE  Follows' /\ Shown
<1>0. stack \in Seq(Nat) /\ r \in Nat /\ MaxCalls \in Nat /\ code' = code /\ src' = src /\ entry' = entry
  BY JitAssumption DEF MachineTame, Proceeding, ReadyCode, IInv, TypeOK, IsBuffer, vars
<1>1. PICK i \in 1 .. Len(src) : Acting(pc, i)
  BY WhereItIs DEF Proceeding, ExecCall, Fetches, Here
<1>2. src[i].tag = "call"
  <2>1. code.at[pc].op = "call" /\ code.at[pc] # Ins("straight", 75)
    BY DEF ExecCall, Fetches, Here, Ins
  <2>2. src[i].tag \notin {"straight", "return", "endproc", "text", "break", "continue", "else",
                           "end", "longhand"}
    BY <1>1, <2>1, ActingIs DEF Proceeding
  <2>3. src[i].tag \in SimpleTags \cup {"else", "end", "endproc"}
    BY <1>1, ActingIs DEF Proceeding
  <2> QED BY <2>2, <2>3 DEF SimpleTags
<1>3. code.at[pc].len = 5 /\ pc + 5 = CodeEnd(i) /\ pc = BodyPtr(i)
  BY <1>1, <1>2, ActingIs DEF Proceeding
<1>4. r = CodeEnd(i) /\ q = code.at[pc].to /\ rel' = rel /\ flags' = flags
  BY <1>3 DEF ExecCall, Here
<1>5. AtNow = i /\ PhaseNow = "act" /\ ModeNow = "run"
  BY <1>1, ActingAt, ShownNow DEF Proceeding, ReadyCode
<1>6. PICK j \in 1 .. Len(src) :
        src[j].tag = "proc" /\ src[j].name = src[i].name /\ code.at[pc] = CallTo(src[j].at)
  BY <1>2, <1>3 DEF Proceeding, ReadyCode, CallsReachEntry
<1>7. q = src[j].at
  BY <1>4, <1>6 DEF CallTo
<1>8. PICK s : s = Program!Settled(src, j + 1)
  OBVIOUS
<1>9. Program!EntryOf(src[i].name) = j + 1 /\ Arriving(q, s)
  BY <1>6, <1>7, <1>8, EntryIs DEF Proceeding
<1>10. PICK b : b = Program!Settled(src, i + 1)
  OBVIOUS
<1>11. Arriving(r, b)
  <2>1. i \in 1 .. Len(src) - 1
    BY <1>2, NotLast DEF Proceeding, ReadyCode
  <2> QED BY <1>4, <1>10, <2>1, ArrivesBehind DEF Proceeding
<1>12. ItemAt(r) = b /\ b \in 1 .. Len(src)
  BY <1>11, Located DEF Proceeding
<1>13. /\ Len(stack) \in Nat \ {0} /\ CallsNow \in Seq(Nat) /\ Len(CallsNow) = Len(stack) - 1
       /\ \A k \in 1 .. Len(stack) - 1 : CallsNow[k] = ItemAt(stack[k + 1])
       /\ \A k \in 2 .. Len(stack) : ItemAt(stack[k]) \in Nat
  BY <1>0, StackItems
<1>14. PICK c \in Seq(Nat) : c = CallsNow
  BY <1>13
<1>15. PICK t \in Seq(Nat) : t = Append(stack, r)
  BY <1>0, AppendProperties
<1>16. PICK n \in Nat \ {0} : n = Len(stack)
  BY <1>13
<1>17. /\ Len(t) = n + 1 /\ t[n + 1] = r /\ t # <<>>
       /\ \A k \in 1 .. n : t[k] = stack[k]
  <2>1. /\ Len(t) = Len(stack) + 1 /\ t[Len(stack) + 1] = r
        /\ \A k \in 1 .. Len(stack) : t[k] = stack[k]
    BY <1>0, <1>15, AppendProperties
  <2>2. Len(t) # 0
    BY <1>16, <2>1
  <2>3. t # <<>>
    BY <2>2, EmptySeq
  <2> QED BY <1>16, <2>1, <2>3
<1>18. /\ InProgram' /\ ModeNow' = "run" /\ AtNow' = ItemAt(q) /\ PhaseNow' = PhaseAt(q)
  <2>1. stack' # <<>>
    BY <1>15, <1>17
  <2> QED BY <2>1, ShownNext DEF Proceeding, ReadyCode
<1>19. AtNow' = s /\ PhaseNow' = Program!PhaseOn(src, s) /\ s \in 1 .. Len(src)
  BY <1>9, <1>18, Located DEF Proceeding
<1>20. CallsNow' = Append(c, b)
  <2>1. PICK d : d = [k \in 1 .. Len(t) - 1 |-> ItemAt(t[k + 1])]
    OBVIOUS
  <2>2. CallsNow' = d
    BY <1>15, <1>18, <2>1, CallsNext, ZenonT(40)
  <2>3. \A k \in 2 .. n : ItemAt(t[k]) = ItemAt(stack[k]) /\ ItemAt(t[k]) \in Nat
    <3>1. \A k \in 2 .. n : k \in 1 .. n
      OBVIOUS
    <3> QED BY <1>13, <1>16, <1>17, <3>1
  <2>4. \A k \in 2 .. Len(t) : ItemAt(t[k]) \in Nat
    <3>1. \A k \in 2 .. n + 1 : k \in 2 .. n \/ k = n + 1
      BY <1>16
    <3>2. ItemAt(t[n + 1]) \in Nat
      BY <1>12, <1>17
    <3>3. \A k \in 2 .. n + 1 : ItemAt(t[k]) \in Nat
      BY <2>3, <3>1, <3>2
    <3> QED BY <1>17, <3>3
  <2>5. d \in Seq(Nat) /\ Len(d) = n /\ \A k \in 1 .. n : d[k] = ItemAt(t[k + 1])
    <3>1. /\ d \in Seq(Nat) /\ Len(d) = Len(t) - 1
          /\ \A k \in 1 .. Len(t) - 1 : d[k] = ItemAt(t[k + 1])
      BY <1>17, <2>1, <2>4, ReturnItems
    <3>2. Len(t) - 1 = n
      BY <1>17
    <3> QED BY <3>1, <3>2
  <2>6. /\ Append(c, b) \in Seq(Nat) /\ Len(Append(c, b)) = n /\ Append(c, b)[n] = b
        /\ \A k \in 1 .. n - 1 : Append(c, b)[k] = c[k]
    <3>1. Len(c) = n - 1 /\ b \in Nat
      BY <1>12, <1>13, <1>14, <1>16
    <3>2. /\ Append(c, b) \in Seq(Nat) /\ Len(Append(c, b)) = Len(c) + 1
          /\ \A k \in 1 .. Len(c) : Append(c, b)[k] = c[k]
          /\ Append(c, b)[Len(c) + 1] = b
      BY <3>1, AppendProperties
    <3> QED BY <3>1, <3>2
  <2>7. ASSUME NEW k \in 1 .. n PROVE d[k] = Append(c, b)[k]
    <3>1. CASE k = n
      BY <1>12, <1>17, <2>5, <2>6, <3>1
    <3>2. CASE k # n
      <4>1. k \in 1 .. n - 1 /\ k + 1 \in 1 .. n
        BY <3>2
      <4>2. c[k] = ItemAt(stack[k + 1]) /\ t[k + 1] = stack[k + 1]
        BY <1>13, <1>14, <1>16, <1>17, <4>1
      <4> QED BY <2>5, <2>6, <4>1, <4>2
    <3> QED BY <3>1, <3>2
  <2>8. d = Append(c, b)
    BY <2>5, <2>6, <2>7, SeqEqual
  <2> QED BY <2>2, <2>8
<1>21. StackFollows'
  <2>1. PICK e : e = entry
    OBVIOUS
  <2>2. t[1] = e + 28
    BY <1>16, <1>17, <2>1 DEF Proceeding, StackFollows
  <2>3. ASSUME NEW k \in 2 .. Len(t) PROVE \E m : Arriving(t[k], m)'
    <3>1. CASE k = n + 1
      BY <1>11, <1>17, <3>1, StillThere
    <3>2. CASE k # n + 1
      <4>1. k \in 2 .. n /\ k \in 1 .. n
        BY <1>17, <3>2
      <4>2. PICK m : Arriving(stack[k], m)
        BY <1>16, <4>1 DEF Proceeding, StackFollows
      <4>3. Arriving(t[k], m)
        BY <1>17, <4>1, <4>2
      <4> QED BY <4>3, StillThere
    <3> QED BY <3>1, <3>2
  <2>4. stack' = t /\ entry' = e
    BY <1>0, <1>15, <2>1
  <2> QED BY <2>2, <2>3, <2>4 DEF StackFollows
<1>22. OnItem(pc)'
  <2>1. Arriving(q, s)'
    BY <1>9, StillThere
  <2>2. s \in 1 .. Len(src')
    BY <1>0, <1>19
  <2> QED BY <2>1, <2>2 DEF OnItem
<1>23. Follows'
  BY <1>15, <1>17, <1>21, <1>22 DEF Follows
<1>24. Program!Call
  <2>1. Len(c) < MaxCalls
    BY <1>0, <1>13, <1>14, <1>16
  <2> QED BY <1>0, <1>2, <1>4, <1>5, <1>8, <1>9, <1>10, <1>14, <1>18, <1>19, <1>20, <2>1
          DEF Program!Call, Program!Acts, Program!Arrive
<1> QED BY <1>23, <1>24 DEF Shown, Program!Next, Program!Step


LEMMA OverflowStep ==
  ASSUME NEW q, Proceeding(q), MachineTame, ExecCall, UNCHANGED vars, run' = "overflow",
         ~(Len(stack) <= MaxCalls)
  PROVE  Follows' /\ Shown
<1>0. stack \in Seq(Nat) /\ MaxCalls \in Nat /\ src' = src /\ phase' = "done"
  BY JitAssumption DEF MachineTame, Proceeding, ReadyCode, vars
<1>1. PICK i \in 1 .. Len(src) : Acting(pc, i)
  BY WhereItIs DEF Proceeding, ExecCall, Fetches, Here
<1>2. src[i].tag = "call"
  <2>1. code.at[pc].op = "call" /\ code.at[pc] # Ins("straight", 75)
    BY DEF ExecCall, Fetches, Here, Ins
  <2>2. src[i].tag \notin {"straight", "return", "endproc", "text", "break", "continue", "else",
                           "end", "longhand"}
    BY <1>1, <2>1, ActingIs DEF Proceeding
  <2>3. src[i].tag \in SimpleTags \cup {"else", "end", "endproc"}
    BY <1>1, ActingIs DEF Proceeding
  <2> QED BY <2>2, <2>3 DEF SimpleTags
<1>3. AtNow = i /\ PhaseNow = "act" /\ ModeNow = "run"
  BY <1>1, ActingAt, ShownNow DEF Proceeding, ReadyCode
<1>4. Len(stack) \in Nat \ {0} /\ Len(CallsNow) = Len(stack) - 1
  BY <1>0, StackItems
<1>5. ~(Len(CallsNow) < MaxCalls)
  BY <1>0, <1>4
<1>6. ~InProgram'
  BY DEF InProgram
<1>7. ModeNow' = "overflow" /\ AtNow' = 0 /\ PhaseNow' = "act" /\ CallsNow' = <<>>
  BY <1>0, <1>6 DEF ModeNow, AtNow, PhaseNow, CallsNow
<1>8. rel' = rel
  BY DEF ExecCall
<1>9. Program!Call
  BY <1>0, <1>2, <1>3, <1>5, <1>7, <1>8 DEF Program!Call, Program!Acts, Program!Stop
<1> QED BY <1>9 DEF Follows, Shown, Program!Next, Program!Step

(* The return of a procedure.                                              *)
LEMMA RetStep ==
  ASSUME NEW q, Proceeding(q), MachineTame, ExecRet, UNCHANGED vars, run' = "on", pc' = q
  PROVE  Follows' /\ Shown
<1>0. /\ stack \in Seq(Nat) /\ src' = src /\ code' = code /\ entry' = entry /\ phase' = "done"
      /\ entry \in Nat
  BY DEF MachineTame, Proceeding, ReadyCode, IInv, TypeOK, vars
<1>1. PICK i \in 1 .. Len(src) : Acting(pc, i)
  BY WhereItIs DEF Proceeding, ExecRet, Fetches, Here
<1>2. src[i].tag \in {"return", "endproc"}
  <2>1. code.at[pc].op = "ret" /\ code.at[pc] # Ins("straight", 75)
    BY DEF ExecRet, Fetches, Here, Ins
  <2>2. src[i].tag \notin {"straight", "call", "text", "break", "continue", "else",
                           "end", "longhand"}
    BY <1>1, <2>1, ActingIs DEF Proceeding
  <2>3. src[i].tag \in SimpleTags \cup {"else", "end", "endproc"}
    BY <1>1, ActingIs DEF Proceeding
  <2> QED BY <2>2, <2>3 DEF SimpleTags
<1>3. AtNow = i /\ PhaseNow = "act" /\ ModeNow = "run"
  BY <1>1, ActingAt, ShownNow DEF Proceeding, ReadyCode
<1>4. /\ Len(stack) \in Nat \ {0} /\ CallsNow \in Seq(Nat) /\ Len(CallsNow) = Len(stack) - 1
      /\ \A k \in 1 .. Len(stack) - 1 : CallsNow[k] = ItemAt(stack[k + 1])
      /\ \A k \in 2 .. Len(stack) : ItemAt(stack[k]) \in Nat
  BY <1>0, StackItems
<1>5. PICK n \in Nat \ {0} : n = Len(stack)
  BY <1>4
<1>6. PICK c \in Seq(Nat) : c = CallsNow
  BY <1>4
<1>7. Len(c) = n - 1 /\ \A k \in 1 .. n - 1 : c[k] = ItemAt(stack[k + 1])
  BY <1>4, <1>5, <1>6
<1>8. PICK t : t = SubSeq(stack, 1, n - 1)
  OBVIOUS
<1>9. stack' = t /\ q = stack[n] /\ rel' = rel /\ flags' = flags
  BY <1>5, <1>8 DEF ExecRet, Proceeding
<1>10. t \in Seq(Nat) /\ Len(t) = n - 1 /\ \A k \in 1 .. n - 1 : t[k] = stack[k]
  <2>1. 1 \in Int /\ n - 1 \in Int /\ \A k \in 1 .. n - 1 : stack[k] \in Nat
    BY <1>0, <1>5, ElementOfSeq
  <2>2. /\ t \in Seq(Nat) /\ Len(t) = IF 1 <= n - 1 THEN (n - 1) - 1 + 1 ELSE 0
        /\ \A k \in 1 .. (n - 1) - 1 + 1 : t[k] = stack[1 + k - 1]
    BY <1>8, <2>1, SubSeqProperties
  <2>3. /\ (n - 1) - 1 + 1 = n - 1 /\ (\A k \in 1 .. n - 1 : 1 + k - 1 = k)
        /\ ~(1 <= n - 1) => n - 1 = 0
    OBVIOUS
  <2>4. Len(t) = n - 1
    BY <2>2, <2>3
  <2>5. \A k \in 1 .. n - 1 : t[k] = stack[k]
    BY <2>2, <2>3, Zenon
  <2> QED BY <2>2, <2>4, <2>5
<1>11. CASE n = 1
  <2>1. t = <<>> /\ c = <<>>
    BY <1>7, <1>10, <1>11, EmptySeq
  <2>2. q = entry + 28
    BY <1>9, <1>11 DEF Proceeding, StackFollows
  <2>3. ~InProgram'
    BY <1>9, <2>1 DEF InProgram
  <2>4. pc' \notin {entry', entry' + 23}
    BY <1>0, <2>2
  <2>5. ModeNow' = "returned" /\ AtNow' = 0 /\ PhaseNow' = "act" /\ CallsNow' = <<>>
    BY <1>0, <1>9, <2>1, <2>3, <2>4 DEF ModeNow, AtNow, PhaseNow, CallsNow
  <2>6. Program!Return
    BY <1>0, <1>2, <1>3, <1>6, <1>9, <2>1, <2>5 DEF Program!Return, Program!Acts, Program!Stop
  <2>7. Follows'
    BY <1>0, <1>9, <2>1, <2>2 DEF Follows, StackFollows
  <2> QED BY <2>6, <2>7 DEF Shown, Program!Next, Program!Step
<1>12. CASE n # 1
  <2>1. n \in 2 .. n /\ n - 1 \in 1 .. n - 1 /\ (n - 1) + 1 = n
    BY <1>12
  <2>2. PICK s : Arriving(q, s)
    BY <1>5, <1>9, <2>1 DEF Proceeding, StackFollows
  <2>3. ItemAt(q) = s /\ s \in 1 .. Len(src)
    BY <2>2, Located DEF Proceeding
  <2>4. c[n - 1] = s
    BY <1>7, <1>9, <2>1, <2>3
  <2>5. c # <<>> /\ t # <<>>
    BY <1>7, <1>10, <2>1, EmptySeq
  <2>6. Program!Settled(src, s) = s
    BY <2>2, <2>3, SettledHere DEF Proceeding, Arriving
  <2>7. /\ InProgram' /\ ModeNow' = "run" /\ AtNow' = ItemAt(q) /\ PhaseNow' = PhaseAt(q)
    BY <1>9, <2>5, ShownNext DEF Proceeding, ReadyCode
  <2>8. AtNow' = s /\ PhaseNow' = Program!PhaseOn(src, s)
    BY <2>2, <2>7, Located DEF Proceeding
  <2>9. CallsNow' = SubSeq(c, 1, n - 2)
    <3>1. PICK d : d = [k \in 1 .. Len(t) - 1 |-> ItemAt(t[k + 1])]
      OBVIOUS
    <3>2. CallsNow' = d
      BY <1>9, <2>7, <3>1, CallsNext
    <3>3. ASSUME NEW k \in 2 .. Len(t) PROVE ItemAt(t[k]) = ItemAt(stack[k]) /\ ItemAt(t[k]) \in Nat
      <4>1. k \in 1 .. n - 1 /\ k \in 2 .. n
        BY <1>10
      <4> QED BY <1>4, <1>5, <1>10, <4>1
    <3>4. /\ d \in Seq(Nat) /\ Len(d) = Len(t) - 1
          /\ \A k \in 1 .. Len(t) - 1 : d[k] = ItemAt(t[k + 1])
      <4>1. \A k \in 2 .. Len(t) : ItemAt(t[k]) \in Nat
        BY <3>3
      <4> QED BY <1>10, <2>5, <3>1, <4>1, ReturnItems
    <3>5. PICK u : u = SubSeq(c, 1, n - 2)
      OBVIOUS
    <3>6. /\ u \in Seq(Nat) /\ Len(u) = n - 2 /\ \A k \in 1 .. n - 2 : u[k] = c[k]
      <4>1. 1 \in Int /\ n - 2 \in Int /\ \A k \in 1 .. n - 2 : c[k] \in Nat
        <5>1. \A k \in 1 .. n - 2 : k \in 1 .. n - 1
          OBVIOUS
        <5> QED BY <1>7, <5>1, ElementOfSeq, SMTT(30)
      <4>2. /\ u \in Seq(Nat) /\ Len(u) = IF 1 <= n - 2 THEN (n - 2) - 1 + 1 ELSE 0
            /\ \A k \in 1 .. (n - 2) - 1 + 1 : u[k] = c[1 + k - 1]
        BY <3>5, <4>1, SubSeqProperties
      <4>3. /\ (n - 2) - 1 + 1 = n - 2 /\ (\A k \in 1 .. n - 2 : 1 + k - 1 = k)
            /\ ~(1 <= n - 2) => n - 2 = 0
        BY <1>12
      <4>4. Len(u) = n - 2
        BY <4>2, <4>3
      <4>5. \A k \in 1 .. n - 2 : u[k] = c[k]
        BY <4>2, <4>3, Zenon
      <4> QED BY <4>2, <4>4, <4>5
    <3>7. Len(d) = n - 2
      BY <1>10, <3>4
    <3>8. ASSUME NEW k \in 1 .. n - 2 PROVE d[k] = u[k]
      <4>1. k \in 1 .. n - 1 /\ k + 1 \in 1 .. n - 1 /\ k \in 1 .. Len(t) - 1
        BY <1>10
      <4>2. d[k] = ItemAt(t[k + 1]) /\ t[k + 1] = stack[k + 1]
        BY <1>10, <3>4, <4>1
      <4>3. u[k] = c[k] /\ c[k] = ItemAt(stack[k + 1])
        BY <1>7, <3>6, <4>1
      <4> QED BY <4>2, <4>3
    <3>9. d = u
      BY <3>4, <3>6, <3>7, <3>8, SeqEqual
    <3> QED BY <3>2, <3>5, <3>9
  <2>10. StackFollows'
    <3>1. PICK e : e = entry
      OBVIOUS
    <3>2. t[1] = e + 28
      <4>1. 1 \in 1 .. n - 1
        BY <1>12
      <4> QED BY <1>10, <3>1, <4>1 DEF Proceeding, StackFollows
    <3>3. ASSUME NEW k \in 2 .. Len(t) PROVE \E m : Arriving(t[k], m)'
      <4>1. k \in 1 .. n - 1 /\ k \in 2 .. n
        BY <1>10
      <4>2. PICK m : Arriving(stack[k], m)
        BY <1>5, <4>1 DEF Proceeding, StackFollows
      <4>3. Arriving(t[k], m)
        BY <1>10, <4>1, <4>2
      <4> QED BY <4>3, StillThere
    <3>4. stack' = t /\ entry' = e
      BY <1>0, <1>9, <3>1
    <3> QED BY <3>2, <3>3, <3>4 DEF StackFollows
  <2>11. OnItem(pc)'
    <3>1. Arriving(q, s)'
      BY <2>2, StillThere
    <3> QED BY <1>0, <2>3, <3>1 DEF OnItem
  <2>12. Follows'
    BY <1>9, <2>5, <2>10, <2>11 DEF Follows
  <2>13. Program!Return
    <3>1. Len(c) - 1 = n - 2 /\ c[Len(c)] = s
      BY <1>7, <2>4
    <3>2. CallsNow' = SubSeq(c, 1, Len(c) - 1)
      BY <2>9, <3>1
    <3>3. Program!Arrive(CallsNow[Len(CallsNow)])
      BY <1>3, <1>6, <2>6, <2>7, <2>8, <3>1 DEF Program!Arrive
    <3> QED BY <1>0, <1>2, <1>3, <1>6, <1>9, <2>5, <3>2, <3>3 DEF Program!Return, Program!Acts
  <2> QED BY <2>12, <2>13 DEF Shown, Program!Next, Program!Step
<1> QED BY <1>11, <1>12


(* The start procedure calls main; what is around the call is not the      *)
(* program's.                                                              *)
LEMMA StartStep ==
  ASSUME ReadyCode, Follows, run = "on", stack = <<>>, Execute, UNCHANGED vars
  PROVE  Follows' /\ Shown
<1>0. /\ src' = src /\ code' = code /\ entry' = entry /\ phase = "done" /\ phase' = "done"
      /\ entry \in Nat /\ MaxCalls \in Nat
  BY JitAssumption DEF ReadyCode, IInv, TypeOK, vars
<1>1. PICK e \in Nat : e = entry
  BY <1>0
<1>2. /\ code.at[e] = Ins("enter", 23) /\ code.at[e + 28] = Ins("leave", 23)
      /\ code.at[e + 51] = Ins("ret", 1)
  BY <1>0, <1>1 DEF ReadyCode, StartLaid
<1>3. PICK j \in 1 .. Len(src) :
        src[j].tag = "proc" /\ src[j].name = Main /\ code.at[e + 23] = CallTo(src[j].at)
  BY <1>0, <1>1 DEF ReadyCode, CallsReachEntry
<1>4. ~InProgram /\ AtNow = 0 /\ PhaseNow = "act" /\ CallsNow = <<>>
  BY DEF InProgram, AtNow, PhaseNow, CallsNow
<1>5. ModeNow = IF pc \in {e, e + 23} THEN "load" ELSE "returned"
  BY <1>0, <1>1, <1>4 DEF ModeNow
<1>6. pc \in {e, e + 23, e + 28, e + 51}
  BY <1>1 DEF Follows
<1>7. ASSUME run' = "on", stack' = <<>>, pc' \in {e, e + 23, e + 28, e + 51}, rel' = rel,
             pc \in {e, e + 23} <=> pc' \in {e, e + 23}
      PROVE  Follows' /\ Shown
  <2>1. ~InProgram'
    BY <1>7 DEF InProgram
  <2>2. AtNow' = 0 /\ PhaseNow' = "act" /\ CallsNow' = <<>>
    BY <2>1 DEF AtNow, PhaseNow, CallsNow
  <2>3. ModeNow' = IF pc' \in {e, e + 23} THEN "load" ELSE "returned"
    BY <1>0, <1>1, <1>7, <2>1 DEF ModeNow
  <2>4. UNCHANGED Program!vars
    BY <1>0, <1>4, <1>5, <1>7, <2>2, <2>3 DEF Program!vars
  <2>5. Follows'
    BY <1>0, <1>1, <1>7 DEF Follows, StackFollows
  <2> QED BY <2>4, <2>5 DEF Shown
<1>8. CASE pc = e \/ pc = e + 28
  <2>1. code.at[pc].len = 23 /\ code.at[pc].op \in {"enter", "leave"}
    BY <1>2, <1>8 DEF Ins
  <2>2. FallThrough
    BY <2>1 DEF Execute, ExecCmp, ExecJmp, ExecJcc, ExecCall, ExecRet, Fetches, Here
  <2>3. pc' = pc + 23 /\ run' = "on" /\ stack' = <<>> /\ rel' = rel
    BY <2>1, <2>2 DEF FallThrough, Here
  <2>4. /\ pc = e => pc' = e + 23
        /\ pc = e + 28 => pc' = e + 51 /\ pc \notin {e, e + 23} /\ pc' \notin {e, e + 23}
    BY <2>3
  <2> QED BY <1>7, <1>8, <2>3, <2>4
<1>9. CASE pc = e + 51
  <2>1. code.at[pc].op = "ret"
    BY <1>2, <1>9 DEF Ins
  <2>2. ExecRet
    BY <2>1 DEF Execute, FallThrough, ExecCmp, ExecJmp, ExecJcc, ExecCall, Fetches, Here
  <2>3. run' = "exited" /\ stack' = <<>> /\ pc' = pc /\ rel' = rel
    BY <2>2 DEF ExecRet
  <2>4. ~InProgram'
    BY <2>3 DEF InProgram
  <2>5. ModeNow' = "returned" /\ AtNow' = 0 /\ PhaseNow' = "act" /\ CallsNow' = <<>>
    BY <1>0, <2>3, <2>4 DEF ModeNow, AtNow, PhaseNow, CallsNow
  <2>6. ModeNow = "returned"
    BY <1>5, <1>9
  <2>7. UNCHANGED Program!vars
    BY <1>0, <1>4, <2>3, <2>5, <2>6 DEF Program!vars
  <2> QED BY <2>3, <2>7 DEF Follows, Shown
<1>10. CASE pc = e + 23
  <2>1. code.at[pc].op = "call" /\ code.at[pc].len = 5 /\ code.at[pc].to = src[j].at
    BY <1>3, <1>10 DEF CallTo
  <2>2. ExecCall
    BY <2>1 DEF Execute, FallThrough, ExecCmp, ExecJmp, ExecJcc, ExecRet, Fetches, Here
  <2>3. Len(stack) <= MaxCalls /\ pc + 5 = e + 28
    BY <1>0, <1>10, EmptySeq
  <2>4. /\ run' = "on" /\ pc' = src[j].at /\ stack' = Append(<<>>, e + 28) /\ rel' = rel
    BY <2>1, <2>2, <2>3 DEF ExecCall, Here
  <2>5. PICK t : t = Append(<<>>, e + 28)
    OBVIOUS
  <2>6. Len(t) = 1 /\ t[1] = e + 28 /\ t # <<>>
    BY <1>1, <2>5, EmptySeq, AppendProperties
  <2>7. PICK q : q = src[j].at
    OBVIOUS
  <2>8. q \in DOMAIN code.at
    <3>1. Runnable(code.at[e + 23].to)
      <4>1. e + 23 \in DOMAIN code.at
        BY <1>10 DEF Execute, FallThrough, ExecCmp, ExecJmp, ExecJcc, ExecCall, ExecRet, Fetches
      <4> QED BY <1>0, <1>10, <2>1, <4>1, TargetRunnable DEF ReadyCode, Transfers
    <3> QED BY <1>10, <2>1, <2>7, <3>1 DEF Runnable
  <2>9. PICK s : s = Program!Settled(src, j + 1)
    OBVIOUS
  <2>10. Program!EntryOf(Main) = j + 1 /\ Arriving(q, s)
    BY <1>3, <2>7, <2>8, <2>9, EntryIs
  <2>11. /\ InProgram' /\ ModeNow' = "run" /\ AtNow' = ItemAt(q) /\ PhaseNow' = PhaseAt(q)
    BY <1>0, <2>4, <2>5, <2>6, <2>7, <2>8, ShownNext
  <2>12. AtNow' = s /\ PhaseNow' = Program!PhaseOn(src, s) /\ s \in 1 .. Len(src)
    BY <2>8, <2>10, <2>11, Located
  <2>13. CallsNow' = <<>>
    <3>1. PICK d : d = [k \in 1 .. Len(t) - 1 |-> ItemAt(t[k + 1])]
      OBVIOUS
    <3>2. CallsNow' = d
      BY <2>4, <2>5, <2>11, <3>1, CallsNext
    <3>3. t \in Seq(Nat) /\ \A k \in 2 .. Len(t) : ItemAt(t[k]) \in Nat
      <4>1. t \in Seq(Nat)
        BY <1>1, <2>5, EmptySeq, AppendProperties
      <4>2. \A k \in 2 .. Len(t) : FALSE
        BY <2>6
      <4> QED BY <4>1, <4>2
    <3>4. d \in Seq(Nat) /\ Len(d) = 0
      BY <2>6, <3>1, <3>3, ReturnItems
    <3> QED BY <3>2, <3>4, EmptySeq
  <2>14. ModeNow = "load"
    BY <1>5, <1>10
  <2>15. Program!Start
    BY <1>0, <1>4, <2>4, <2>9, <2>10, <2>11, <2>12, <2>13, <2>14 DEF Program!Start
  <2>16. OnItem(pc)'
    <3>1. Arriving(q, s)'
      BY <2>10, StillThere
    <3> QED BY <1>0, <2>4, <2>7, <2>12, <3>1 DEF OnItem
  <2>17. StackFollows'
    BY <1>0, <1>1, <2>4, <2>5, <2>6 DEF StackFollows
  <2>18. Follows'
    BY <2>4, <2>5, <2>6, <2>16, <2>17 DEF Follows
  <2> QED BY <2>15, <2>18 DEF Shown, Program!Next
<1> QED BY <1>6, <1>8, <1>9, <1>10

(* Every instruction does what the program does, or nothing to it.         *)
LEMMA ExecuteStep ==
  ASSUME ReadyCode, MachineTame, MachineTame', Follows, Execute, UNCHANGED vars
  PROVE  Follows' /\ Shown
<1>1. run = "on" /\ pc \in DOMAIN code.at /\ code' = code
  BY DEF Execute, FallThrough, ExecCmp, ExecJmp, ExecJcc, ExecCall, ExecRet, Fetches, vars
<1>2. CASE stack = <<>>
  BY <1>1, <1>2, StartStep
<1>3. CASE stack # <<>>
  <2>1. ReadyCode /\ StackFollows /\ OnItem(pc) /\ run = "on" /\ stack # <<>> /\ pc \in DOMAIN code.at
    BY <1>1, <1>3 DEF Follows
  <2>2. CASE run' = "on"
    <3>1. PICK q : q = pc'
      OBVIOUS
    <3>2. q \in DOMAIN code.at
      BY <1>1, <2>2, <3>1 DEF MachineTame, Runnable
    <3>3. Proceeding(q)
      BY <2>1, <3>2 DEF Proceeding
    <3>4. CASE FallThrough
      <4>1. Here.op \notin {"enter", "leave"}
        <5>1. \/ code.at[pc].op \in {"nop", "cmp", "jcc"}
              \/ \E i \in 1 .. Len(src) : Acting(pc, i)
          BY <2>1, WhereItIs
        <5>2. ASSUME NEW i \in 1 .. Len(src), Acting(pc, i)
              PROVE  code.at[pc].op \in {"straight", "jmp", "ret", "call"}
          BY <2>1, <5>2, ActingIs DEF SimpleTags, Ins
        <5> QED BY <5>1, <5>2 DEF Here
      <4>2. Here.op \in {"straight", "nop"}
        BY <3>4, <4>1 DEF FallThrough, Fetches
      <4> QED BY <3>1, <3>3, <3>4, <4>2, NopStep, StraightStep
    <3>5. CASE ExecCall
      <4>1. /\ Len(stack) <= MaxCalls /\ stack' = Append(stack, pc + Here.len)
        BY <2>2, <3>5 DEF ExecCall
      <4>2. PICK r : r = pc + Here.len
        OBVIOUS
      <4>3. r \in DOMAIN code.at
        <5>1. stack \in Seq(Nat) /\ code.at[pc].op = "call"
          BY <3>5 DEF MachineTame, ExecCall, Fetches, Here
        <5>2. Runnable(pc + code.at[pc].len)
          BY <1>1, <5>1, NextRunnable DEF ReadyCode
        <5> QED BY <4>2, <5>2 DEF Runnable, Here
      <4> QED BY <2>2, <3>1, <3>3, <3>5, <4>1, <4>2, <4>3, CallStep
    <3> QED BY <2>2, <3>1, <3>3, <3>4, <3>5, CmpStep, JccStep, JmpStep, RetStep DEF Execute
  <2>3. CASE run' # "on"
    <3>1. Proceeding(pc)
      BY <2>1 DEF Proceeding
    <3>2. ExecCall /\ run' = "overflow" /\ ~(Len(stack) <= MaxCalls)
      BY <1>1, <1>3, <2>3
         DEF Execute, FallThrough, ExecCmp, ExecJmp, ExecJcc, ExecCall, ExecRet
    <3> QED BY <3>1, <3>2, OverflowStep
  <2> QED BY <2>2, <2>3
<1> QED BY <1>2, <1>3


(* The compiler gives the program item by item, and stops where it cannot  *)
(* be compiled.                                                            *)
LEMMA CompileStops ==
  ASSUME Compile
  PROVE  phase \notin {"done", "error"} /\ (phase' = "error" => src' = src)
<1>1. ASSUME NEW n \in Names, BeginProcedure(n)
      PROVE  phase \notin {"done", "error"} /\ (phase' = "error" => src' = src)
  BY <1>1 DEF BeginProcedure
<1>2. ASSUME NEW p \in uncalled, LinkCall(p) \/ MissingProcedure(p)
      PROVE  phase \notin {"done", "error"} /\ (phase' = "error" => src' = src)
  BY <1>2 DEF LinkCall, MissingProcedure
<1>3. CASE CompileStart \/ Compiled
  BY <1>3 DEF CompileStart, Compiled
<1>4. CASE \/ EndProcedure \/ StrayLoopControl
           \/ \E s \in Statement : EnterStatement(s) \/ BadCondition(s)
  BY <1>4 DEF EndProcedure, StrayLoopControl, EnterStatement, BadCondition,
              InStatementList, InPart
<1>5. CASE \/ \E n \in BodyLens : EmitStraight(n)
           \/ EmitLonghand \/ EmitBreak \/ EmitContinue \/ EmitReturn \/ EmitCallStatement
           \/ \E n \in TextLens : EmitText(n)
  BY <1>5 DEF EmitStraight, EmitLonghand, EmitBreak, EmitContinue, EmitReturn,
              EmitCallStatement, EmitText, Emitting, InPart
<1>6. CASE EndLoop \/ BeginElse \/ EndThen \/ EndElse \/ LeaveStatement
  BY <1>6 DEF EndLoop, BeginElse, EndThen, EndElse, LeaveStatement, InPart
<1> QED BY <1>1, <1>2, <1>3, <1>4, <1>5, <1>6 DEF Compile

LEMMA CompileShown ==
  ASSUME MachineTame, Compile, UNCHANGED machine
  PROVE  Follows' /\ Shown
<1>1. phase \notin {"done", "error"} /\ (phase' = "error" => src' = src)
  BY CompileStops
<1>2. run = "off" /\ run' = "off" /\ rel' = rel
  BY <1>1 DEF MachineTame, machine
<1>3. ~InProgram /\ ~InProgram'
  BY <1>2 DEF InProgram
<1>4. /\ AtNow = 0 /\ PhaseNow = "act" /\ CallsNow = <<>>
      /\ AtNow' = 0 /\ PhaseNow' = "act" /\ CallsNow' = <<>>
  BY <1>3 DEF AtNow, PhaseNow, CallsNow
<1>5. ModeNow = "load" /\ ModeNow' = IF phase' = "error" THEN "rejected" ELSE "load"
  BY <1>1, <1>2, <1>3 DEF ModeNow
<1>6. CASE phase' = "error"
  <2>1. Program!Reject
    BY <1>1, <1>2, <1>4, <1>5, <1>6 DEF Program!Reject, Program!Stop
  <2> QED BY <1>2, <2>1 DEF Follows, Shown, Program!Next
<1>7. CASE phase' # "error"
  <2>1. Program!Load
    BY <1>2, <1>4, <1>5, <1>7 DEF Program!Load
  <2> QED BY <1>2, <2>1 DEF Follows, Shown, Program!Next
<1> QED BY <1>6, <1>7

LEMMA LaunchShown ==
  ASSUME MachineTame, phase = "done", Launch, UNCHANGED vars
  PROVE  Follows' /\ Shown
<1>1. /\ run = "off" /\ run' = "on" /\ pc' = entry' /\ stack = <<>> /\ stack' = <<>> /\ rel' = rel
      /\ src' = src /\ phase' = "done"
  BY DEF MachineTame, Launch, vars
<1>2. ~InProgram /\ ~InProgram'
  BY <1>1 DEF InProgram
<1>3. /\ AtNow = 0 /\ PhaseNow = "act" /\ CallsNow = <<>>
      /\ AtNow' = 0 /\ PhaseNow' = "act" /\ CallsNow' = <<>>
  BY <1>2 DEF AtNow, PhaseNow, CallsNow
<1>4. ModeNow = "load" /\ ModeNow' = "load"
  BY <1>1, <1>2 DEF ModeNow
<1>5. UNCHANGED Program!vars
  BY <1>1, <1>3, <1>4 DEF Program!vars
<1> QED BY <1>1, <1>5 DEF Follows, StackFollows, Shown

LEMMA StillShown ==
  ASSUME Follows, UNCHANGED jitVars
  PROVE  Follows' /\ Shown
<1>1. /\ UNCHANGED vars /\ run' = run /\ pc' = pc /\ stack' = stack /\ flags' = flags /\ rel' = rel
      /\ code' = code /\ src' = src /\ entry' = entry /\ phase' = phase
  BY DEF jitVars, machine, vars
<1>2. \A k : Solid(k)' <=> Solid(k)
  BY <1>1 DEF Solid
<1>3. InProgram' <=> InProgram
  BY <1>1 DEF InProgram
<1>4. ModeNow' = ModeNow
  BY <1>1, <1>3 DEF ModeNow
<1>5. PICK p : p = pc
  OBVIOUS
<1>6. pc' = p
  BY <1>1, <1>5, SMTT(30)
<1>7. AtNow' = AtNow /\ PhaseNow' = PhaseNow
  <2>1. ItemAt(p)' = ItemAt(p)
    BY <1>1, <1>2 DEF ItemAt
  <2>2. PhaseAt(p)' = PhaseAt(p)
    BY <1>1, <2>1 DEF PhaseAt
  <2> QED BY <1>3, <1>5, <1>6, <2>1, <2>2 DEF AtNow, PhaseNow, ItemAt, PhaseAt, Solid
<1>8. CallsNow' = CallsNow
  <2>1. CASE InProgram
    BY <1>1, <1>3, <2>1, CallsKept
  <2>2. CASE ~InProgram
    BY <1>3, <2>2 DEF CallsNow
  <2> QED BY <2>1, <2>2
<1>9. UNCHANGED Program!vars
  BY <1>1, <1>4, <1>7, <1>8 DEF Program!vars
<1>10. StackFollows => StackFollows'
  BY <1>1, StackKept
<1>11. OnItem(p) => OnItem(p)'
  <2> SUFFICES ASSUME OnItem(p) PROVE OnItem(p)'
    OBVIOUS
  <2>1. PICK i \in 1 .. Len(src) :
          Arriving(p, i) \/ Acting(p, i) \/ (Deciding(p, i) /\ Compared(i))
    BY DEF OnItem
  <2>2. Compared(i) => Compared(i)'
    BY <1>1 DEF Compared
  <2>3. Arriving(p, i)' \/ Acting(p, i)' \/ (Deciding(p, i)' /\ Compared(i)')
    BY <1>1, <2>1, <2>2, StillThere
  <2> QED BY <1>1, <2>3 DEF OnItem
<1>12. (OnItem(pc) <=> OnItem(p)) /\ (OnItem(pc)' <=> OnItem(p)')
  BY <1>5, <1>6 DEF OnItem
<1>13. Follows'
  BY <1>1, <1>10, <1>11, <1>12 DEF Follows
<1> QED BY <1>9, <1>13 DEF Shown

(* What is known of the code when it is ready.                             *)
CompilerInv ==
  /\ IInv /\ JInv /\ ItemInv /\ SourceOK /\ StartLaid /\ LoopInv /\ EmittedItem
  /\ CallsReachEntry /\ ConditionExact /\ LoopControlBinds /\ ConditionsCompiled

LEMMA CompilerInvariant ==
  ASSUME SafeForms, "immLeft" \notin Forms, "pendingLoop" \notin Forms
  PROVE  Spec => []CompilerInv
<1>1. CallInv => EmittedItem
  BY DEF CallInv
<1>2. /\ IInv /\ JInv /\ ItemInv /\ SourceOK /\ StartLaid /\ LoopInv /\ EmittedItem
      /\ CallsReachEntry /\ ConditionExact /\ LoopControlBinds /\ ConditionsCompiled
      => CompilerInv
  BY DEF CompilerInv
<1> QED BY <1>1, <1>2, Invariant, JumpsInvariant, ItemInvariant, SourceInvariant, StartInvariant,
           LoopInvariant, CallInvariant, CallsBound, ConditionsBound, LoopControlBound,
           ConditionsInvariant, PTL

LEMMA ProgramStep ==
  ASSUME CompilerInv, MachineTame, MachineTame', Follows, [JitNext]_jitVars
  PROVE  Follows' /\ Shown
<1>1. phase = "done" => ReadyCode
  BY CompiledWhenDone DEF CompilerInv, ReadyCode
<1>2. CASE Compile /\ UNCHANGED machine
  BY <1>2, CompileShown
<1>3. CASE Launch /\ UNCHANGED vars
  BY <1>3, LaunchShown DEF Launch
<1>4. CASE Execute /\ UNCHANGED vars
  <2>1. phase = "done"
    BY <1>4 DEF MachineTame, Execute, FallThrough, ExecCmp, ExecJmp, ExecJcc, ExecCall, ExecRet,
                Fetches
  <2> QED BY <1>1, <1>4, <2>1, ExecuteStep
<1>5. CASE UNCHANGED jitVars
  BY <1>5, StillShown
<1> QED BY <1>2, <1>3, <1>4, <1>5 DEF JitNext, Processor, Finished

LEMMA ProgramStarts == JitInit => Program!Init /\ Follows
<1> SUFFICES ASSUME JitInit PROVE Program!Init /\ Follows
  OBVIOUS
<1>1. run = "off" /\ phase # "error" /\ src = <<>> /\ rel = "eq"
  BY DEF JitInit, Init
<1>2. ~InProgram
  BY <1>1 DEF InProgram
<1>3. ModeNow = "load" /\ AtNow = 0 /\ PhaseNow = "act" /\ CallsNow = <<>>
  BY <1>1, <1>2 DEF ModeNow, AtNow, PhaseNow, CallsNow
<1> QED BY <1>1, <1>3 DEF Program!Init, Follows

LEMMA JitRunsProgram ==
  ASSUME SafeForms, "immLeft" \notin Forms, "pendingLoop" \notin Forms
  PROVE  JitRuns => RunsTheProgram
<1>1. CompilerInv /\ MachineTame /\ MachineTame' /\ Follows /\ [JitNext]_jitVars
        => Follows' /\ [Program!Next]_(Program!vars)
  BY ProgramStep DEF Shown
<1> QED BY <1>1, ProgramStarts, JitCompiles, CompilerInvariant, MachineInvariant, PTL
        DEF JitRuns, RunsTheProgram

(* Every run of the compiled code is one of the program: for whatever      *)
(* program without the forms known to be compiled to something else, the   *)
(* processor goes from statement to statement as conditions, loops, else   *)
(* blocks, breaks, calls and returns say, and nothing the compiler added   *)
(* in between does anything.                                               *)
THEOREM ProgramRuns ==
  ASSUME SafeForms, "immLeft" \notin Forms, "pendingLoop" \notin Forms
  PROVE  JitSpec => RunsTheProgram
<1>1. JitSpec => JitRuns
  BY PTL DEF JitSpec, JitRuns
<1> QED BY <1>1, JitRunsProgram
=============================================================================
