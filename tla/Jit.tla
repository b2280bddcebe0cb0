--------------------------------- MODULE Jit ---------------------------------
(***************************************************************************)
(* The compiler of CodeGen and then the processor running what it          *)
(* generated, from the start procedure on, as Run does (runtime.cpp): the  *)
(* program counter is a code offset, the stack holds return addresses, and *)
(* a cmp leaves in the flags how its operands compare.  An offset where no *)
(* instruction starts, a torn one or a string literal is "wild".           *)
(* The property is that this implements Source.                            *)
(***************************************************************************)
EXTENDS CodeGen

CONSTANT MaxCalls  \* return addresses below main that the stack has room for

ASSUME JitAssumption == MaxCalls \in Nat

VARIABLES run, pc, stack, flags,
          rel   \* how the operands of the last condition compare, in its order

machine == <<run, pc, stack, flags, rel>>
jitVars == <<vars, machine>>

JitInit ==
  /\ Init
  /\ run = "off" /\ pc = 0 /\ stack = <<>> /\ flags = "eq" /\ rel = "eq"

----------------------------------------------------------------------------
Here == code.at[pc]
Fetches(op) == run = "on" /\ pc \in DOMAIN code.at /\ Here.op = op

(* ExecuteCompileResults calls the start procedure.                        *)
Launch ==
  /\ phase = "done" /\ run = "off"
  /\ run' = "on" /\ pc' = entry
  /\ UNCHANGED <<stack, flags, rel>>

FallThrough ==
  /\ \E op \in {"straight", "nop", "enter", "leave"} : Fetches(op)
  /\ pc' = pc + Here.len
  /\ UNCHANGED <<run, stack, flags, rel>>

ExecCmp ==
  /\ Fetches("cmp")
  /\ \E r \in Relations :
       rel' = r /\ flags' = (IF Here.how = "ab" THEN r ELSE Converse[r])
  /\ pc' = pc + Here.len
  /\ UNCHANGED <<run, stack>>

ExecJmp ==
  /\ Fetches("jmp")
  /\ pc' = Here.to
  /\ UNCHANGED <<run, stack, flags, rel>>

ExecJcc ==
  /\ Fetches("jcc")
  /\ pc' = IF Holds(Here.how, flags) THEN Here.to ELSE pc + Here.len
  /\ UNCHANGED <<run, stack, flags, rel>>

(* One frame of the stack is the start procedure's.                        *)
ExecCall ==
  /\ Fetches("call")
  /\ IF Len(stack) <= MaxCalls
     THEN pc' = Here.to /\ stack' = Append(stack, pc + Here.len) /\ UNCHANGED run
     ELSE run' = "overflow" /\ UNCHANGED <<pc, stack>>
  /\ UNCHANGED <<flags, rel>>

ExecRet ==
  /\ Fetches("ret")
  /\ IF stack = <<>>
     THEN run' = "exited" /\ UNCHANGED <<pc, stack>>
     ELSE /\ pc' = stack[Len(stack)]
          /\ stack' = SubSeq(stack, 1, Len(stack) - 1)
          /\ UNCHANGED run
  /\ UNCHANGED <<flags, rel>>

Execute == FallThrough \/ ExecCmp \/ ExecJmp \/ ExecJcc \/ ExecCall \/ ExecRet

Finished ==
  /\ phase = "error" \/ run \notin {"off", "on"}
  /\ UNCHANGED jitVars

Processor == (Launch \/ Execute) /\ UNCHANGED vars

JitNext ==
  \/ Compile /\ UNCHANGED machine
  \/ Processor
  \/ Finished

(* The processor keeps executing.                                          *)
JitSpec == JitInit /\ [][JitNext]_jitVars /\ WF_jitVars(Processor)

----------------------------------------------------------------------------
(* The running program never leaves the instructions generated for it.     *)
NeverWild ==
  run = "on" => pc \in DOMAIN code.at /\ Here.op \notin {"torn", "data"}

(* The refinement: the item whose code holds an address, where nops left   *)
(* between two statements belong to the second.                            *)
Solid(i) ==
  CASE src[i].tag = "proc" -> FALSE
    [] src[i].tag = "loop" -> src[i].cond # NoCond
    [] src[i].tag = "end"  -> src[Opener(src, i)].tag # "branch"
    [] OTHER -> TRUE

ItemAt(p) ==
  LET held == Greatest({i \in 1 .. Len(src) : src[i].at <= p /\ Solid(i)})
  IN IF code.at[p].op = "nop" THEN Least({i \in held + 1 .. Len(src) : Solid(i)}) ELSE held

PhaseAt(p) ==
  CASE code.at[p].op = "cmp" -> "test"
    [] code.at[p].op = "jcc" -> "decide"
    [] code.at[p].op = "nop" /\ src[ItemAt(p)].cond # NoCond -> "test"
    [] OTHER -> "act"

InProgram == run = "on" /\ stack # <<>> /\ pc \in DOMAIN code.at

ModeNow ==
  IF phase = "error" THEN "rejected"
  ELSE IF InProgram THEN "run"
  ELSE IF run = "off" \/ (run = "on" /\ pc \in {entry, entry + 23}) THEN "load"
  ELSE IF run = "exited" \/ (run = "on" /\ stack = <<>>) THEN "returned"
  ELSE IF run = "overflow" THEN "overflow" ELSE "wild"

AtNow    == IF InProgram THEN ItemAt(pc) ELSE 0
PhaseNow == IF InProgram THEN PhaseAt(pc) ELSE "act"
CallsNow ==
  IF InProgram THEN [k \in 1 .. Len(stack) - 1 |-> ItemAt(stack[k + 1])] ELSE <<>>

Program == INSTANCE Source WITH
  mode <- ModeNow, at <- AtNow, ph <- PhaseNow, calls <- CallsNow

(* What the generated code does is what the program says, statement by     *)
(* statement: conditions guard what they should, loops repeat, break and   *)
(* continue go where they should, calls return behind the call.            *)
RunsTheProgram == Program!Init /\ [][Program!Next]_(Program!vars)

(* And as long as the program has something to do the code does it: it     *)
(* neither stops nor loops inside code the compiler added.                 *)
NeverStalls == Program!Fairness
============================================================================
