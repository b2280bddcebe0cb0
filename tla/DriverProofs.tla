---------------------------- MODULE DriverProofs ----------------------------
(***************************************************************************)
(* The process compiles and runs as Jit says, so what the other modules    *)
(* prove of the code holds of the code that runs; and the process tells    *)
(* what happened, whatever fails on the way.                               *)
(***************************************************************************)
EXTENDS Driver, JitProofs

Stages == {"main", "read", "lex", "parse", "compile", "map", "protect", "call",
           "run", "return", "exit"}
Errors == {"usage", "couldn't read file", "lexer error", "parser error",
           "compiler error"}

(* What is kept of the command line.                                       *)
OptionsKept ==
  /\ stage \in Stages
  /\ options = IF stage = "main" THEN {} ELSE Requested \cap Flags
  /\ options \subseteq Flags

(* Where the process is when the program runs, and with which memory.      *)
RunPlaced ==
  /\ run # "off" => stage \in {"run", "return", "exit"}
  /\ run = "on" => stage = "run"
  /\ run # "off" \/ stage \in {"map", "protect", "call", "run"} =>
       phase = "done" /\ "--no-exec" \notin options
  /\ stage = "run" => run # "off" /\ memory = "executable"
  /\ stage \notin {"protect", "call", "run", "exit"} => memory = "none"

(* What the status and the messages say when the process is on its way,    *)
(* and when it is over.                                                    *)
StatusFits ==
  /\ stage = "exit" <=> exit # Running
  /\ stderr \cap Errors # {} <=> exit = 1
  /\ exit = 1 => run = "off"
  /\ stage = "return" \/ exit = 0 =>
       /\ memory = "none"
       /\ \/ run = "exited" \/ "--no-exec" \in options
          \/ "mapping memory failed" \in stderr

DInv == OptionsKept /\ RunPlaced /\ StatusFits

LEMMA DriverInitInvariant == DriverInit => DInv
  BY DEF DriverInit, JitInit, DInv, OptionsKept, RunPlaced, StatusFits, Stages,
         Errors, Running, Flags

LEMMA RunningIsNoStatus == Running # 0 /\ Running # 1
  BY DEF Running

(* The end with a message.                                                 *)
LEMMA DieInvariant ==
  ASSUME DInv, stage \in Stages \ {"return", "exit"},
         NEW message, NEW how \in {1, Signal}, Die(message, how),
         how = 1 <=> message \in Errors,
         how = 1 => run = "off",
         run = "on" => FALSE,
         options = Requested \cap Flags
  PROVE  DInv'
<1>1. exit = Running
  BY DEF DInv, StatusFits
<1>2. stderr \cap Errors = {}
  <2>1. exit # 1
    BY <1>1, RunningIsNoStatus
  <2> QED BY <2>1 DEF DInv, StatusFits
<1>3. OptionsKept'
  BY DEF DInv, OptionsKept, Die, Requested, Stages, jitVars, vars
<1>4. RunPlaced'
  BY DEF DInv, RunPlaced, Die, jitVars, vars, machine
<1>5. StatusFits'
  <2>1. stage' = "exit" /\ exit' = how /\ exit' \in {1, Signal}
    BY DEF Die
  <2>2. exit' # Running /\ exit' # 0 /\ stage' # "return"
    BY <2>1 DEF Running, Signal
  <2>3. stderr' \cap Errors # {} <=> exit' = 1
    BY <1>2, <2>1 DEF Die
  <2>4. exit' = 1 => run' = "off"
    BY <2>1 DEF Die, jitVars, machine
  <2> QED BY <2>1, <2>2, <2>3, <2>4 DEF StatusFits
<1> QED BY <1>3, <1>4, <1>5 DEF DInv

(* A stage that succeeds, writing its dump or not.                         *)
LEMMA PassInvariant ==
  ASSUME DInv, NEW dump, NEW s, Pass(dump, s),
         stage \in {"lex", "parse", "compile"},
         s \in {"parse", "compile", "return", "map"},
         s = "map" => phase = "done" /\ "--no-exec" \notin options,
         s = "return" => "--no-exec" \in options
  PROVE  DInv'
<1>1. OptionsKept'
  BY DEF DInv, OptionsKept, Pass, Goto, Requested, Stages
<1>2. RunPlaced'
  BY DEF DInv, RunPlaced, Pass, Goto, jitVars, vars, machine
<1>3. StatusFits'
  BY DEF DInv, RunPlaced, StatusFits, Pass, Goto, jitVars, machine, Running
<1> QED BY <1>1, <1>2, <1>3 DEF DInv

(* Each step of the process.                                               *)
LEMMA EarlyInvariant ==
  ASSUME DInv, Usage \/ ParseArgs \/ ReadFile \/ Lex \/ Parse
  PROVE  DInv'
<1>1. CASE Usage
  <2>1. Requested = {} /\ options = {}
    BY <1>1 DEF Usage, At, Requested, DInv, OptionsKept
  <2> QED BY <1>1, <2>1, DieInvariant DEF Usage, At, Stages, Errors, DInv, RunPlaced
<1>2. CASE ParseArgs
  <2>1. OptionsKept'
    BY <1>2 DEF ParseArgs, OptionsKept, Requested, Stages, At
  <2>2. RunPlaced'
    BY <1>2 DEF ParseArgs, DInv, RunPlaced, jitVars, vars, machine, At
  <2>3. StatusFits'
    BY <1>2 DEF ParseArgs, DInv, StatusFits, jitVars, machine, Running, At
  <2> QED BY <2>1, <2>2, <2>3 DEF DInv
<1>3. CASE ReadFile
  <2>1. options = Requested \cap Flags /\ run = "off"
    BY <1>3 DEF ReadFile, At, DInv, OptionsKept, RunPlaced
  <2>2. CASE Goto("lex") /\ UNCHANGED <<memory, stdout, stderr, jitVars>>
    <3>1. OptionsKept'
      BY <1>3, <2>2, <2>1 DEF OptionsKept, Goto, Requested, Stages, DInv
    <3>2. RunPlaced'
      BY <1>3, <2>2 DEF ReadFile, At, DInv, RunPlaced, Goto, jitVars, vars, machine
    <3>3. StatusFits'
      BY <1>3, <2>2 DEF ReadFile, At, DInv, StatusFits, Goto, jitVars, machine, Running
    <3> QED BY <3>1, <3>2, <3>3 DEF DInv
  <2>3. CASE Die("couldn't read file", 1)
    BY <1>3, <2>1, <2>3, DieInvariant DEF ReadFile, At, Stages, Errors
  <2>4. CASE Die("terminated", Signal)
    <3>1. Signal # 1 /\ "terminated" \notin Errors
      BY DEF Signal, Errors
    <3> QED BY <1>3, <2>1, <2>4, <3>1, DieInvariant DEF ReadFile, At, Stages
  <2> QED BY <1>3, <2>2, <2>3, <2>4 DEF ReadFile
<1>4. CASE Lex \/ Parse
  <2>1. options = Requested \cap Flags /\ run = "off" /\ stage \in {"lex", "parse"}
    BY <1>4 DEF Lex, Parse, At, DInv, OptionsKept, RunPlaced
  <2>2. CASE \E m \in {"lexer error", "parser error"} : Die(m, 1)
    BY <2>1, <2>2, DieInvariant DEF Stages, Errors
  <2>3. CASE Pass("--dump-tokens", "parse") \/ Pass("--dump-ast", "compile")
    BY <2>1, <2>3, PassInvariant
  <2> QED BY <1>4, <2>2, <2>3 DEF Lex, Parse
<1> QED BY <1>1, <1>2, <1>3, <1>4

LEMMA CompileInvariant ==
  ASSUME DInv, CompileStep \/ CompileError \/ CompileDone
  PROVE  DInv'
<1>1. options = Requested \cap Flags /\ run = "off" /\ stage = "compile"
  BY DEF CompileStep, CompileError, CompileDone, At, DInv, OptionsKept, RunPlaced
<1>2. CASE CompileStep
  <2>1. UNCHANGED <<machine, driver>>
    BY <1>2 DEF CompileStep
  <2>2. OptionsKept'
    BY <2>1 DEF DInv, OptionsKept, Requested, driver
  <2>3. RunPlaced'
    BY <1>1, <2>1 DEF DInv, RunPlaced, driver, machine
  <2>4. StatusFits'
    BY <2>1 DEF DInv, StatusFits, driver, machine
  <2> QED BY <2>2, <2>3, <2>4 DEF DInv
<1>3. CASE CompileError
  BY <1>1, <1>3, DieInvariant DEF CompileError, Stages, Errors
<1>4. CASE CompileDone
  BY <1>1, <1>4, PassInvariant DEF CompileDone, At
<1> QED BY <1>2, <1>3, <1>4

LEMMA RunInvariant ==
  ASSUME DInv, Map \/ Protect \/ Enter \/ EnterFault \/ RunStep \/ StackFault \/ Unmap
  PROVE  DInv'
<1>1. /\ options = Requested \cap Flags /\ phase = "done"
      /\ stage \in {"map", "protect", "call", "run"}
      /\ exit = Running
  BY DEF Map, Protect, Enter, EnterFault, RunStep, StackFault, Unmap, At, DInv,
         OptionsKept, RunPlaced, StatusFits
<1>2. phase' = "done"
  BY <1>1 DEF Map, Protect, Enter, EnterFault, RunStep, StackFault, Unmap, Die,
              jitVars, vars
<1>3. CASE EnterFault \/ StackFault
  <2>1. Die("killed", Signal) /\ run # "on"
    BY <1>3 DEF EnterFault, StackFault, At, DInv, RunPlaced
  <2>2. Signal # 1 /\ "killed" \notin Errors
    BY DEF Signal, Errors
  <2> QED BY <1>1, <2>1, <2>2, DieInvariant DEF Stages
<1>4. CASE Map \/ Protect \/ Enter \/ RunStep \/ Unmap
  <2>1. OptionsKept'
    BY <1>1, <1>4 DEF Map, Protect, Enter, RunStep, Unmap, Goto, OptionsKept, DInv,
                      Requested, Stages, driver
  <2>2. run' # "off" => stage' \in {"run", "return"}
    BY <1>4 DEF Map, Protect, Enter, RunStep, Unmap, Goto, DInv, RunPlaced, At,
                      driver, jitVars, machine
  <2>3. RunPlaced'
    BY <1>1, <1>2, <1>4, <2>2
       DEF Map, Protect, Enter, RunStep, Unmap, Goto, DInv, RunPlaced, At, Launch,
           Execute, FallThrough, ExecCmp, ExecJmp, ExecJcc, ExecCall, ExecRet,
           driver, jitVars, machine
  <2>4. StatusFits'
    <3>1. exit' = exit /\ exit # 0 /\ exit # 1 /\ stage' # "exit"
      BY <1>1, <1>4, RunningIsNoStatus
         DEF Map, Protect, Enter, RunStep, Unmap, Goto, At, driver
    <3>2. stderr' \cap Errors = {}
      BY <1>4, <3>1 DEF Map, Protect, Enter, RunStep, Unmap, DInv, StatusFits, Errors, driver
    <3>3. stage' = "return" =>
            memory' = "none" /\ (run' = "exited" \/ "mapping memory failed" \in stderr')
      BY <1>4 DEF Map, Protect, Enter, RunStep, Unmap, Goto, DInv, RunPlaced, At,
                  driver, jitVars, machine
    <3> QED BY <1>1, <3>1, <3>2, <3>3 DEF StatusFits
  <2> QED BY <2>1, <2>3, <2>4 DEF DInv
<1> QED BY <1>3, <1>4

LEMMA DriverNextInvariant ==
  ASSUME DInv, [DriverNext]_driverVars PROVE DInv'
<1>1. CASE Usage \/ ParseArgs \/ ReadFile \/ Lex \/ Parse
  BY <1>1, EarlyInvariant
<1>2. CASE CompileStep \/ CompileError \/ CompileDone
  BY <1>2, CompileInvariant
<1>3. CASE Map \/ Protect \/ Enter \/ EnterFault \/ RunStep \/ StackFault \/ Unmap
  BY <1>3, RunInvariant
<1>4. CASE Return
  <2>1. OptionsKept'
    BY <1>4 DEF Return, DInv, OptionsKept, Requested, Stages, At
  <2>2. RunPlaced'
    BY <1>4 DEF Return, DInv, RunPlaced, At, jitVars, vars, machine
  <2>3. StatusFits'
    <3>1. exit # 1
      BY <1>4, RunningIsNoStatus DEF Return, DInv, StatusFits, At
    <3>2. exit' = 0 /\ exit' # 1 /\ exit' # Running
      BY <1>4, RunningIsNoStatus DEF Return
    <3>3. stderr' \cap Errors = {}
      BY <1>4, <3>1 DEF Return, DInv, StatusFits
    <3> QED BY <1>4, <3>2, <3>3 DEF Return, DInv, StatusFits, At, jitVars, machine
  <2> QED BY <2>1, <2>2, <2>3 DEF DInv
<1>5. CASE UNCHANGED driverVars
  <2>1. OptionsKept'
    BY <1>5 DEF DInv, OptionsKept, Requested, driverVars, driver
  <2>2. RunPlaced'
    BY <1>5 DEF DInv, RunPlaced, driverVars, driver, jitVars, vars, machine
  <2>3. StatusFits'
    BY <1>5 DEF DInv, StatusFits, driverVars, driver, jitVars, machine
  <2> QED BY <2>1, <2>2, <2>3 DEF DInv
<1> QED BY <1>1, <1>2, <1>3, <1>4, <1>5 DEF DriverNext, Work, Ended

LEMMA DriverInvariant == DriverSpec => []DInv
  BY DriverInitInvariant, DriverNextInvariant, PTL DEF DriverSpec

----------------------------------------------------------------------------
(* Whatever the command line, the program and the failures of the system:  *)
(* only a completely compiled program runs, only when --no-exec was not    *)
(* given, and from executable pages, which are given back.                 *)
THEOREM ReadyCodeRuns == DriverSpec => []OnlyReadyCodeRuns
<1>1. DInv => OnlyReadyCodeRuns
  <2> SUFFICES ASSUME DInv PROVE OnlyReadyCodeRuns
    OBVIOUS
  <2>1. run # "off" => phase = "done" /\ "--no-exec" \notin Requested
    BY DEF DInv, OptionsKept, RunPlaced, Flags
  <2>2. (run = "on" => memory = "executable") /\ (exit = 0 => memory = "none")
    BY DEF DInv, RunPlaced, StatusFits
  <2> QED BY <2>1, <2>2 DEF OnlyReadyCodeRuns
<1> QED BY <1>1, DriverInvariant, PTL

(* Whatever the command line, the program and the failures of the system,  *)
(* the exit status does not lie about them.                                *)
THEOREM OutcomesTold == DriverSpec => []OutcomeTold
<1>1. DInv => OutcomeTold
  <2> SUFFICES ASSUME DInv, stage = "exit" PROVE OutcomeTold
    BY DEF OutcomeTold
  <2>1. options \subseteq Requested
    BY DEF DInv, OptionsKept
  <2> QED BY <2>1 DEF DInv, StatusFits, OutcomeTold, Errors
<1> QED BY <1>1, DriverInvariant, PTL

----------------------------------------------------------------------------
(* What has been written to the standard output.                           *)
Lexed == Wanted("--dump-tokens")
AstBuilt == Lexed \o Wanted("--dump-ast")
Ready == AstBuilt \o Wanted("--dump-code")

DumpsWritten ==
  /\ stage \in {"main", "read", "lex"} => stdout = <<>>
  /\ stage = "parse" => stdout = Lexed
  /\ stage = "compile" => stdout = AstBuilt
  /\ stage \in {"map", "protect", "call", "run", "return"} \/ run # "off" \/ exit = 0 =>
       stdout = Ready
  /\ stage = "exit" => stdout \in {<<>>, Lexed, AstBuilt, Ready}

(* A stage appends the dump that is wanted.                                *)
LEMMA PassWrites ==
  ASSUME NEW d \in Flags, NEW s, Pass(d, s), options = Requested \cap Flags,
         NEW written \in Seq(Flags), stdout = written
  PROVE  stdout' = written \o Wanted(d)
<1>1. CASE d \in Requested
  BY <1>1 DEF Pass, Wanted
<1>2. CASE d \notin Requested
  BY <1>2 DEF Pass, Wanted
<1> QED BY <1>1, <1>2

LEMMA DumpsTyped ==
  /\ \A d \in Flags : Wanted(d) \in Seq(Flags)
  /\ <<>> \in Seq(Flags) /\ Lexed \in Seq(Flags) /\ AstBuilt \in Seq(Flags) /\ Ready \in Seq(Flags)
<1>0. <<>> \in Seq(Flags)
  BY EmptySeq
<1>1. ASSUME NEW d \in Flags PROVE Wanted(d) \in Seq(Flags)
  BY <1>0 DEF Wanted
<1>2. "--dump-tokens" \in Flags /\ "--dump-ast" \in Flags /\ "--dump-code" \in Flags
  BY DEF Flags
<1>3. Lexed \in Seq(Flags)
  BY <1>1, <1>2 DEF Lexed
<1>4. AstBuilt \in Seq(Flags)
  BY <1>1, <1>2, <1>3, ConcatProperties DEF AstBuilt
<1>5. Ready \in Seq(Flags)
  BY <1>1, <1>2, <1>4, ConcatProperties DEF Ready
<1> QED BY <1>0, <1>1, <1>3, <1>4, <1>5

(* What is written first stays in front.                                   *)
LEMMA PrefixOfConcat ==
  ASSUME NEW S, NEW s \in Seq(S), NEW t \in Seq(S)
  PROVE  IsPrefix(s, s \o t)
<1>1. Len(s) \in Nat /\ Len(t) \in Nat /\ Len(s \o t) = Len(s) + Len(t)
  BY LenProperties, ConcatProperties
<1>2. SubSeq(s, 1, Len(s)) = SubSeq(s \o t, 1, Len(s))
  <2>1. CASE Len(s) = 0
    BY <2>1, SubSeqEmpty
  <2>2. CASE Len(s) # 0
    <3>1. 1 \in 1 .. Len(s) /\ Len(s) \in 1 .. Len(s)
      BY <1>1, <2>2
    <3> QED BY <3>1, SubSeqOfConcat1
  <2> QED BY <2>1, <2>2
<1> QED BY <1>1, <1>2 DEF IsPrefix

LEMMA DumpsInvariant == DriverSpec => []DumpsWritten
<1>1. DriverInit => DumpsWritten
  BY DEF DriverInit, JitInit, DumpsWritten, Running
<1>2. ASSUME DInv, DumpsWritten, [DriverNext]_driverVars PROVE DumpsWritten'
  <2>0. stage \in Stages /\ (stage # "main" => options = Requested \cap Flags)
    BY <1>2 DEF DInv, OptionsKept
  <2>1. Requested' = Requested /\ (Lexed' = Lexed /\ AstBuilt' = AstBuilt /\ Ready' = Ready)
    <3>1. args' = args
      BY <1>2 DEF DriverNext, Work, Ended, driverVars, driver, CompileStep, Usage, ParseArgs,
           ReadFile, Lex, Parse, CompileError, CompileDone, Map, Protect, Enter, EnterFault,
           RunStep, StackFault, Unmap, Return, Die, Pass, Goto
    <3> QED BY <3>1 DEF Requested, Lexed, AstBuilt, Ready, Wanted
  <2>2. Running # 0 /\ Running # 1 /\ Signal # 0
    BY RunningIsNoStatus DEF Signal
  <2>3. stage # "exit" => exit = Running
    BY <1>2 DEF DInv, StatusFits
  <2>4. run # "off" => stage \in {"run", "return", "exit"}
    BY <1>2 DEF DInv, RunPlaced
  <2>5. ASSUME NEW m, NEW how \in {1, Signal}, Die(m, how), stage # "exit"
        PROVE  DumpsWritten'
    <3>1. /\ stdout' = stdout /\ stage' = "exit" /\ exit' # 0 /\ run' = run
      BY <2>2, <2>5 DEF Die, jitVars, machine
    <3>2. stdout \in {<<>>, Lexed, AstBuilt, Ready}
      BY <1>2, <2>0, <2>5 DEF DumpsWritten, Stages
    <3>3. run # "off" => stdout = Ready
      BY <1>2 DEF DumpsWritten
    <3> QED BY <2>1, <3>1, <3>2, <3>3 DEF DumpsWritten
  <2>6. ASSUME stage \notin {"main", "read", "lex", "parse", "compile", "exit"},
               stage' \in Stages \ {"main", "read", "lex", "parse", "compile"},
               stdout' = stdout
        PROVE  DumpsWritten'
    <3>1. stdout = Ready
      BY <1>2, <2>0, <2>6 DEF DumpsWritten, Stages
    <3> QED BY <2>1, <2>6, <3>1 DEF DumpsWritten, Stages
  <2>7. CASE Usage \/ ParseArgs \/ ReadFile
    <3>1. CASE ParseArgs \/ (ReadFile /\ Goto("lex") /\ UNCHANGED <<memory, stdout, stderr, jitVars>>)
      BY <3>1, <1>2, <2>1, <2>2, <2>3, <2>4
         DEF ParseArgs, ReadFile, Goto, At, DumpsWritten, jitVars, machine
    <3>2. CASE Usage
      BY <3>2, <2>5 DEF Usage, At
    <3>3. CASE ReadFile /\ (Die("couldn't read file", 1) \/ Die("terminated", Signal))
      BY <3>3, <2>5 DEF ReadFile, At
    <3> QED BY <2>7, <3>1, <3>2, <3>3 DEF ReadFile
  <2>8. CASE Lex \/ Parse \/ CompileDone
    <3>1. run = "off" /\ exit # 0 /\ options = Requested \cap Flags
      BY <2>8, <2>0, <2>2, <2>3, <2>4 DEF Lex, Parse, CompileDone, At
    <3>2. ASSUME NEW d \in Flags, NEW s, Pass(d, s) PROVE run' = "off" /\ exit' # 0 /\ stage' = s
      BY <3>1, <3>2 DEF Pass, Goto, jitVars, machine
    <3>3. CASE Lex /\ Pass("--dump-tokens", "parse")
      <4>1. stdout' = <<>> \o Lexed
        BY <1>2, <3>1, <3>3, PassWrites, EmptySeq DEF Lex, At, DumpsWritten, Lexed, Flags
      <4>2. stdout' = Lexed
        BY <4>1, DumpsTyped
      <4> QED BY <4>2, <3>2, <3>3, <2>1 DEF DumpsWritten, Flags
    <3>4. CASE Parse /\ Pass("--dump-ast", "compile")
      <4>1. stdout' = AstBuilt
        BY <1>2, <3>1, <3>4, PassWrites, DumpsTyped DEF Parse, At, DumpsWritten, AstBuilt, Flags
      <4> QED BY <4>1, <3>2, <3>4, <2>1 DEF DumpsWritten, Flags
    <3>5. CASE CompileDone
      <4>1. stdout' = Ready
        BY <1>2, <3>1, <3>5, PassWrites, DumpsTyped DEF CompileDone, At, DumpsWritten, Ready, Flags
      <4>2. stage' \in {"return", "map"}
        BY <3>5 DEF CompileDone, Pass, Goto
      <4> QED BY <4>1, <4>2, <3>2, <3>5, <2>1 DEF DumpsWritten, Flags
    <3>6. CASE (Lex \/ Parse) /\ (Die("lexer error", 1) \/ Die("parser error", 1))
      BY <3>6, <2>5 DEF Lex, Parse, At
    <3> QED BY <2>8, <3>3, <3>4, <3>5, <3>6 DEF Lex, Parse
  <2>9. CASE CompileStep \/ Ended \/ UNCHANGED driverVars
    <3>1. stdout' = stdout /\ stage' = stage /\ exit' = exit /\ run' = run
      BY <2>9 DEF CompileStep, Ended, driverVars, driver, jitVars, machine
    <3> QED BY <1>2, <2>1, <3>1 DEF DumpsWritten
  <2>10. CASE CompileError \/ EnterFault \/ StackFault
    BY <2>10, <2>5 DEF CompileError, EnterFault, StackFault, At
  <2>11. CASE Map \/ Protect \/ Enter \/ RunStep \/ Unmap \/ Return
    <3>1. /\ stage \in {"map", "protect", "call", "run", "return"}
          /\ stage' \in {"map", "protect", "call", "run", "return", "exit"}
          /\ stdout' = stdout
      BY <2>11 DEF Map, Protect, Enter, RunStep, Unmap, Return, At, Goto, driver
    <3> QED BY <3>1, <2>6 DEF Stages
  <2> QED BY <1>2, <2>7, <2>8, <2>9, <2>10, <2>11 DEF DriverNext, Work
<1> QED BY <1>1, <1>2, DriverInvariant, PTL DEF DriverSpec

(* The dumps come in order and before the program runs.                    *)
THEOREM DumpsOrdered == DriverSpec => []DumpsInOrder
<1>1. ASSUME DInv, DumpsWritten PROVE DumpsInOrder
  <2> DEFINE ast == Wanted("--dump-ast")  bytes == Wanted("--dump-code")
  <2>1. ast \in Seq(Flags) /\ bytes \in Seq(Flags)
    BY DumpsTyped DEF Flags
  <2>2. IsPrefix(<<>>, <<>> \o Ready) /\ <<>> \o Ready = Ready
    BY DumpsTyped, PrefixOfConcat, ConcatEmptySeq
  <2>3. IsPrefix(Lexed, Lexed \o (ast \o bytes))
    BY <2>1, DumpsTyped, PrefixOfConcat, ConcatProperties
  <2>4. Lexed \o (ast \o bytes) = Ready
    <3>1. Ready = (Lexed \o ast) \o bytes
      BY DEF Ready, AstBuilt
    <3>2. Lexed \in Seq(Flags)
      BY DumpsTyped
    <3> HIDE DEF ast, bytes
    <3>3. (Lexed \o ast) \o bytes = Lexed \o (ast \o bytes)
      BY <2>1, <3>2, ConcatAssociative, SMTT(30)
    <3> QED BY <3>1, <3>3
  <2>5. IsPrefix(AstBuilt, Ready)
    BY <2>1, DumpsTyped, PrefixOfConcat DEF Ready
  <2>6. IsPrefix(Ready, Ready \o <<>>) /\ Ready \o <<>> = Ready
    BY DumpsTyped, PrefixOfConcat, ConcatEmptySeq
  <2>7. stdout \in {<<>>, Lexed, AstBuilt, Ready}
    BY <1>1 DEF DInv, OptionsKept, Stages, DumpsWritten
  <2>8. IsPrefix(stdout, Ready)
    BY <2>2, <2>3, <2>4, <2>5, <2>6, <2>7
  <2>9. run # "off" \/ exit = 0 => stdout = Ready
    BY <1>1 DEF DumpsWritten
  <2> QED BY <2>8, <2>9 DEF DumpsInOrder, Ready, AstBuilt, Lexed
<1> QED BY <1>1, DumpsInvariant, DriverInvariant, PTL

----------------------------------------------------------------------------
(* Nothing the process does besides compiling and running disturbs what    *)
(* the compiler and the processor keep: the process is an implementation   *)
(* of Jit, and so of CodeGen.                                              *)
THEOREM ProcessRuns == DriverSpec => JitRuns
<1>1. DriverInit => JitInit
  BY DEF DriverInit
<1>2. [DriverNext]_driverVars => [JitNext]_jitVars
  <2>1. CompileStep => JitNext
    BY DEF CompileStep, JitNext
  <2>2. Enter \/ RunStep => JitNext
    BY DEF Enter, RunStep, JitNext, Processor, driver
  <2>3. \/ Usage \/ ParseArgs \/ ReadFile \/ Lex \/ Parse \/ CompileError \/ CompileDone
        \/ Map \/ Protect \/ EnterFault \/ StackFault \/ Unmap \/ Return \/ Ended
        \/ UNCHANGED driverVars
        => UNCHANGED jitVars
    BY DEF Ended, driverVars, Usage, ParseArgs, ReadFile, Lex, Parse, CompileError,
           CompileDone, Map, Protect, EnterFault, StackFault, Unmap, Return, Die, Pass
  <2> QED BY <2>1, <2>2, <2>3 DEF DriverNext, Work
<1> QED BY <1>1, <1>2, PTL DEF DriverSpec, JitRuns

(* Whatever the program and the failures of the system, the code that runs *)
(* decodes as it was generated, its calls reach the procedures they name,  *)
(* its jumps stay in their procedures, and it is never left.               *)
THEOREM RunsSoundCode ==
  ASSUME SafeForms
  PROVE  DriverSpec => [](CodeIntact /\ CallsReachEntry /\ JumpsStayInProcedure /\ NeverWild)
BY ProcessRuns, JitCompiles, CodeStaysIntact, CallsBound, JumpsBound,
   MachineInvariant, TameIsNotWild, PTL

(* And what runs says what was written: conditions are tested as they      *)
(* stand, breaks and continues act on the loop around them, for programs   *)
(* without the forms that are known to be compiled to something else.      *)
THEOREM RunsMeantCode ==
  ASSUME SafeForms, "immLeft" \notin Forms, "pendingLoop" \notin Forms
  PROVE  DriverSpec => [](ConditionExact /\ LoopControlBinds)
BY ProcessRuns, JitCompiles, ConditionsBound, LoopControlBound, PTL

(* And so the process, whatever else it does and whatever fails around it, *)
(* runs the program that was written.                                      *)
THEOREM ProcessRunsProgram ==
  ASSUME SafeForms, "immLeft" \notin Forms, "pendingLoop" \notin Forms
  PROVE  DriverSpec => RunsTheProgram
BY ProcessRuns, JitRunsProgram
=============================================================================
