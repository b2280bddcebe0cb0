------------------------------- MODULE Driver -------------------------------
(***************************************************************************)
(* The process: main (main.cpp), RunFile and ExecuteCompileResults         *)
(* (runtime.cpp) around the compiler of CodeGen and the processor of Jit.  *)
(* Reading, lexing, parsing and the calls of the system succeed or fail;   *)
(* what they make of a file is the business of Lexer and Parser, and the   *)
(* program that is compiled is any.                                        *)
(***************************************************************************)
EXTENDS Jit, SequencesExt

CONSTANTS ArgLists,  \* command lines, without the name of the command
          File       \* the argument that names a file

ASSUME DriverAssumption == ArgLists \subseteq Seq(STRING) /\ File \in STRING

VARIABLES
  args,    \* argv[1] ..
  options,   \* Options: the flags that are set
  stage,   \* what the process does next
  memory,  \* the pages for the code: "none", "writable" or "executable"
  stdout,  \* the dumps written
  stderr,  \* the messages written
  exit     \* how it ended: 0, 1, Signal; or Running

driver     == <<args, options, stage, memory, stdout, stderr, exit>>
driverVars == <<jitVars, driver>>

Running == -1
Signal  == 139

Flags == {"--dump-tokens", "--dump-ast", "--dump-code", "--no-exec"}

DriverInit ==
  /\ JitInit
  /\ args \in ArgLists
  /\ options = {} /\ stage = "main" /\ memory = "none"
  /\ stdout = <<>> /\ stderr = {} /\ exit = Running

----------------------------------------------------------------------------
At(s) == stage = s

Goto(s) == stage' = s /\ UNCHANGED <<args, options, exit>>

(* A message and the end of the process.                                   *)
Die(message, how) ==
  /\ stderr' = stderr \cup {message}
  /\ stage' = "exit" /\ exit' = how
  /\ UNCHANGED <<args, options, memory, stdout, jitVars>>

(* A stage that succeeds writes its dump when the flag is set.             *)
Pass(dump, s) ==
  /\ stdout' = IF dump \in options THEN Append(stdout, dump) ELSE stdout
  /\ Goto(s)
  /\ UNCHANGED <<memory, stderr, jitVars>>

Usage == At("main") /\ args = <<>> /\ Die("usage", 1)

(* Mutant: the argument before the file is not looked at.                  *)
ParseArgsShort ==
  /\ At("main") /\ args # <<>>
  /\ options' = {args[k] : k \in 1 .. Len(args) - 2} \cap Flags
  /\ stage' = "read"
  /\ UNCHANGED <<args, memory, stdout, stderr, exit, jitVars>>

(* The last argument is the file, whatever it looks like; a flag that is   *)
(* not known is passed over.                                               *)
ParseArgs ==
  /\ At("main") /\ args # <<>>
  /\ options' = {args[k] : k \in 1 .. Len(args) - 1} \cap Flags
  /\ stage' = "read"
  /\ UNCHANGED <<args, memory, stdout, stderr, exit, jitVars>>

(* When ftell fails, resize gets a length there is no memory for and the   *)
(* process is terminated.                                                  *)
ReadFile ==
  /\ At("read")
  /\ \/ Last(args) = File /\ Goto("lex")
        /\ UNCHANGED <<memory, stdout, stderr, jitVars>>
     \/ Die("couldn't read file", 1)
     \/ Last(args) = File /\ Die("terminated", Signal)

Lex   == At("lex") /\ (Pass("--dump-tokens", "parse") \/ Die("lexer error", 1))
Parse == At("parse") /\ (Pass("--dump-ast", "compile") \/ Die("parser error", 1))

CompileStep == At("compile") /\ Compile /\ UNCHANGED <<machine, driver>>

(* Mutant: the error of Compile is printed and then forgotten.             *)
CompileErrorForgotten ==
  /\ At("compile") /\ phase = "error"
  /\ stderr' = stderr \cup {"compiler error"}
  /\ Goto("return")
  /\ UNCHANGED <<memory, stdout, jitVars>>
CompileError == At("compile") /\ phase = "error" /\ Die("compiler error", 1)

(* Mutant: the dump of the code is written only when it is not executed.   *)
CompileDoneQuiet ==
  /\ At("compile") /\ phase = "done"
  /\ IF "--no-exec" \in options THEN Pass("--dump-code", "return")
     ELSE Goto("map") /\ UNCHANGED <<memory, stdout, stderr, jitVars>>
CompileDone ==
  /\ At("compile") /\ phase = "done"
  /\ Pass("--dump-code", IF "--no-exec" \in options THEN "return" ELSE "map")

----------------------------------------------------------------------------
(* ExecuteCompileResults.                                                  *)

Map ==
  /\ At("map")
  /\ \/ memory' = "writable" /\ UNCHANGED stderr /\ Goto("protect")
     \/ stderr' = stderr \cup {"mapping memory failed"} /\ UNCHANGED memory
        /\ Goto("return")
  /\ UNCHANGED <<stdout, jitVars>>

(* The code is copied into the pages; whether mprotect fails is not asked. *)
Protect ==
  /\ At("protect")
  /\ memory' \in {"writable", "executable"}
  /\ Goto("call")
  /\ UNCHANGED <<stdout, stderr, jitVars>>

Enter ==
  /\ At("call") /\ memory = "executable"
  /\ Launch /\ Goto("run")
  /\ UNCHANGED <<memory, stdout, stderr, vars>>

EnterFault == At("call") /\ memory # "executable" /\ Die("killed", Signal)

RunStep == At("run") /\ Execute /\ UNCHANGED <<vars, driver>>

(* Mutant: the fault is ignored and its instruction tried again.           *)
StackFaultIgnored == At("run") /\ run = "overflow" /\ UNCHANGED driverVars
StackFault == At("run") /\ run = "overflow" /\ Die("killed", Signal)

Unmap ==
  /\ At("run") /\ run = "exited"
  /\ memory' = "none"
  /\ Goto("return")
  /\ UNCHANGED <<stdout, stderr, jitVars>>

Return ==
  /\ At("return")
  /\ stage' = "exit" /\ exit' = 0
  /\ UNCHANGED <<args, options, memory, stdout, stderr, jitVars>>

Ended == At("exit") /\ UNCHANGED driverVars

Work ==
  \/ Usage \/ ParseArgs \/ ReadFile \/ Lex \/ Parse
  \/ CompileError \/ CompileDone
  \/ Map \/ Protect \/ Enter \/ EnterFault \/ RunStep \/ StackFault \/ Unmap
  \/ Return

DriverNext == CompileStep \/ Work \/ Ended

(* The process is scheduled as long as it has not ended: weak fairness of  *)
(* all it does.  That of CompileStep is written with the states in which   *)
(* it can be taken.                                                        *)
Compiling == At("compile") /\ phase \notin {"done", "error"}
Fairness ==
  /\ WF_driverVars(Work)
  /\ []<>~Compiling \/ []<><<At("compile") /\ vars' # vars>>_driverVars

DriverSpec == DriverInit /\ [][DriverNext]_driverVars /\ Fairness

----------------------------------------------------------------------------
Requested == {args[k] : k \in 1 .. Len(args) - 1}

(* The exit status does not lie: it is 1 exactly when an error message of  *)
(* the command line, the file or the compiler was written, and then no     *)
(* code has run; it is 0 only when the program ran to its end, unless      *)
(* --no-exec asked not to or mmap failed with a message.                   *)
OutcomeTold ==
  stage = "exit" =>
    /\ exit = 1 <=> stderr \cap {"usage", "couldn't read file", "lexer error",
                                 "parser error", "compiler error"} # {}
    /\ exit = 1 => run = "off"
    /\ exit = 0 => \/ run = "exited" \/ "--no-exec" \in Requested
                   \/ "mapping memory failed" \in stderr

(* Code runs only when all of it was compiled without an error, when       *)
(* --no-exec does not stand before the file, and from pages that are       *)
(* executable and no longer writable; none is left when main is over.      *)
OnlyReadyCodeRuns ==
  /\ run # "off" => phase = "done" /\ "--no-exec" \notin Requested
  /\ run = "on" => memory = "executable"
  /\ exit = 0 => memory = "none"

Wanted(d) == IF d \in Requested THEN <<d>> ELSE <<>>

(* The dumps that were asked for come in the order of the stages, before   *)
(* the output of the program, and none is missing when all stages passed.  *)
DumpsInOrder ==
  LET wanted == Wanted("--dump-tokens") \o Wanted("--dump-ast") \o Wanted("--dump-code")
  IN IsPrefix(stdout, wanted) /\ (run # "off" \/ exit = 0 => stdout = wanted)

(* The process ends, unless the program it runs goes on forever.           *)
ProcessEnds == <>(stage = "exit") \/ <>[](run = "on")
=============================================================================
