# A verification of asmscript

asmscript is a tiny just-in-time compiler for x86-64: it reads one source file, turns it into machine
code in one pass over the syntax tree, and calls that code. This directory holds TLA+ modules translated
from its source, the TLC configurations that check them on small instances, and proofs for every
program size where the argument does not depend on the size.

## 1. The system

| part | source | state it keeps | operations |
|---|---|---|---|
| driver | `main.cpp`, `RunFile` in `runtime.cpp` | flags, the source text | `main` takes flags from `argv[1..argc-2]` and the file from the last argument; `RunFile` runs ReadFile, Lex, Parse, Compile, the dumps asked for, and ExecuteCompileResults, and returns at the first error |
| common utilities | `common.*`, `error.h`, `types.h` | none | ReadFile, Format, the shared types |
| lexer | `lexer.*` | a pointer into the text, line and column | `Lex`: one token per turn, comments and blanks skipped |
| parser | `parser.*` | a token iterator | recursive descent: procedures, statement lists, statements, operands, conditions |
| code generator | `compiler.cpp` from line 464, `compiler.h` | `code`, `callTable`, `procedureMap`; the globals `loopBreaks` and `loopContinues`; and, in the activations of `CompileStatement`, `startPtr`, `conditionalJumpPtr`, `jumpPastElsePtr` and `ifBlockEndPtr` | `Compile`, `CompileProcedure`, `CompileStatement`, `CompileCondition`, `CompileStartProcedure` |
| instruction encoders | `compiler.cpp` up to line 463 | the byte string | `Emit*`, `WriteJump`, `WriteCall` |
| execution | `ExecuteCompileResults`, `Print` | the executable mapping; the processor's registers, flags and stack | mmap, copy, mprotect, call, munmap |
| dump printing | `runtime.cpp` | none | `PrintLexResults`, `PrintParseResults`, `PrintCompileResults` |

The parts run one after the other in one thread and hand each other values. What makes this program hard
is *time within the compilation*. The generator does not know the target of a jump or a call when it gets
to it; it leaves nops, remembers the offset in one of seven places (two global sets, one map, and locals of
activations that may be suspended over any number of inner statements), and overwrites the nops later. Two
of those places are shared by all loops and all procedures; two are walked in the unspecified order of an
`unordered_map`. Nothing checks that what is overwritten is what was reserved, and a mistake is not an
error message but a processor running into the middle of an instruction.

What has to be true of each part:

* generator: whatever is compiled between the moment a place is remembered and the moment it is written, the
  place still holds its nops and belongs to one writer; nothing generated is changed; jumps stay inside
  their procedure and land on instructions; a `break` and a `continue` belong to the innermost loop; a
  condition guards its statement exactly; every call calls the procedure it names;
- generator and processor together: the code does what the program says, and goes on doing it;
* encoders: the code of a statement computes its result in its destination, for every choice of operand
  registers and every word, and disturbs nothing else (three forms do not, section 4);
* lexer: the text is cut into the longest lexemes, all of it and in order, with exact values and places, and
  the scan ends; parser: an accepted token list gives the tree that writes out as those tokens, a list is
  refused only when the grammar refuses it, and the tree has what the generator dereferences without looking;
* driver: errors end the run and are reported, nothing runs that was not compiled completely, and the exit
  status and the dumps say what happened.

There is no concurrency, no message and nothing persistent. The hazards are orders of steps, state that is
stale when used, boundaries of numbers, and outside failures (mmap, mprotect); they are listed line by line
in `PROJECT.json`.

## 2. The modules

| module | models |
|---|---|
| `Program` | the syntax tree (`parser.h`, `types.h`), written out in program order: one item per statement, an item for each begin and end of a procedure, a block or an else part; block structure is recovered from nesting depths |
| `MachineCode` | the byte string `code` as instructions by byte offset: `Emit` (push_back, append), `EmitNop`, `Patch` (what `WriteJump` and `WriteCall` do to the bytes below them) |
| `CodeGen` | `Compile` and everything below it |
| `Jit` | `CodeGen`, then the processor running the result from the start procedure on |
| `Source` | the abstract specification: what a program does, statement by statement, with no code and no addresses |
| `Straight` | the encoders and the statements without jumps, on a processor with small words |
| `Lexer` | `Lex` and everything below it, over the characters of a file |
| `Parser` | `Parse` and everything below it, over a token list |
| `Driver` | the process: `main`, `RunFile`, `ExecuteCompileResults`, around the compiler of `CodeGen` and the processor of `Jit`, which it extends |
| `CodeGenProofs` | lemmas about the byte string; theorems about `CodeGen`: types, reserved places, intact code, patches |
| `StatementProofs` | theorems about `CodeGen`: calls, conditions, break and continue |
| `JumpProofs` | theorem about `CodeGen`: jumps stay in their procedure |
| `ItemProofs` | theorems about `CodeGen`: which code belongs to which item, and where the jumps of blocks and over statements go |
| `JitProofs` | theorems about `Jit`: the processor never leaves the code, and does what the program says |
| `DriverProofs` | theorems about `Driver`, and what the process inherits from the others |
| `LexerProofs` | theorems about `Lexer` |
| `ParserProofs` | theorems about `Parser`: types, names, and what the generator is given |
| `MCCodeGen`, `MCJit`, `MCDriver`, `MCStraight`, `MCLexer`, `MCParser` | the values the configurations give the constants |

`Lexer` and `Parser` stand alone: what they hand on is a token list and a tree, and the tree's contract with
the generator is `FitsCodeGen` on one side and `Parsed` in `CodeGen` on the other.

**MachineCode.** An instruction is its kind, its length, an absolute target, and, for cmp and jcc, the order
of the operands or the comparison tested. Displacements are relative in the code and absolute here: both
are computed from the offset written to, and the code is never moved except as a whole. Overwriting part of
an instruction leaves it `torn`; an overwritten first byte leaves nothing that starts there. So a write at
a wrong offset has the effect in the model that it has on the bytes.

**CodeGen.** `frames` is the recursion of `CompileStatement`, one record per activation with its locals, and
`part` says how far it is; `src` is the program as read so far. The environment chooses each next statement
when the generator reaches it, so one run covers all programs within the bounds. The actions follow the
function: `BeginProcedure` (an iteration of `Compile`'s loop, in any order), `EnterStatement` (up to the
switch: `startPtr`, the comparison, six nops) and `BadCondition`, one action per case of the switch,
`BeginElse`, `EndThen`, `EndElse` and `EndLoop` for the ends of statement lists, `LeaveStatement` (after the
switch: the jump around the statement; with it goes the caller's next line, which reserves five nops after
each statement of a then block), `EndProcedure` and `StrayLoopControl`, `CompileStart`, and `LinkCall` and
`MissingProcedure` for the last loop over `callTable`, in any order. Assignment, Shorthand, Stdout, Push and
Pop are one opaque instruction `straight`: they neither jump nor leave anything to write later.

Constants bound the programs: `Names`, `Conditions`, `Tags`, `BodyLens` and `TextLens` (code lengths of a
straight statement and of a literal), `MaxStatements`, `MaxDepth`. `Forms` names four program forms that the
code treats differently from what the documentation says (section 4); a configuration says which of them its
programs may contain. A block that has to hold a statement may exceed `MaxStatements` by that one.

**Jit.** `pc`, `stack` and `flags` are the processor's. A cmp leaves any of the three outcomes in the flags,
since the model has no data. `Launch` is the call in `ExecuteCompileResults`. The stack has room for
`MaxCalls` return addresses besides those of main and the start procedure; one more call is the overflow that
ends a real process. `ItemAt` maps an address back to the statement it belongs to; with it, `Program ==
INSTANCE Source WITH ...` states that the processor's run *is* a run of the source program.

**Source.** Not translated from the generator: it is the promise the documentation makes, and only `Program`
is shared. Items that generate no code (a loop's head without a condition, the end of a branch) take no step.

**Straight.** Registers have their numbers of `types.h`, split into the three ModRM/opcode bits and the REX
bit, so that exchanging the fields or losing an extension bit picks another register here as there. `idiv`
divides the double word and traps; slots below the stack pointer are memory that a call may destroy; `Print`
leaves any word in the caller-saved registers. A string output computes the address of its text with `lea` from
a distance in bytes, so here the instructions around it have their sizes. Words have `WordBits` bits, the two immediate sizes
`DwordBits` and `ByteBits`; what matters is that they are three different ranges. `Forms` names three statement
forms that the code computes wrongly (section 4); the code has no guard against them, and `Admitted` is the bound
on the inputs that keeps them out of a configuration or lets one of them in.

**Lexer.** An action is one turn of `Lex`'s loop: blanks are skipped (`Here`), then one alternative matches,
each guarded by the failure of those the code tries before it. `Char` gives the terminating NUL a place of its
own and nothing behind it a value. A token keeps the extent it was made from, which the code does not, so that
properties can compare it with the text. `Scans` is the loop of `LexString`, as a function of the character it is
at, and `Scan` its result for one string; `PosAt` and `atoll` are functions of this kind too, so that they can be reasoned about. A comment that ends with the file
takes the pointer past the NUL; from there the code reads whatever follows the buffer, and the model stops with
`status = "beyond"`. `atoll` gives any number when the digits exceed `MaxInt`. The properties use a description of
lexemes that knows no scanner: `IsLexeme`, `Escaped`; and one of values that knows no `atoll` and no buffer: `Writes`
takes the digits off a number from the right, where `atoll` adds them up from the left, and the n-th character of a
string's value is what the n-th character that counts (`Meant`) stands for (`Meaning`).

**Parser.** `todo` is the call stack of the `Parse...` functions, written as the steps they have still to do;
`blocks` the statement lists in progress; `parserSuccess` the global through which functions say whether they
matched, set and read where the code does it. The token looked at is the last of `tokens`, and the environment
chooses the next when it is passed, so one run covers all token lists within the bound. A list of statements is
flat, as in `Program`. `Syntax` and `ProgramTexts` say the grammar a second time, once from the tree and once as a
set of token lists; an else block without statements cannot be told from an absent one.

**Driver.** `stage` says which call of `main`, `RunFile` or `ExecuteCompileResults` is next. Reading, lexing and
parsing succeed or fail, whatever the file; compiling is `CodeGen`'s `Compile`, step by step; mmap fails with a message
and exit status 0, as in the code; the result of mprotect is not asked for, so that the call may find pages that
are not executable; running is `Jit`'s `Execute`; the end of the stack and such a call end the process with a
signal. `stdout` and `stderr` hold which dumps and messages were written.

## 3. The runs

| run | module, cfg | programs | states | shows |
|---|---|---|---|---|
| codegen | MCCodeGen, `codegen.cfg` | one procedure: two statements of any kind; loops, branches, breaks and continues nested 3 deep, with one comparison and operands the compiler refuses, 4 statements, loops entered with a break pending | 296k | `TypeOK`, `PendingReserved`, `CodeIntact`, `JumpsStayInProcedure`, `SkipsToNext`, `BlocksJump`, `PatchesInPlace` |
| process | MCDriver, `process.cfg` | the whole process with seven command lines and every failure; five families of programs, below | 346k | `ConditionExact`, `LoopControlBinds`, `CallsReachEntry`, `NeverWild`, `OutcomeTold`, `OnlyReadyCodeRuns`, `DumpsInOrder`, `ProcessEnds`, the refinement `RunsTheProgram` and its liveness `NeverStalls` |
| arithmetic | MCStraight, `arithmetic.cfg` | every statement over five operand registers, push, pop and outputs of values and texts included, with every pair of words except in three forms: `/=` and `%=` with a negative destination or an immediate, `*=` with an immediate of more than 32 bits | 304k | `ComputesExactly`, `TrapsOnZero` |
| lexer | MCLexer, `lexer.cfg` | every text of up to 4 or 5 characters over six alphabets | 114k | `TypeOK`, `LongestMatch`, `NothingLost`, `StopsWhereNothingStarts`, `PositionsExact`, `ValuesExact`, `OnlyLastCommentRunsOut`, `LexingEnds` |
| parser | MCParser, `parser.cfg` | every token list over seven vocabularies, of up to 12 to 18 tokens | 866k | `TypeOK`, `RoundTrip`, `ErrorsAreErrors`, `NamesUnique`, `FitsCodeGen`, `ParsingEnds` |

The programs are too many for one bound on all of them; an action constraint (`InFamily` in `MCCodeGen` and
`MCDriver`) says which the environment may write. In `codegen`, four statements have either no continue among them or
conditions on branches and continues only. What a process does with its command line does not depend on the
program it compiles, so in `process` each command line with a file has a family of programs of its own (`Family` in `MCDriver`):

| command line | programs | what happens to them |
|---|---|---|
| `prog` | one procedure, 3 statements: loops, branches with and without else, breaks, string outputs | run |
| `--dump-code prog` | one procedure, 4 statements: the same without outputs, conditions on branches only | run |
| `--dump-tokens --unknown --dump-code prog` | two procedures, either or both or none present, 2 statements: calls and recursion, return, branches | run |
| `--dump-ast --no-exec prog` | one procedure, 2 statements: straight, longhand, loops, breaks and continues, each comparison with each encoded length, operands the compiler refuses | compiled |
| `--dump-tokens --no-exec prog` | two procedures in any order, 2 statements: loops, breaks and continues | compiled |

The other two have no argument, and a flag where the file is. Neither `InFamily` takes a step away from the
compiler or the processor: a statement list can always end, or go on with a statement it owes, so no behaviour stops where the process has to go on. Only a family of one
procedure ends where Compile begins with another set of procedures.

Why the bounds are enough. Interference needs a place, something compiled between its reservation and its
use, and an outer activation that has a place of its own: three levels of nesting and four statements give
every pair of kinds of place inside a third, before and after each other. Then blocks with two statements,
the only case in which a reserved jump is never used, and else blocks fit too. The processor runs programs of
four statements when only branches have conditions, and of three otherwise. Two procedures give both
orders of compilation for every call, forward, backward and to itself, and two return addresses beyond the
first let a callee return into a caller that returns again. Comparisons act alone, so two statements
(a loop or a continue with another statement inside or after it) are enough to meet each of them in each
place; that the processor then acts on the right outcome is checked with one of them. The proofs of
section 5 remove these bounds for every property of `codegen`, for the safety properties of `process`, the refinement
included, for those of `lexer`, and for those of `parser`
except `RoundTrip` and `ErrorsAreErrors`. In
`arithmetic` the registers are rax, rbx, rdx, rsi and rdi, which the code uses itself, with r8 and r11, which share
their low bits with rax and rbx, and statements use five of them; all words are tried, so all boundary values of the three ranges are, except in the
three forms of section 4: there the dividends are not negative, the divisors are registers and the immediates of
`*=` fit 32 bits, so `TrapsOnZero` says that division by zero is the only trap. Negative dividends are the subject
of `signeddiv`, the other two of `divimm` and `mulwide`.

The alphabets of `lexer` bring together what can interfere: letters that make a keyword, a prefix of one and one
with a digit behind; characters that are an operator alone or in pairs; slashes, line breaks and the NUL; quotes
with backslashes and the characters they escape; numbers on both sides of `MaxInt`. Two lexemes with a blank or a
third one between them fit into four, and so does a string with an escape or an unfinished one with two. The vocabularies of
`parser` are one per group of statements, with tokens that are out of place; the lengths are what a procedure
with one such statement, its condition and, for blocks, a block inside a block or an else block with a statement
need, and two procedures for the names.

Fairness. `Lexer` and `Parser` assume weak fairness of `Next`: nothing interrupts their loops. `DriverSpec` assumes
it of all the process does; the part of it that concerns compiling is written out, with the states in which a
step can be taken, because TLC would otherwise have to ask whether one of `Compile`'s many actions is enabled.
`ProcessEnds` then still allows a program that loops forever, and only that. `JitSpec`, the compiler and the processor without the
process around them, assumes weak fairness of `Processor`: a processor that can execute its next instruction does. Nothing is assumed about the compiler: `Source` leaves `load` whenever it likes. `Source` promises that
a program that can take a step takes one, except in a loop that only jumps to itself, where no step changes
anything; its fairness is written out without ENABLED, because ENABLED does not commute with the substitution
of the refinement.

Deadlock is checked in all runs but `lexer` and `parser`, which stop at the end of the text or at an error, as
`LexingEnds` and `ParsingEnds` say they must. Elsewhere `Returned`, `Finished`, `Stopped` and `Ended` are the steps of
a program that has ended and change nothing.

## 4. Where the code and its documentation differ

Each of these is the subject of a run whose one property TLC finds violated. The passing runs leave the form
out (`Forms`), except that `codegen` keeps `pendingLoop`: there the wrong loop is jumped out of, but
the code is intact and the jumps stay in the procedure.

| run | form | what happens |
|---|---|---|
| nestedbreak | `pendingLoop` | every loop that ends takes all pending breaks and continues, also those of an outer loop or of no loop: `break` then leaves the wrong loop, and a stray break before a loop compiles |
| immleft | `immLeft` | `imm < reg` is compiled as the negation of `reg < imm`, not as its mirror image |
| emptythen | `emptyThen` | an empty then block before an else block: the jump past the else block is written at offset 0 |
| textif | `textIf` | a string output with a condition: the jump over the literal is written over the comparison |
| divimm | `divideByImm` | `/=` and `%=` with an immediate read the divisor from the stack slot of that number |
| signeddiv | `signedDividend` | `/=` and `%=` with a negative destination: rdx is cleared and not sign-extended before `idiv`, which divides a large positive number; the quotient or remainder is wrong, or not a word, as in -5 `/=` 1, and then `idiv` traps |
| mulwide | `multiplyByWide` | `*=` with an immediate of more than 32 bits: the immediate overwrites the destination and is squared |

The documents promise signed 64-bit division and modulo (`docs/statements.html:40`, `docs/index.html:28`) and
64-bit literals even where an instruction takes no such immediate (`docs/index.html:29`). Either of
`/=` and `%=` alone violates `signeddiv`'s property too.

## 5. The proofs

TLAPS checks every proof, to the last leaf. The theorems hold for all values of the constants that satisfy the
assumptions stated with them, so for programs of every size, nesting and number of procedures, and for texts and
token lists of every length:

| theorem | states | if |
|---|---|---|
| `CodeGenProofs!TypeCorrect` | `Spec => []TypeOK` | `SafeForms` |
| `CodeGenProofs!PlacesReserved` | `Spec => []PendingReserved` | `SafeForms` |
| `CodeGenProofs!CodeStaysIntact` | `Spec => []CodeIntact` | `SafeForms` |
| `CodeGenProofs!PatchedInPlace` | `Spec => PatchesInPlace` | `SafeForms` |
| `StatementProofs!CallsBound` | `Spec => []CallsReachEntry` | `SafeForms` |
| `StatementProofs!ConditionsBound` | `Spec => []ConditionExact` | `SafeForms`, no `immLeft` |
| `JumpProofs!JumpsBound` | `Spec => []JumpsStayInProcedure` | `SafeForms` |
| `StatementProofs!LoopControlBound` | `Spec => []LoopControlBinds` | `SafeForms`, no `pendingLoop` |
| `ItemProofs!SkipsBound` | `Spec => []SkipsToNext` | `SafeForms` |
| `ItemProofs!BlocksBound` | `Spec => []BlocksJump` | `SafeForms` |
| `JitProofs!NeverLost` | `JitSpec => []NeverWild` | `SafeForms` |
| `JitProofs!ProgramRuns` | `JitSpec => RunsTheProgram` | `SafeForms`, no `immLeft`, no `pendingLoop` |
| `DriverProofs!ReadyCodeRuns` | `DriverSpec => []OnlyReadyCodeRuns` | |
| `DriverProofs!OutcomesTold` | `DriverSpec => []OutcomeTold` | |
| `DriverProofs!DumpsOrdered` | `DriverSpec => []DumpsInOrder` | |
| `DriverProofs!ProcessRuns` | `DriverSpec => JitRuns`: the process implements compiling and running | |
| `DriverProofs!RunsSoundCode` | `CodeIntact`, `CallsReachEntry`, `JumpsStayInProcedure`, `NeverWild` of the process | `SafeForms` |
| `DriverProofs!RunsMeantCode` | `ConditionExact`, `LoopControlBinds` of the process | `SafeForms`, no `immLeft`, no `pendingLoop` |
| `DriverProofs!ProcessRunsProgram` | `DriverSpec => RunsTheProgram` | `SafeForms`, no `immLeft`, no `pendingLoop` |
| `LexerProofs!LexerTypes` | `Spec => []TypeOK` | |
| `LexerProofs!LongestMatches` | `Spec => []LongestMatch` | |
| `LexerProofs!NoCharacterLost` | `Spec => []NothingLost` | |
| `LexerProofs!ScanStopsRightly` | `Spec => []StopsWhereNothingStarts` | |
| `LexerProofs!PlacesTold` | `Spec => []PositionsExact` | |
| `LexerProofs!ScanStaysInBuffer` | `Spec => []OnlyLastCommentRunsOut` | |
| `LexerProofs!LexerValues` | `Spec => []ValuesExact` | |
| `ParserProofs!ParserTypes` | `Spec => []TypeOK` | |
| `ParserProofs!NamesAreUnique` | `Spec => []NamesUnique` | |
| `ParserProofs!OutputFits` | `Spec => []FitsCodeGen` | |

The hypotheses in the last column are about `Forms` only, and each is necessary. `SafeForms` says that neither `emptyThen` nor
`textIf` is among the forms: the runs of these names violate `CodeIntact` and `NeverWild`. The run `immleft`
violates `ConditionExact` and `nestedbreak` violates `LoopControlBinds`. A form that is not excluded is
covered: loops entered with breaks pending and immediates on the left are wrong in what they mean, not in where
they write. `CodeGenAssumption`, `LexerAssumption` and `ParserAssumption` say what the constants are: sets of names,
lengths, classes of characters that do not overlap, names other than the absent one and tokens with a value other than
the keyword `proc` (a token carries its tag). The configurations satisfy them, as TLC checks.

**What is reserved** (`CodeGenProofs`). The inductive invariant is `IInv == TypeOK /\ PendingReserved /\
CodeIntact /\ FramesOK`. `PendingReserved` alone is not inductive, because which places are pending depends on
how far each activation is, and because overwriting a place keeps the code decodable only if the code around it
was. `FramesOK` says what the activations are while they wait: only the innermost may be emitting or done; a
frame in a then or else part is a branch and so has a condition, whose place is reserved; a frame in an else part
remembers a real `jumpPastElsePtr` and not the initial 0; a string output about to be emitted has `startPtr`
equal to the end of the code. The last two are where the proof needs `SafeForms`. The first lemmas are the
facts about the buffer: appending keeps it decodable, keeps reserved places and adds a reserved place when nops
are appended; overwriting reserved nops keeps it decodable and changes no other instruction. There is one lemma
per action or group of alike actions, each of which gives `IInv'` and that no instruction was changed.

**What statements become** (`StatementProofs`). `CallInv` follows a call from the item of the program through
`callTable` and `uncalled` to the instruction, and the name through `procedureMap` to the item of the procedure.
`ConditionsCompiled` follows a condition to its comparison, and the jump behind it from the activation that
remembers its place to the place. That nothing overwrites either once it is there is `PatchedInPlace`.

**Where jumps go** (`JumpProofs`). `JInv` says of each offset that is jumped to, or is kept to be jumped to
later, that an instruction starts there or the code ends there, and that it is not inside a place still to be
written; the second part is what makes the first inductive, since writing a place ends the nops in it. `Walls`
are the offsets where procedures begin and end: no jump crosses one, nothing kept to be jumped to or written,
except calls, lies behind one. `Writes` says in one formula what a step may do to the buffer, so that each
action needs only one lemma about what it writes where.

**Which loop** (`StatementProofs`). `LoopInv` says that each loop of the program is either ended or open in exactly
the activation that compiles it, and that each break and continue is bound to its loop or waits in its table with
the innermost open loop as its loop. Without `pendingLoop`, nothing waits when a loop begins, so all that waits
when it ends is its own; that the innermost loop is *the* loop is then a matter of depths.

**Which code is whose** (`ItemProofs`). `ItemInv` relates the program to the code. `StatementsTracked`: every
statement is compiled by one activation (`Runs`) or complete (`Completed`): a block then has its markers, found by
depth, and its jumps go to them. `ItemsLaid`: the code of the items lies in the order of the program, each at its
`at` and as long as its kind says, with nothing between two items but nops that nobody will write to. These are the
places of jumps past an else block that stay unused; `Writable` leaves out those of a then block but the last, and
`LastLaid` says that the last is what the `else` marker is put at. Here `SafeForms` is needed once more: with an
empty then block there is no such place. `ProceduresClosed`: the program ends with the end of a procedure, so that
every other item has a next one. At the end no activation is left and the two theorems remain (`CompiledWhenDone`).
`SourceOK` says that markers have no condition and that a procedure is compiled once.

**Where the processor is** (`JitProofs`). `MachineTame`: `pc` and every return address on the stack are where
an instruction starts that is neither torn nor data. The next instruction exists since the code ends with the ret
of the start procedure and a literal is behind a jump, which are parts of `JInv`.

**What the processor does** (`JitProofs`). The program's position in `Source` is read off `pc` and `stack`
(`ItemAt`, `PhaseAt`), so the proof has no history to carry: the invariant says that there is something to read.
`Follows` says that while the program runs, `pc` is in one of three places of an item: `Arriving`, at its first
instruction or among nops before it that do nothing; `Deciding`, at the conditional jump, with flags that are those
of its condition for the relation the comparison found (`Compared`); `Acting`, behind its condition (or behind its text). It also says
that the bottom of the stack is the return into the start procedure, and that every other return address is where
control arrives at the item behind the call. `ArrivesAt`, `ArrivesBehind` and `Located` turn what the earlier modules say of the
code (`ReadyCode`: the items laid in order, calls, conditions, jumps and loop control bound) into those places, and
`Settles` says that passing over items without code, which `Source` does in one step, ends at an item: the
program ends with the end of a procedure. There is then one lemma per kind of instruction, `NopStep` to `RetStep`
and `StartStep` for the start procedure, each of which maps the step to a step of `Source` or to none at all
and gives `Follows` again. A comparison is right only without `immLeft`, a break only without `pendingLoop`.

**The process** (`DriverProofs`). `DInv == OptionsKept /\ RunPlaced /\ StatusFits`. What is claimed at the end
of the process has to be carried from where it is decided: that options are those requested, from `main` on; that
the compilation is done and running was not forbidden, from `"map"` on; which memory there is, at each stage; and
that no error message was written while the process goes on. `DumpsWritten` says what has been printed at each
stage. `ProcessRuns` holds because nothing but compiling touches what the compiler keeps and nothing but running
what the processor keeps; the two theorems after it carry the results above to the process.

**The scan** (`LexerProofs`). Each alternative of the loop is compared with the description of lexemes, which knows
no scanner: the `Longest...` lemmas say that what it takes is a longest lexeme, given that the alternatives tried
before it do not apply, and `NothingStarts` that where none applies there is no lexeme. The one for strings is the
hardest: `Scans` walks forward and skips what a backslash escapes, while `Escaped` counts the backslashes
backwards; `EscapedStep` and `ClosesStep` relate one step of the two, and `StringEnds` all steps. `LInv` then
carries this from token to token: what was passed is cut into longest lexemes, apart from each other
and in order, with white space between them, and the last one ends right before the pointer. Its parts are
`InBuffer`, `TokensTyped`, `PositionsExact`, `Passed`, `Apart`, `Covered`, `InOrder`, `CameTo` and `Ended`. Facts for
all lengths are proved by a least or a greatest counterexample (`HasLeast`, `HasGreatest`, `BufferInduction`); that
`Scans` and `PosAt`, which are defined by recursion, are functions that satisfy their equations is proved first.

`ValuesExact` is inductive beside `LInv`: a token is only added, and `EmitDenotes` asks of every alternative that the
value it gives is the one the characters denote. For numbers, `SumsMeetRests` shows that the sums from the left and the
remainders from the right meet in one number only, so `SumWrites`: the digits write what `atoll` adds up and nothing
else; when that is out of range, no number in range is written by them. For strings, `ScanValue` goes backwards over the
buffer with `ClosesStep`: a character that counts puts its meaning before the value of the rest (`OneMeant`), a
backslash that escapes puts nothing (`NoneMeant`).

**The tree** (`ParserProofs`). The properties speak of finished procedures, and what makes them true is spread over
the functions in progress, so the invariant `IInv` has to say what the call stack can be. `Shape(todo, blocks)` does:
each step has a level, the statement of `blocks` it belongs to (`Leads`), such that the steps follow one another
as the bodies of the functions allow (`Precedes`, `CondOrder`) and go down a level where a statement or a procedure
ends; a list being filled is one level more. Steps further down belong to statements of a kind that has them
(`StepFits`); of the innermost statement more is known when its turn comes (`HeadFits`): how many operands it has, and
how much of its condition, so that at its end the condition is absent or whole (`CondDone`) and its blocks are there
(`BlocksThere`). `StatementsFit` says that every list in progress is `Nested`: there is a depth for each place, one more
behind a loop or branch, one less behind an end, never negative and 0 at both ends of the list, and each else stands
in a branch. `NestedBoth` joins two such lists, `NestedBlock` puts one into a block, and `WrittenFits` uses both for
what `Emplace` writes; `ListSuits` turns the depths into the counts of `FitsCodeGen` (`DepthIs`, `OpenerIs`).

`StepTaken` is the heart of it: a stack stays a possible one when its first step is replaced by steps that lead on to
the second. `StatementBegins`, `StatementEnds`, `ListOpens`, `ListCloses`, `ProcedureBegins` and `ProcedureEnds` treat
the steps that change `blocks`. For all others, `Goes(t, p, s, z)` is what one action has to show of itself when it
replaces the first step of `t` by `p` and the statement `s` by `z`; the lemmas `Beyond...`, `GoesTo...`, `OperandOf...`
and so on show it for each function. `NamesKept` is about the tokens: the places behind a `proc` hold
the names of the procedures put out, each once, and, while a procedure is in progress, the name of its own
statement at one more (`Tracked`); that the statement at the bottom of `blocks` keeps this name until it is looked up
is part of what every action shows (`SameProcedure`). There is one lemma per action (`...Keeps`); `Inductive` collects
them.

Only model-checked:

* `ComputesExactly` and `TrapsOnZero`: arithmetic on words with division and powers of two, where a proof
  would be about the integers and not about this program; the run tries every statement it admits (section 3);
* `RoundTrip` and `ErrorsAreErrors` of the parser: they compare with a grammar that is written with folds
  (`FlattenSeq`, `SelectSeq`), whose arguments are operators, about which the backends do not reason, and with a
  finite set of programs;
* `NeverStalls`, `ProcessEnds`, `LexingEnds` and `ParsingEnds`: liveness, which the prover does not treat. With
  `RunsTheProgram`, which is proved, `NeverStalls` makes up the whole of `Source!Spec`.

## 6. Not modelled

* What the lexer reads behind the end of the buffer after a comment on an unfinished last line
  (`lexer.cpp:287`); `OnlyLastCommentRunsOut` says that nothing else leads there.
* `fread` returning less than the file's length (`common.cpp:17`), which leaves NULs at the end of the text.
* Stack alignment at the call of `Print`; the balance of `push` and `pop` over a procedure, which the program's
  author keeps. Each of the two would need the words pushed in the model of control flow.
* The trap of `idiv` in `Jit`: there a division is one of the opaque straight instructions and always goes on, so
  `RunsTheProgram` and `ProcessEnds` do not speak of a process that #DE ends. `Straight` has the trap.
* `Format` and `FormatV`, which word error messages, and the layout of the dumps.
* How deeply blocks may be nested before the recursion of the parser and of the generator exhausts the stack.
* Encodings below the fields of an instruction; 32-bit displacements that overflow (2 GB of code).

## 7. Plan

rsp modulo 16 and pushed words in `Jit`, for the two hazards of the stack that no property covers.
