------------------------------- MODULE Source -------------------------------
(***************************************************************************)
(* What an asmscript program does, statement by statement: the abstract    *)
(* specification of its compilation, with no code and no addresses.  The   *)
(* data of a program is abstracted away: a condition compares its operands *)
(* with any outcome.                                                       *)
(***************************************************************************)
EXTENDS Program

CONSTANTS Main,      \* the procedure that is run
          MaxCalls   \* calls in progress that the stack has room for

VARIABLES
  src,    \* the program
  mode,   \* "load" while src is given, then "run", then how it ended
  at,     \* the item reached
  ph,     \* "test" the condition, "decide" on it, or "act"
  rel,    \* how the operands last compared
  calls   \* the items the procedures in progress return to

vars == <<src, mode, at, ph, rel, calls>>

Init ==
  /\ src = <<>> /\ mode = "load"
  /\ at = 0 /\ ph = "act" /\ rel = "eq" /\ calls = <<>>

----------------------------------------------------------------------------
(* Items that do nothing: a loop without a condition, the end of a branch. *)
Transparent(p, i) ==
  \/ p[i].tag = "proc"
  \/ p[i].tag = "loop" /\ p[i].cond = NoCond
  \/ p[i].tag = "end" /\ p[Opener(p, i)].tag = "branch"

Settled(p, i) ==
  CHOOSE k \in i .. Len(p) : ~Transparent(p, k) /\ \A j \in i .. k - 1 : Transparent(p, j)

PhaseOn(p, i) == IF p[i].cond = NoCond THEN "act" ELSE "test"

(* Control reaches item i.                                                 *)
Arrive(i) ==
  /\ at' = Settled(src, i)
  /\ ph' = PhaseOn(src, Settled(src, i))
  /\ UNCHANGED mode

EntryOf(name) ==
  (CHOOSE j \in 1 .. Len(src) : src[j].tag = "proc" /\ src[j].name = name) + 1

Stop(how) == mode' = how /\ at' = 0 /\ ph' = "act" /\ calls' = <<>>

----------------------------------------------------------------------------
Load   == mode = "load" /\ UNCHANGED <<mode, at, ph, rel, calls>>
Reject == mode = "load" /\ Stop("rejected") /\ UNCHANGED <<src, rel>>
Start  == mode = "load" /\ mode' = "run" /\ UNCHANGED <<src, rel, calls>>
          /\ at' = Settled(src, EntryOf(Main))
          /\ ph' = PhaseOn(src, Settled(src, EntryOf(Main)))

Compare ==
  /\ mode = "run" /\ ph = "test"
  /\ rel' \in Relations
  /\ ph' = "decide"
  /\ UNCHANGED <<src, mode, at, calls>>

Decide ==
  /\ mode = "run" /\ ph = "decide"
  /\ IF ~Holds(src[at].cond.comp, rel) THEN Arrive(After(src, at))
     ELSE IF src[at].tag \in BlockTags THEN Arrive(at + 1)
     ELSE ph' = "act" /\ UNCHANGED <<mode, at>>
  /\ UNCHANGED <<src, rel, calls>>

Acts(tags) == mode = "run" /\ ph = "act" /\ src[at].tag \in tags

Act ==
  /\ Acts({"straight", "text"})
  /\ Arrive(at + 1)
  /\ UNCHANGED <<src, rel, calls>>

(* The end of a then block that an else block follows.                     *)
PassElse ==
  /\ Acts({"else"})
  /\ Arrive(MatchEnd(src, Opener(src, at)) + 1)
  /\ UNCHANGED <<src, rel, calls>>

Repeat ==
  /\ Acts({"end"})
  /\ Arrive(Opener(src, at))
  /\ UNCHANGED <<src, rel, calls>>

BreakOrContinue ==
  /\ Acts({"break", "continue"})
  /\ LET loop == InnermostLoop(src, at)
     IN Arrive(IF src[at].tag = "break" THEN MatchEnd(src, loop) + 1 ELSE loop)
  /\ UNCHANGED <<src, rel, calls>>

Call ==
  /\ Acts({"call"})
  /\ IF Len(calls) < MaxCalls
     THEN /\ Arrive(EntryOf(src[at].name))
          /\ calls' = Append(calls, Settled(src, at + 1))
     ELSE Stop("overflow")
  /\ UNCHANGED <<src, rel>>

Return ==
  /\ Acts({"return", "endproc"})
  /\ IF calls = <<>> THEN Stop("returned")
     ELSE /\ Arrive(calls[Len(calls)])
          /\ calls' = SubSeq(calls, 1, Len(calls) - 1)
  /\ UNCHANGED <<src, rel>>

Step == Compare \/ Decide \/ Act \/ PassElse \/ Repeat \/ BreakOrContinue
          \/ Call \/ Return
Next == Load \/ Reject \/ Start \/ Step

(* A running program never stalls: weak fairness of Step, written with the *)
(* states in which <<Step>>_vars is enabled, all but those of a loop that  *)
(* does nothing but repeat.                                                *)
Spins ==
  /\ ph = "act"
  /\ \/ src[at].tag = "end" /\ Settled(src, Opener(src, at)) = at
     \/ src[at].tag = "continue" /\ Settled(src, InnermostLoop(src, at)) = at
CanStep  == mode = "run" /\ ~Spins
Fairness == []<>~CanStep \/ []<><<Step>>_vars

Spec == Init /\ [][Next]_vars /\ Fairness
============================================================================
