------------------------------- MODULE Lexer -------------------------------
(***************************************************************************)
(* Lexer::Lex (lexer.cpp): the source text, with its terminating NUL, cut  *)
(* into tokens.  One action is one turn of the loop of Lex: white space is *)
(* skipped, then the alternatives are tried in the order of the code.      *)
(*                                                                         *)
(* A token also records the characters first .. last it was made from, and *)
(* comments is the set of the extents that were dropped: what the          *)
(* properties compare with the text.                                       *)
(***************************************************************************)
EXTENDS Integers, SequencesExt

CONSTANTS Texts,     \* the files: sequences of characters
          Letters,   \* the letters they use, the underscore being one
          KEYWORDS,  \* the words of the keyword table
          MaxInt     \* the greatest value of a number

VARIABLES
  text,      \* the file
  ptr, pos,  \* CodePtr: the place in the text, and its line and column
  tokens,    \* the output
  comments,  \* extents of the comments, [first, last]
  status     \* "lexing", "done", "error", or "beyond" the end of the buffer

vars == <<text, ptr, pos, tokens, comments, status>>

NUL       == "NUL"
LF        == "\n"
QUOTE     == "\""
BACKSLASH == "\\"

Blanks == {"\t", "\r", LF, " "}
Digits == <<"0", "1", "2", "3", "4", "5", "6", "7", "8", "9">>
IsDigit(c)            == c \in Range(Digits)
IsIdentifierStart(c)  == c \in Letters
IsIdentifierMiddle(c) == IsIdentifierStart(c) \/ IsDigit(c)

TwoChars ==
  {<<c, "=">> : c \in {"+", "-", "*", "/", "%", "&", "|", "^", "<", ">", "=", "!"}}
    \cup {<<"<", "<">>, <<">", ">">>}
OneChar ==
  {"[", "]", "(", ")", "{", "}", "+", "-", "*", "/", "%", "&", "|", "^", "=",
   "<", ">", "#", ",", ";"}

(* A file is a sequence of characters, and no letter is anything else that *)
(* the alternatives of Lex look for.                                       *)
ASSUME LexerAssumption ==
  /\ MaxInt \in Nat
  /\ \A t \in Texts : t \in Seq(Range(t))
  /\ Letters \cap (Blanks \cup Range(Digits) \cup OneChar \cup {NUL, "!", QUOTE}) = {}

(* What a backslash and a character stand for in a string.                 *)
Escapes ==
  [c \in {BACKSLASH, "0", "r", "n", "t"} |->
     CASE c = BACKSLASH -> BACKSLASH [] c = "0" -> NUL [] c = "r" -> "\r"
       [] c = "n" -> LF    [] c = "t" -> "\t"]

(* The buffer: the file and a NUL.  Reading behind it has no value.        *)
BufferEnd == Len(text) + 1
Char(i)   == IF i = BufferEnd THEN NUL ELSE text[i]

Start == [line |-> 1, col |-> 1]

(* Mutant: the column does not start again on a new line.                  *)
StepOverKeepsCol(p, c) ==
  [line |-> IF c = LF THEN p.line + 1 ELSE p.line, col |-> p.col + 1]
(* Mutant: columns counted from 0.                                         *)
StepOverFromZero(p, c) ==
  IF c = LF THEN [line |-> p.line + 1, col |-> 0] ELSE [p EXCEPT !.col = @ + 1]
(* CodePtr::operator+=, from character i up to character j.                *)
StepOver(p, c) ==
  IF c = LF THEN [line |-> p.line + 1, col |-> 1] ELSE [p EXCEPT !.col = @ + 1]
PosAt(p, i, j) ==
  LET at[k \in i .. j] == IF k = i THEN p ELSE StepOver(at[k - 1], Char(k - 1))
  IN at[j]

(* The first character from i on that is, or is not, one of a kind.        *)
First(i, Test(_)) ==
  CHOOSE j \in i .. BufferEnd :
    Test(Char(j)) /\ \A k \in i .. j - 1 : ~Test(Char(k))

NotBlank(c)  == c \notin Blanks
NotMiddle(c) == ~IsIdentifierMiddle(c)
NotDigit(c)  == ~IsDigit(c)
EndsLine(c)  == c \in {NUL, LF}

(* SkipWhitespace: where the next token starts.                            *)
Here == First(ptr, NotBlank)

Init ==
  /\ text \in Texts
  /\ ptr = 1 /\ pos = Start
  /\ tokens = <<>> /\ comments = {} /\ status = "lexing"

----------------------------------------------------------------------------
GoTo(j) == ptr' = j /\ pos' = PosAt(pos, ptr, j)

(* A token made from the characters up to last.                            *)
Emit(kind, value, last) ==
  /\ tokens' = Append(tokens, [kind |-> kind, value |-> value,
                               pos |-> PosAt(pos, ptr, Here),
                               first |-> Here, last |-> last])
  /\ GoTo(last + 1)
  /\ UNCHANGED <<text, comments, status>>

(* An error is reported at the place of character j.                       *)
Fail(j) ==
  /\ GoTo(j)
  /\ status' = "error"
  /\ UNCHANGED <<text, tokens, comments>>

Lexing == status = "lexing"

(* Mutant: the terminator is stepped over like any other character.        *)
EofPast ==
  /\ Lexing /\ Char(Here) = NUL
  /\ GoTo(Here + 1)
  /\ status' = "done"
  /\ UNCHANGED <<text, tokens, comments>>
Eof ==
  /\ Lexing /\ Char(Here) = NUL
  /\ GoTo(Here)
  /\ tokens' = Append(tokens, [kind |-> "eof", value |-> <<>>,
                               pos |-> PosAt(pos, ptr, Here),
                               first |-> Here, last |-> Here])
  /\ status' = "done"
  /\ UNCHANGED <<text, comments>>

AtComment == Char(Here) = "/" /\ Char(Here + 1) = "/"

(* Mutant: the loop of the comment goes on without stepping over it.       *)
LexCommentStays ==
  /\ Lexing /\ AtComment
  /\ GoTo(Here)
  /\ UNCHANGED <<text, tokens, comments, status>>

(* The character that ends a comment is stepped over: at the end of the    *)
(* file that is the terminator, and what the loop reads next is undefined. *)
LexComment ==
  /\ Lexing /\ AtComment
  /\ LET end == First(Here + 2, EndsLine)
     IN /\ GoTo(end + 1)
        /\ comments' = comments \cup {[first |-> Here, last |-> end]}
        /\ status' = IF end = BufferEnd THEN "beyond" ELSE status
  /\ UNCHANGED <<text, tokens>>

Extent(i, j) == SubSeq(text, i, j)

(* Mutant: keywords looked for at the start of a word.                     *)
KeywordAtStart ==
  /\ Lexing /\ IsIdentifierStart(Char(Here))
  /\ LET last == First(Here + 1, NotMiddle) - 1
         word == Extent(Here, last)
     IN Emit(IF \E k \in KEYWORDS : IsPrefix(k, word) THEN "keyword"
             ELSE "identifier", word, last)

LexIdentifierOrKeyword ==
  /\ Lexing /\ IsIdentifierStart(Char(Here))
  /\ LET last == First(Here + 1, NotMiddle) - 1
         word == Extent(Here, last)
     IN Emit(IF word \in KEYWORDS THEN "keyword" ELSE "identifier", word, last)

DigitValue(c) == (CHOOSE k \in DOMAIN Digits : Digits[k] = c) - 1
AddDigit(n, c) == 10 * n + DigitValue(c)

(* atoll: a number that is out of range has no defined value.              *)
AtollResults(digits) ==
  LET sum[k \in 0 .. Len(digits)] ==
        IF k = 0 THEN 0 ELSE AddDigit(sum[k - 1], digits[k])
      n == sum[Len(digits)]
  IN IF n <= MaxInt THEN {n} ELSE -MaxInt - 1 .. MaxInt

LexNumber ==
  /\ Lexing /\ IsDigit(Char(Here))
  /\ LET last == First(Here + 1, NotDigit) - 1
     IN \E n \in AtollResults(Extent(Here, last)) : Emit("number", n, last)

(* The loop of LexString at character j: where it stops, whether at the    *)
(* closing quote, and the value put together by then.                      *)
Stop(j, closed)   == [at |-> j, closed |-> closed, value |-> <<>>]
AndThen(c, rest)  == [rest EXCEPT !.value = <<c>> \o @]
Scans[j \in 1 .. BufferEnd] ==
  CASE Char(j) = NUL       -> Stop(j, FALSE)
    [] Char(j) = QUOTE     -> Stop(j, TRUE)
    [] Char(j) = BACKSLASH -> IF Char(j + 1) \in DOMAIN Escapes
                              THEN AndThen(Escapes[Char(j + 1)], Scans[j + 2])
                              ELSE Stop(j + 1, FALSE)
    [] OTHER               -> AndThen(Char(j), Scans[j + 1])
Scan == Scans[Here + 1]

LexString ==
  /\ Lexing /\ Char(Here) = QUOTE
  /\ Scan.closed
  /\ Emit("string", Scan.value, Scan.at)

StringError ==
  /\ Lexing /\ Char(Here) = QUOTE
  /\ ~Scan.closed
  /\ Fail(Scan.at)

(* Mutant: only the operators that end in "=" have two characters.         *)
AtTwoCharsEquals ==
  Char(Here) # NUL /\ Char(Here + 1) = "=" /\ <<Char(Here), Char(Here + 1)>> \in TwoChars
AtTwoChars == Char(Here) # NUL /\ <<Char(Here), Char(Here + 1)>> \in TwoChars

(* Mutant: one step for two characters.                                    *)
LexTwoCharsShort ==
  /\ Lexing /\ AtTwoChars
  /\ GoTo(Here + 1)
  /\ tokens' = Append(tokens, [kind |-> "symbol", value |-> Extent(Here, Here + 1),
                               pos |-> PosAt(pos, ptr, Here),
                               first |-> Here, last |-> Here + 1])
  /\ UNCHANGED <<text, comments, status>>
LexTwoChars ==
  /\ Lexing /\ AtTwoChars
  /\ Emit("symbol", Extent(Here, Here + 1), Here + 1)

LexOneChar ==
  /\ Lexing /\ Char(Here) \in OneChar
  /\ ~AtComment /\ ~AtTwoChars
  /\ Emit("symbol", Extent(Here, Here), Here)

StartsNothing(c) ==
  /\ c \notin OneChar \cup {NUL, QUOTE}
  /\ ~IsIdentifierMiddle(c)

(* Mutant: a character that is no token of its own is refused at once.     *)
UnrecognizedEarly == Lexing /\ StartsNothing(Char(Here)) /\ Fail(Here)
Unrecognized ==
  /\ Lexing /\ StartsNothing(Char(Here)) /\ ~AtTwoChars
  /\ Fail(Here)

Next == \/ Eof \/ LexComment \/ LexIdentifierOrKeyword \/ LexNumber
        \/ LexString \/ StringError \/ LexTwoChars \/ LexOneChar \/ Unrecognized

(* Nothing interrupts the loop of Lex.                                     *)
Spec == Init /\ [][Next]_vars /\ WF_vars(Next)
----------------------------------------------------------------------------
(* What a lexeme is, said of characters i .. j without a scanner.          *)

All(i, j, Test(_)) == \A k \in i .. j : Test(Char(k))

IsWord(i, j)   == IsIdentifierStart(Char(i)) /\ All(i, j, IsIdentifierMiddle)
IsNumber(i, j) == All(i, j, IsDigit)
IsSymbol(i, j) ==
  \/ j = i + 1 /\ <<Char(i), Char(j)>> \in TwoChars
  \/ j = i /\ Char(i) \in OneChar
IsComment(i, j) ==
  /\ j >= i + 2 /\ Char(i) = "/" /\ Char(i + 1) = "/"
  /\ \A k \in i + 2 .. j : EndsLine(Char(k)) <=> k = j

(* In a string from i on, the character k is escaped when the number of    *)
(* backslashes right before it is odd.                                     *)
Others(i, k)  == {h \in i .. k - 1 : Char(h) # BACKSLASH}
Escaped(i, k) == (k - 1 - Max(Others(i, k))) % 2 = 1

IsString(i, j) ==
  /\ j > i /\ Char(i) = QUOTE /\ Char(j) = QUOTE
  /\ \A k \in i + 1 .. j - 1 : Char(k) \notin {NUL, QUOTE}
  /\ ~Escaped(i, j)
  /\ \A k \in i + 1 .. j - 1 : Escaped(i, k) => Char(k) \in DOMAIN Escapes

IsLexeme(i, j) ==
  IsWord(i, j) \/ IsNumber(i, j) \/ IsSymbol(i, j) \/ IsComment(i, j)
               \/ IsString(i, j)

IsLongest(i, j) == IsLexeme(i, j) /\ \A k \in j + 1 .. BufferEnd : ~IsLexeme(i, k)

(* The decimal digits of n, with zeros before them, are characters i .. j: *)
(* rest[k] is what the last k of them leave of n.                          *)
Writes(n, i, j) ==
  LET rest[k \in 0 .. j - i + 1] == IF k = 0 THEN n ELSE rest[k - 1] \div 10
  IN /\ rest[j - i + 1] = 0
     /\ \A k \in i .. j : rest[j - k] % 10 = DigitValue(Char(k))

(* The characters j .. b - 1 of a string from i on that stand for one of   *)
(* its value, alone or with the backslash before them, and what for.       *)
Meant(i, j, b) == {k \in j .. b - 1 : Char(k) # BACKSLASH \/ Escaped(i, k)}
Meaning(i, k)  == IF Escaped(i, k) THEN Escapes[Char(k)] ELSE Char(k)

Denotes(t) ==
  CASE t.kind = "number" ->
         \/ Writes(t.value, t.first, t.last)
         \/ \A n \in 0 .. MaxInt : ~Writes(n, t.first, t.last)
    [] t.kind = "string" ->
         LET Count(b) == Cardinality(Meant(t.first, t.first + 1, b))
         IN /\ Len(t.value) = Count(t.last)
            /\ \A k \in Meant(t.first, t.first + 1, t.last) :
                 t.value[Count(k + 1)] = Meaning(t.first, k)
    [] OTHER ->
         /\ t.value = Extent(t.first, t.last)
         /\ t.kind # "symbol" => (t.kind = "keyword" <=> t.value \in KEYWORDS)

TokensMade == {t \in Range(tokens) : t.kind # "eof"}
Extents    == {[first |-> t.first, last |-> t.last] : t \in TokensMade} \cup comments

(* The line and column of character i.                                     *)
Breaks(i)  == {k \in 1 .. i - 1 : Char(k) = LF}
PlaceOf(i) == [line |-> 1 + Cardinality(Breaks(i)),
               col  |-> i - Max(Breaks(i) \cup {0})]

Characters == (UNION {Range(t) : t \in Texts}) \cup {NUL, "\r", LF, "\t", BACKSLASH}
Places     == [line : Nat \ {0}, col : Nat \ {0}]
----------------------------------------------------------------------------
(* The values Lex keeps; the pointer is in the buffer, or one past it.     *)
TypeOK ==
  /\ text \in Texts
  /\ ptr \in 1 .. BufferEnd + 1 /\ pos \in Places
  /\ \A t \in Range(tokens) :
       /\ t.kind \in {"keyword", "identifier", "number", "string", "symbol", "eof"}
       /\ IF t.kind = "number" THEN t.value \in -MaxInt - 1 .. MaxInt
          ELSE t.value \in Seq(Characters)
       /\ t.pos \in Places
  /\ status \in {"lexing", "done", "error", "beyond"}

(* Tokens and comments are lexemes, and the longest that start there: no   *)
(* word, number or operator is split and none swallows its neighbour, with *)
(* what order the alternatives of Lex are tried in.                        *)
LongestMatch == \A e \in Extents : IsLongest(e.first, e.last)

(* No character is lost and none is used twice: what the pointer has       *)
(* passed lies in one token or comment, or between them and is white       *)
(* space; and the tokens come in the order of the text.                    *)
NothingLost ==
  /\ \A i \in 1 .. ptr - 1 :
       LET over == {e \in Extents : i \in e.first .. e.last}
       IN IF over = {} THEN status = "error" \/ Char(i) \in Blanks
          ELSE Cardinality(over) = 1
  /\ \A k \in 1 .. Len(tokens) - 1 : tokens[k].last < tokens[k + 1].first

(* The scan ends, with an error or without one, only where no lexeme       *)
(* starts: Eof at a NUL, an error at a character that starts none or a     *)
(* string that is not one.                                                 *)
StopsWhereNothingStarts ==
  status \in {"done", "error"} =>
    LET past == Max({e.last : e \in Extents} \cup {0})
        next == First(past + 1, NotBlank)
    IN /\ ~\E j \in next .. BufferEnd : IsLexeme(next, j)
       /\ (status = "done") <=> (Char(next) = NUL)

(* The line and column of every token, and of the error, are those of its  *)
(* first character in the file, however much was skipped before it.        *)
PositionsExact ==
  /\ pos = PlaceOf(ptr)
  /\ \A t \in Range(tokens) : t.pos = PlaceOf(t.first)

(* A token has the value its characters denote: a word its own text, and   *)
(* it is a keyword only when the whole of it is in the table; a number the *)
(* number its digits write, unless no number in range does; a string what  *)
(* its characters mean, whatever backslashes stand next to each other.     *)
ValuesExact == \A t \in TokensMade : Denotes(t)

(* The scan leaves the buffer in one case only, a comment on a last line   *)
(* without a line break.                                                   *)
OnlyLastCommentRunsOut ==
  ptr > BufferEnd => \E e \in comments : e.last = BufferEnd

(* Every scan ends.                                                        *)
LexingEnds == <>(status # "lexing")
============================================================================
