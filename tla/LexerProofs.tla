----------------------------- MODULE LexerProofs -----------------------------
(***************************************************************************)
(* What Lex does with any text, of any length, over any characters.        *)
(*                                                                         *)
(* The searches and the recursive scans are shown to be what they look     *)
(* like (Firsts, ScansAre, PosAtIs), by choosing least counterexamples;    *)
(* every alternative is shown to take the longest lexeme (Longest...) and  *)
(* to give it its value (...Denotes), and the invariants LInv and          *)
(* ValuesExact carry that from token to token.                             *)
(***************************************************************************)
EXTENDS Lexer, TLAPS, WellFoundedInduction, FiniteSetTheorems, SequenceTheorems

----------------------------------------------------------------------------
(* Induction: a set of numbers that is not empty has a least element.      *)
Below == {p \in Nat \X Nat : p[1] < p[2]}

LEMMA HasLeast ==
  ASSUME NEW T \in SUBSET Nat, T # {}
  PROVE  \E x \in T : \A y \in T : x <= y
<1>1. IsWellFoundedOn(Below, Nat)
  BY NatLessThanWellFounded DEF OpToRel, Below
<1>2. PICK x \in T : \A y \in T : <<y, x>> \notin Below
  BY <1>1, WFMin, Zenon
<1>3. \A y \in T : ~(y < x)
  BY <1>2 DEF Below
<1> QED BY <1>3

LEMMA HasGreatest ==
  ASSUME NEW n \in Nat, NEW T \in SUBSET (0 .. n), T # {}
  PROVE  \E x \in T : \A y \in T : y <= x
<1> DEFINE M == {n - y : y \in T}
<1>1. M \in SUBSET Nat /\ M # {}
  OBVIOUS
<1>2. PICK m \in M : \A y \in M : m <= y
  BY <1>1, HasLeast
<1>3. \A y \in T : m <= n - y
  BY <1>2
<1>4. n - m \in T
  OBVIOUS
<1> QED BY <1>3, <1>4

----------------------------------------------------------------------------
(* The text.                                                               *)
LEMMA TextTypes ==
  ASSUME text \in Texts
  PROVE  /\ text \in Seq(Characters) /\ BufferEnd \in Nat \ {0}
         /\ Len(text) \in Nat /\ BufferEnd = Len(text) + 1
         /\ Char(BufferEnd) = NUL
         /\ \A i \in 1 .. BufferEnd : Char(i) \in Characters
<1>1. text \in Seq(Range(text)) /\ Range(text) \subseteq Characters
  BY LexerAssumption DEF Characters
<1>2. text \in Seq(Characters)
  BY <1>1
<1>3. \A i \in 1 .. Len(text) : text[i] \in Characters
  BY <1>2, ElementOfSeq
<1>4. NUL \in Characters
  BY DEF Characters
<1> QED BY <1>2, <1>3, <1>4 DEF BufferEnd, Char

(* The terminator ends every search.                                       *)
LEMMA FirstExists ==
  ASSUME NEW n \in Nat, NEW i \in 1 .. n, NEW S, n \in S
  PROVE  \E j \in i .. n : j \in S /\ \A k \in i .. j - 1 : k \notin S
<1> DEFINE T == {k \in i .. n : k \in S}
<1>1. T \in SUBSET Nat /\ T # {}
  OBVIOUS
<1>2. PICK j \in T : \A k \in T : j <= k
  BY <1>1, HasLeast
<1>3. \A k \in i .. j - 1 : k \in i .. n /\ ~(j <= k)
  BY <1>1
<1> QED BY <1>2, <1>3

LEMMA DigitsAre ==
  Range(Digits) = {"0", "1", "2", "3", "4", "5", "6", "7", "8", "9"}
<1>1. DOMAIN Digits = {1, 2, 3, 4, 5, 6, 7, 8, 9, 10}
  BY DEF Digits
<1> QED BY <1>1 DEF Range, Digits

LEMMA NothingMatchesNul ==
  NotBlank(NUL) /\ EndsLine(NUL) /\ NotMiddle(NUL) /\ NotDigit(NUL)
<1>1. NUL \notin Letters
  BY LexerAssumption, Zenon
<1>2. ~IsDigit(NUL)
  BY DigitsAre DEF IsDigit, NUL
<1> QED BY <1>1, <1>2
        DEF NotBlank, EndsLine, NotMiddle, NotDigit, IsIdentifierMiddle,
            IsIdentifierStart, Blanks, NUL, LF

LEMMA Firsts ==
  ASSUME text \in Texts, NEW i \in 1 .. BufferEnd
  PROVE  /\ First(i, NotBlank) \in i .. BufferEnd
         /\ Char(First(i, NotBlank)) \notin Blanks
         /\ \A k \in i .. First(i, NotBlank) - 1 : Char(k) \in Blanks
         /\ First(i, EndsLine) \in i .. BufferEnd
         /\ EndsLine(Char(First(i, EndsLine)))
         /\ \A k \in i .. First(i, EndsLine) - 1 : ~EndsLine(Char(k))
         /\ First(i, NotMiddle) \in i .. BufferEnd
         /\ ~IsIdentifierMiddle(Char(First(i, NotMiddle)))
         /\ \A k \in i .. First(i, NotMiddle) - 1 : IsIdentifierMiddle(Char(k))
         /\ First(i, NotDigit) \in i .. BufferEnd
         /\ ~IsDigit(Char(First(i, NotDigit)))
         /\ \A k \in i .. First(i, NotDigit) - 1 : IsDigit(Char(k))
<1>0. BufferEnd \in Nat /\ Char(BufferEnd) = NUL
  BY TextTypes
<1>1. \E j \in i .. BufferEnd :
        NotBlank(Char(j)) /\ \A k \in i .. j - 1 : ~NotBlank(Char(k))
  <2> DEFINE S == {k \in i .. BufferEnd : NotBlank(Char(k))}
  <2>1. PICK j \in i .. BufferEnd : j \in S /\ \A k \in i .. j - 1 : k \notin S
    <3>1. BufferEnd \in S
      BY <1>0, NothingMatchesNul
    <3> HIDE DEF S
    <3> QED BY <1>0, <3>1, FirstExists
  <2>2. \A k \in i .. j - 1 : k \in i .. BufferEnd
    BY <1>0
  <2> QED BY <2>1, <2>2
<1>2. \E j \in i .. BufferEnd :
        EndsLine(Char(j)) /\ \A k \in i .. j - 1 : ~EndsLine(Char(k))
  <2> DEFINE S == {k \in i .. BufferEnd : EndsLine(Char(k))}
  <2>1. PICK j \in i .. BufferEnd : j \in S /\ \A k \in i .. j - 1 : k \notin S
    <3>1. BufferEnd \in S
      BY <1>0, NothingMatchesNul
    <3> HIDE DEF S
    <3> QED BY <1>0, <3>1, FirstExists
  <2>2. \A k \in i .. j - 1 : k \in i .. BufferEnd
    BY <1>0
  <2> QED BY <2>1, <2>2
<1>3. \E j \in i .. BufferEnd :
        NotMiddle(Char(j)) /\ \A k \in i .. j - 1 : ~NotMiddle(Char(k))
  <2> DEFINE S == {k \in i .. BufferEnd : NotMiddle(Char(k))}
  <2>1. PICK j \in i .. BufferEnd : j \in S /\ \A k \in i .. j - 1 : k \notin S
    <3>1. BufferEnd \in S
      BY <1>0, NothingMatchesNul
    <3> HIDE DEF S
    <3> QED BY <1>0, <3>1, FirstExists
  <2>2. \A k \in i .. j - 1 : k \in i .. BufferEnd
    BY <1>0
  <2> QED BY <2>1, <2>2
<1>4. \E j \in i .. BufferEnd :
        NotDigit(Char(j)) /\ \A k \in i .. j - 1 : ~NotDigit(Char(k))
  <2> DEFINE S == {k \in i .. BufferEnd : NotDigit(Char(k))}
  <2>1. PICK j \in i .. BufferEnd : j \in S /\ \A k \in i .. j - 1 : k \notin S
    <3>1. BufferEnd \in S
      BY <1>0, NothingMatchesNul
    <3> HIDE DEF S
    <3> QED BY <1>0, <3>1, FirstExists
  <2>2. \A k \in i .. j - 1 : k \in i .. BufferEnd
    BY <1>0
  <2> QED BY <2>1, <2>2
<1>5. /\ First(i, NotBlank) \in i .. BufferEnd /\ NotBlank(Char(First(i, NotBlank)))
      /\ \A k \in i .. First(i, NotBlank) - 1 : ~NotBlank(Char(k))
  BY <1>1 DEF First
<1>6. /\ First(i, EndsLine) \in i .. BufferEnd /\ EndsLine(Char(First(i, EndsLine)))
      /\ \A k \in i .. First(i, EndsLine) - 1 : ~EndsLine(Char(k))
  BY <1>2 DEF First
<1>7. /\ First(i, NotMiddle) \in i .. BufferEnd /\ NotMiddle(Char(First(i, NotMiddle)))
      /\ \A k \in i .. First(i, NotMiddle) - 1 : ~NotMiddle(Char(k))
  BY <1>3 DEF First
<1>8. /\ First(i, NotDigit) \in i .. BufferEnd /\ NotDigit(Char(First(i, NotDigit)))
      /\ \A k \in i .. First(i, NotDigit) - 1 : ~NotDigit(Char(k))
  BY <1>4 DEF First
<1> QED BY <1>5, <1>6, <1>7, <1>8 DEF NotBlank, NotMiddle, NotDigit

LEMMA HereIs ==
  ASSUME text \in Texts, ptr \in 1 .. BufferEnd
  PROVE  /\ Here \in ptr .. BufferEnd /\ Here \in 1 .. BufferEnd
         /\ Char(Here) \notin Blanks
         /\ \A k \in ptr .. Here - 1 : Char(k) \in Blanks
         /\ Char(Here) # NUL => Here <= Len(text) /\ Here + 1 \in 1 .. BufferEnd
<1>1. /\ First(ptr, NotBlank) \in ptr .. BufferEnd
      /\ Char(First(ptr, NotBlank)) \notin Blanks
      /\ \A k \in ptr .. First(ptr, NotBlank) - 1 : Char(k) \in Blanks
  BY Firsts
<1> HIDE DEF First
<1>2. Here = First(ptr, NotBlank)
  BY DEF Here
<1>3. BufferEnd \in Nat \ {0} /\ Len(text) \in Nat /\ BufferEnd = Len(text) + 1
      /\ Char(BufferEnd) = NUL
  BY TextTypes
<1> QED BY <1>1, <1>2, <1>3

----------------------------------------------------------------------------
(* The scan of a string is a recursive function: it is defined from the    *)
(* end of the buffer backwards.                                            *)
ScanStep(s, j) ==
  CASE Char(j) = NUL  -> Stop(j, FALSE)
    [] Char(j) = QUOTE -> Stop(j, TRUE)
    [] Char(j) = BACKSLASH -> IF Char(j + 1) \in DOMAIN Escapes
                         THEN AndThen(Escapes[Char(j + 1)], s[j + 2])
                         ELSE Stop(j + 1, FALSE)
    [] OTHER          -> AndThen(Char(j), s[j + 1])

LEMMA CharsDiffer ==
  /\ NUL \notin {QUOTE, BACKSLASH, LF, "0", "r", "n", "t"}
  /\ QUOTE \notin {BACKSLASH, LF, "0", "r", "n", "t"}
  /\ BACKSLASH \notin {LF, "0", "r", "n", "t"}
BY Zenon DEF NUL, QUOTE, BACKSLASH, LF

LEMMA EscapesAre ==
  /\ DOMAIN Escapes = {BACKSLASH, "0", "r", "n", "t"}
  /\ NUL \notin DOMAIN Escapes /\ QUOTE \notin DOMAIN Escapes
  /\ \A c \in DOMAIN Escapes : Escapes[c] \in {BACKSLASH, NUL, "\r", LF, "\t"}
BY CharsDiffer DEF Escapes

LEMMA ScanReads ==
  ASSUME text \in Texts, NEW j \in 1 .. BufferEnd, Char(j) # NUL
  PROVE  /\ j + 1 \in 1 .. BufferEnd /\ j + 1 \in j .. BufferEnd
         /\ Char(j + 1) \in DOMAIN Escapes =>
              j + 2 \in 1 .. BufferEnd /\ j + 2 \in j .. BufferEnd
<1>1. BufferEnd \in Nat /\ Char(BufferEnd) = NUL
  BY TextTypes
<1>2. NUL \notin DOMAIN Escapes
  BY EscapesAre
<1>3. j # BufferEnd
  BY <1>1
<1>4. Char(j + 1) \in DOMAIN Escapes => j + 1 # BufferEnd
  BY <1>1, <1>2
<1> QED BY <1>1, <1>3, <1>4

LEMMA ScanIsLocal ==
  ASSUME text \in Texts, NEW s, NEW t, NEW j \in 1 .. BufferEnd,
         \A k \in 1 .. BufferEnd : k > j => s[k] = t[k]
  PROVE  ScanStep(s, j) = ScanStep(t, j)
<1>1. Char(j) # NUL => s[j + 1] = t[j + 1]
  BY ScanReads
<1>2. Char(j) # NUL /\ Char(j + 1) \in DOMAIN Escapes => s[j + 2] = t[j + 2]
  BY ScanReads
<1>3. NUL # QUOTE /\ NUL # BACKSLASH /\ QUOTE # BACKSLASH
  BY CharsDiffer
<1>4. CASE Char(j) \in {NUL, QUOTE, BACKSLASH}
  BY <1>1, <1>2, <1>3, <1>4 DEF ScanStep
<1>5. CASE Char(j) \notin {NUL, QUOTE, BACKSLASH}
  BY <1>1, <1>5 DEF ScanStep
<1> QED BY <1>4, <1>5

LEMMA ScansExist ==
  ASSUME text \in Texts
  PROVE  \E s : s = [j \in 1 .. BufferEnd |-> ScanStep(s, j)]
<1> DEFINE Q(n) == \E s : \A j \in 1 .. BufferEnd : j > n => s[j] = ScanStep(s, j)
           T == {n \in 0 .. BufferEnd : ~Q(n)}
<1>0. BufferEnd \in Nat
  BY TextTypes
<1>1. ASSUME NEW n \in 1 .. BufferEnd, Q(n) PROVE Q(n - 1)
  <2>1. PICK s : \A j \in 1 .. BufferEnd : j > n => s[j] = ScanStep(s, j)
    BY <1>1
  <2> DEFINE t == [j \in 1 .. BufferEnd |-> IF j = n THEN ScanStep(s, n) ELSE s[j]]
  <2>2. \A j \in 1 .. BufferEnd : t[j] = IF j = n THEN ScanStep(s, n) ELSE s[j]
    OBVIOUS
  <2> HIDE DEF t
  <2>3. ASSUME NEW j \in 1 .. BufferEnd, j > n - 1 PROVE t[j] = ScanStep(t, j)
    <3>1. \A k \in 1 .. BufferEnd : k > j => s[k] = t[k]
      BY <1>0, <2>2, <2>3
    <3>2. ScanStep(s, j) = ScanStep(t, j)
      BY <3>1, ScanIsLocal, Zenon
    <3>3. CASE j = n
      BY <2>2, <3>2, <3>3
    <3>4. CASE j # n
      BY <1>0, <2>1, <2>2, <2>3, <3>2, <3>4
    <3> QED BY <3>3, <3>4
  <2> QED BY <2>3
<1>2. Q(BufferEnd)
  BY <1>0
<1>3. Q(0)
  <2> SUFFICES ASSUME ~Q(0) PROVE FALSE
    OBVIOUS
  <2>0. T \in SUBSET (0 .. BufferEnd) /\ 0 \in T
    BY <1>0
  <2> HIDE DEF Q
  <2>1. PICK n \in T : \A m \in T : m <= n
    <3> HIDE DEF T
    <3> QED BY <1>0, <2>0, HasGreatest
  <2>2. n # BufferEnd /\ n \in 0 .. BufferEnd /\ ~Q(n)
    BY <1>2
  <2>3. n + 1 \in 1 .. BufferEnd /\ n + 1 \notin T /\ (n + 1) - 1 = n
    BY <1>0, <2>1, <2>2
  <2>4. Q(n + 1)
    BY <1>0, <2>3
  <2> QED BY <1>1, <2>2, <2>3, <2>4
<1>4. PICK s : \A j \in 1 .. BufferEnd : s[j] = ScanStep(s, j)
  BY <1>0, <1>3
<1> DEFINE t == [j \in 1 .. BufferEnd |-> s[j]]
<1>5. \A j \in 1 .. BufferEnd : t[j] = s[j]
  OBVIOUS
<1> HIDE DEF t
<1>6. \A j \in 1 .. BufferEnd : ScanStep(s, j) = ScanStep(t, j)
  BY <1>5, ScanIsLocal
<1>7. t = [j \in 1 .. BufferEnd |-> ScanStep(t, j)]
  BY <1>4, <1>6 DEF t
<1> QED BY <1>7

LEMMA ScansAre ==
  ASSUME text \in Texts, NEW j \in 1 .. BufferEnd
  PROVE  Scans[j] = ScanStep(Scans, j)
<1>1. Scans = CHOOSE s : s = [k \in 1 .. BufferEnd |-> ScanStep(s, k)]
  BY DEF Scans, ScanStep
<1>2. Scans = [k \in 1 .. BufferEnd |-> ScanStep(Scans, k)]
  BY <1>1, ScansExist
<1> HIDE DEF Scans
<1> QED BY <1>2

(* Backwards induction over the buffer.                                    *)
LEMMA BufferInduction ==
  ASSUME text \in Texts, NEW S,
         \A j \in 1 .. BufferEnd : (\A k \in 1 .. BufferEnd : k > j => k \in S) => j \in S
  PROVE  \A j \in 1 .. BufferEnd : j \in S
<1> DEFINE T == {j \in 1 .. BufferEnd : j \notin S}
<1>1. BufferEnd \in Nat
  BY TextTypes
<1>2. T # {} => \E j \in T : \A k \in T : k <= j
  <2>1. T \in SUBSET (0 .. BufferEnd)
    BY <1>1
  <2> HIDE DEF T
  <2> QED BY <1>1, <2>1, HasGreatest
<1>3. ASSUME NEW j \in T, \A k \in T : k <= j PROVE FALSE
  <2>1. \A k \in 1 .. BufferEnd : k > j => k \in S
    BY <1>1, <1>3
  <2> QED BY <2>1
<1> QED BY <1>2, <1>3

ScanType == [at : Nat, closed : BOOLEAN, value : Seq(Characters)]

(* The four things LexString does with a character.                        *)
LEMMA ScanCases ==
  ASSUME text \in Texts, NEW j \in 1 .. BufferEnd
  PROVE  /\ Char(j) = NUL => Scans[j] = Stop(j, FALSE)
         /\ Char(j) = QUOTE => Scans[j] = Stop(j, TRUE)
         /\ Char(j) = BACKSLASH /\ Char(j + 1) \in DOMAIN Escapes =>
              Scans[j] = AndThen(Escapes[Char(j + 1)], Scans[j + 2])
         /\ Char(j) = BACKSLASH /\ Char(j + 1) \notin DOMAIN Escapes =>
              Scans[j] = Stop(j + 1, FALSE)
         /\ Char(j) \notin {NUL, QUOTE, BACKSLASH} => Scans[j] = AndThen(Char(j), Scans[j + 1])
<1>1. Scans[j] = ScanStep(Scans, j)
  BY ScansAre
<1>2. NUL # QUOTE /\ NUL # BACKSLASH /\ QUOTE # BACKSLASH
  BY CharsDiffer
<1> QED BY <1>1, <1>2 DEF ScanStep

LEMMA ScanRecords ==
  /\ \A j \in Nat, b \in BOOLEAN :
       /\ Stop(j, b) \in ScanType
       /\ Stop(j, b).at = j /\ Stop(j, b).closed = b
  /\ \A c \in Characters, r \in ScanType :
       /\ AndThen(c, r) \in ScanType
       /\ AndThen(c, r).at = r.at /\ AndThen(c, r).closed = r.closed
<1>1. <<>> \in Seq(Characters)
  OBVIOUS
<1>2. ASSUME NEW c \in Characters, NEW r \in ScanType
      PROVE  /\ AndThen(c, r) \in ScanType
             /\ AndThen(c, r).at = r.at /\ AndThen(c, r).closed = r.closed
  <2> DEFINE v == <<c>> \o r.value
  <2>1. <<c>> \in Seq(Characters) /\ r.value \in Seq(Characters)
    BY DEF ScanType
  <2>2. v \in Seq(Characters)
    BY <2>1, ConcatProperties
  <2>3. AndThen(c, r) = [r EXCEPT !.value = v]
    BY DEF AndThen
  <2> HIDE DEF v
  <2> QED BY <2>2, <2>3 DEF ScanType
<1> QED BY <1>1, <1>2 DEF Stop, ScanType

(* Where the scan from character k on stops.                              *)
ScanOK(k, r) ==
  /\ r \in ScanType /\ r.at >= k /\ r.at <= BufferEnd
  /\ r.closed = TRUE => Char(r.at) = QUOTE

LEMMA ScanTypes ==
  ASSUME text \in Texts, NEW j \in 1 .. BufferEnd
  PROVE  ScanOK(j, Scans[j])
<1> DEFINE S == {k \in 1 .. BufferEnd : ScanOK(k, Scans[k])}
<1>0. BufferEnd \in Nat /\ NUL # BACKSLASH
  BY TextTypes, CharsDiffer
<1>s. \A b \in Nat : Stop(b, FALSE) \in ScanType /\ Stop(b, FALSE).at = b
                     /\ Stop(b, FALSE).closed = FALSE
                     /\ Stop(b, TRUE) \in ScanType /\ Stop(b, TRUE).at = b
  BY ScanRecords
<1>a. ASSUME NEW c \in Characters, NEW r, NEW k \in Nat, NEW m \in Nat, k >= m,
             ScanOK(k, r)
      PROVE  ScanOK(m, AndThen(c, r))
  <2>0. r \in ScanType
    BY <1>a DEF ScanOK
  <2>1. /\ AndThen(c, r) \in ScanType
        /\ AndThen(c, r).at = r.at /\ AndThen(c, r).closed = r.closed
    BY <2>0, ScanRecords
  <2>2. r.at \in Nat /\ r.at >= k
    BY <1>a DEF ScanOK, ScanType
  <2>3. r.at >= m
    BY <1>a, <2>2
  <2> QED BY <1>a, <2>1, <2>3 DEF ScanOK
<1>1. ASSUME NEW i \in 1 .. BufferEnd,
             \A k \in 1 .. BufferEnd : k > i => ScanOK(k, Scans[k])
      PROVE  ScanOK(i, Scans[i])
  <2>0. /\ i \in Nat /\ i <= BufferEnd /\ Char(i) \in Characters
        /\ \A c \in DOMAIN Escapes : Escapes[c] \in Characters
    BY <1>0, TextTypes, EscapesAre DEF Characters
  <2>1. CASE Char(i) = NUL
    <3>1. Scans[i] = Stop(i, FALSE)
      BY <2>1, ScanCases
    <3>2. /\ Scans[i] \in ScanType /\ Scans[i].at = i
          /\ Scans[i].closed = FALSE
      BY <1>s, <2>0, <3>1, Zenon
    <3>3. PICK r : r = Scans[i]
      OBVIOUS
    <3>4. r \in ScanType /\ r.at = i /\ r.closed = FALSE
      BY <3>2, <3>3
    <3>5. r.at >= i
      BY <2>0, <3>4
    <3>6. r.at <= BufferEnd
      BY <2>0, <3>4
    <3>7. r.closed # TRUE
      BY <3>4
    <3> QED BY <3>3, <3>4, <3>5, <3>6, <3>7 DEF ScanOK
  <2>2. CASE Char(i) = QUOTE
    <3>1. Scans[i] = Stop(i, TRUE)
      BY <2>2, ScanCases
    <3>2. Scans[i] \in ScanType /\ Scans[i].at = i
      BY <1>s, <2>0, <3>1, Zenon
    <3>3. PICK r : r = Scans[i]
      OBVIOUS
    <3>4. r \in ScanType /\ r.at = i
      BY <3>2, <3>3
    <3>5. r.at >= i
      BY <2>0, <3>4
    <3>6. r.at <= BufferEnd
      BY <2>0, <3>4
    <3>7. Char(r.at) = QUOTE
      BY <2>2, <3>4
    <3> QED BY <3>3, <3>4, <3>5, <3>6, <3>7 DEF ScanOK
  <2>3. CASE Char(i) = BACKSLASH /\ Char(i + 1) \in DOMAIN Escapes
    <3>1. Scans[i] = AndThen(Escapes[Char(i + 1)], Scans[i + 2])
      BY <2>3, ScanCases
    <3>2. i + 2 \in 1 .. BufferEnd
      BY <1>0, <2>3, ScanReads
    <3>3. i + 2 \in Nat /\ i + 2 > i /\ i + 2 >= i
      BY <2>0
    <3>4. ScanOK(i + 2, Scans[i + 2])
      BY <1>1, <3>2, <3>3
    <3>5. Escapes[Char(i + 1)] \in Characters
      BY <2>0, <2>3
    <3> QED BY <1>a, <2>0, <3>1, <3>3, <3>4, <3>5
  <2>4. CASE Char(i) = BACKSLASH /\ Char(i + 1) \notin DOMAIN Escapes
    <3>1. Scans[i] = Stop(i + 1, FALSE)
      BY <2>4, ScanCases
    <3>2. i + 1 \in 1 .. BufferEnd
      BY <1>0, <2>4, ScanReads
    <3>3. i + 1 \in Nat /\ i + 1 <= BufferEnd /\ i + 1 >= i
      BY <1>0, <2>0, <3>2
    <3> QED BY <1>0, <1>s, <2>0, <3>1, <3>3 DEF ScanOK
  <2>5. CASE Char(i) \notin {NUL, QUOTE, BACKSLASH}
    <3>1. Scans[i] = AndThen(Char(i), Scans[i + 1])
      BY <2>5, ScanCases
    <3>2. Char(i) # NUL
      BY <2>5
    <3>3. i + 1 \in 1 .. BufferEnd
      BY <3>2, ScanReads
    <3>4. i + 1 \in Nat /\ i + 1 > i /\ i + 1 >= i
      BY <2>0
    <3>5. ScanOK(i + 1, Scans[i + 1])
      BY <1>1, <3>3, <3>4
    <3> QED BY <1>a, <2>0, <3>1, <3>4, <3>5
  <2> QED BY <2>1, <2>2, <2>3, <2>4, <2>5
<1>2. \A i \in 1 .. BufferEnd : (\A k \in 1 .. BufferEnd : k > i => k \in S) => i \in S
  BY <1>1
<1>3. \A i \in 1 .. BufferEnd : i \in S
  <2> HIDE DEF S
  <2> QED BY <1>2, BufferInduction
<1> QED BY <1>3

----------------------------------------------------------------------------
(* The text does not change, and so nothing that is said of it changes.    *)
LEMMA TextFixed ==
  ASSUME text' = text, NEW i, NEW j
  PROVE  /\ BufferEnd' = BufferEnd /\ Char(i)' = Char(i)
         /\ IsLexeme(i, j)' <=> IsLexeme(i, j)
         /\ IsLongest(i, j)' <=> IsLongest(i, j)
         /\ PlaceOf(i)' = PlaceOf(i)
<1>1. BufferEnd' = BufferEnd
  BY DEF BufferEnd
<1>2. ASSUME NEW k PROVE Char(k)' = Char(k)
  BY <1>1 DEF Char
<1>3. ASSUME NEW n, NEW k PROVE Escaped(n, k)' <=> Escaped(n, k)
  <2>1. Others(n, k)' = Others(n, k)
    BY <1>2 DEF Others
  <2> QED BY <2>1 DEF Escaped
<1>4. ASSUME NEW n, NEW k PROVE IsLexeme(n, k)' <=> IsLexeme(n, k)
  <2>1. IsWord(n, k)' <=> IsWord(n, k)
    BY <1>2 DEF IsWord, All
  <2>2. IsNumber(n, k)' <=> IsNumber(n, k)
    BY <1>2 DEF IsNumber, All
  <2>3. IsSymbol(n, k)' <=> IsSymbol(n, k)
    BY <1>2 DEF IsSymbol
  <2>4. IsComment(n, k)' <=> IsComment(n, k)
    BY <1>2 DEF IsComment, EndsLine
  <2>5. IsString(n, k)' <=> IsString(n, k)
    BY <1>2, <1>3 DEF IsString
  <2> QED BY <2>1, <2>2, <2>3, <2>4, <2>5 DEF IsLexeme
<1>5. IsLongest(i, j)' <=> IsLongest(i, j)
  BY <1>1, <1>4 DEF IsLongest
<1>6. PlaceOf(i)' = PlaceOf(i)
  <2>1. Breaks(i)' = Breaks(i)
    BY <1>2 DEF Breaks
  <2> QED BY <2>1 DEF PlaceOf
<1> QED BY <1>1, <1>2, <1>4, <1>5, <1>6

----------------------------------------------------------------------------
(* Which characters of a string are escaped.                               *)
LEMMA MaxIs ==
  ASSUME NEW T, NEW x \in T, \A y \in T : y \in Int /\ x >= y
  PROVE  Max(T) = x
<1>1. Max(T) \in T /\ \A y \in T : Max(T) >= y
  <2>1. \E m \in T : \A y \in T : m >= y
    OBVIOUS
  <2> QED BY <2>1 DEF Max
<1>2. Max(T) >= x /\ x >= Max(T) /\ Max(T) \in Int /\ x \in Int
  BY <1>1
<1> QED BY <1>2

LEMMA EscapedStep ==
  ASSUME NEW i \in Nat, Char(i) = QUOTE, NEW k \in Nat, k >= i + 1
  PROVE  /\ ~Escaped(i, i + 1)
         /\ Escaped(i, k + 1) <=> Char(k) = BACKSLASH /\ ~Escaped(i, k)
<1>0. i \in Others(i, k) /\ Others(i, k) \in SUBSET (0 .. k - 1)
  BY CharsDiffer DEF Others
<1>1. PICK m \in Others(i, k) : \A h \in Others(i, k) : h <= m
  <2>1. k - 1 \in Nat
    OBVIOUS
  <2> QED BY <1>0, <2>1, HasGreatest
<1>2. m \in Int /\ i <= m /\ m <= k - 1 /\ \A h \in Others(i, k) : h \in Int /\ m >= h
  BY <1>1 DEF Others
<1>3. Max(Others(i, k)) = m
  BY <1>2, MaxIs
<1>4. Escaped(i, k) <=> (k - 1 - m) % 2 = 1
  BY <1>3 DEF Escaped
<1>5. Escaped(i, k + 1) <=> (k - Max(Others(i, k + 1))) % 2 = 1
  BY DEF Escaped
<1>8. ~Escaped(i, i + 1)
  <2>1. i \in Others(i, i + 1) /\ \A h \in Others(i, i + 1) : h \in Int /\ i >= h
    BY CharsDiffer DEF Others
  <2>2. Max(Others(i, i + 1)) = i
    BY <2>1, MaxIs
  <2>3. Escaped(i, i + 1) <=> (i + 1 - 1 - i) % 2 = 1
    BY <2>2 DEF Escaped
  <2> QED BY <2>3
<1>6. CASE Char(k) = BACKSLASH
  <2>1. Others(i, k + 1) = Others(i, k)
    BY <1>6 DEF Others
  <2>2. Escaped(i, k + 1) <=> (k - m) % 2 = 1
    BY <1>3, <1>5, <2>1
  <2>3. (k - m) % 2 = 1 <=> (k - 1 - m) % 2 # 1
    BY <1>2
  <2>4. Escaped(i, k + 1) <=> Char(k) = BACKSLASH /\ ~Escaped(i, k)
    BY <1>4, <1>6, <2>2, <2>3
  <2> QED BY <1>8, <2>4
<1>7. CASE Char(k) # BACKSLASH
  <2>1. k \in Others(i, k + 1) /\ \A h \in Others(i, k + 1) : h \in Int /\ k >= h
    BY <1>7 DEF Others
  <2>2. Max(Others(i, k + 1)) = k
    BY <2>1, MaxIs
  <2>3. (k - k) % 2 # 1
    OBVIOUS
  <2>4. ~Escaped(i, k + 1)
    BY <1>5, <2>2, <2>3
  <2> QED BY <1>7, <1>8, <2>4
<1> QED BY <1>6, <1>7, <1>8

(* The string that i begins, read from character j, is closed by the quote *)
(* at b.                                                                   *)
ClosesAt(i, j, b) ==
  /\ b \in j .. BufferEnd /\ Char(b) = QUOTE /\ ~Escaped(i, b)
  /\ \A k \in j .. b - 1 : /\ Char(k) \notin {NUL, QUOTE}
                           /\ Escaped(i, k) => Char(k) \in DOMAIN Escapes

LEMMA ClosesStep ==
  ASSUME text \in Texts, NEW i \in Nat, Char(i) = QUOTE,
         NEW j \in 1 .. BufferEnd, j >= i + 1, ~Escaped(i, j), NEW b
  PROVE  /\ Char(j) = NUL => ~ClosesAt(i, j, b)
         /\ Char(j) = QUOTE => (ClosesAt(i, j, b) <=> b = j)
         /\ Char(j) = BACKSLASH /\ Char(j + 1) \in DOMAIN Escapes =>
              /\ ~Escaped(i, j + 2)
              /\ ClosesAt(i, j, b) <=> ClosesAt(i, j + 2, b)
         /\ Char(j) = BACKSLASH /\ Char(j + 1) \notin DOMAIN Escapes =>
              ~ClosesAt(i, j, b)
         /\ Char(j) \notin {NUL, QUOTE, BACKSLASH} =>
              /\ ~Escaped(i, j + 1)
              /\ ClosesAt(i, j, b) <=> ClosesAt(i, j + 1, b)
<1>0. /\ BufferEnd \in Nat /\ j \in Nat /\ j <= BufferEnd
      /\ j + 1 \in Nat /\ j + 1 >= i + 1 /\ (j + 1) + 1 = j + 2
  BY TextTypes
<1>c. /\ NUL # QUOTE /\ NUL # BACKSLASH /\ QUOTE # BACKSLASH
      /\ QUOTE \notin DOMAIN Escapes /\ NUL \notin DOMAIN Escapes
  BY CharsDiffer, EscapesAre
<1>1. Escaped(i, j + 1) <=> Char(j) = BACKSLASH
  BY <1>0, EscapedStep
<1>2. Escaped(i, j + 2) <=> Char(j + 1) = BACKSLASH /\ ~Escaped(i, j + 1)
  BY <1>0, EscapedStep
<1>3. b \in j .. BufferEnd => b \in Int /\ (b = j \/ j \in j .. b - 1)
  BY <1>0
<1>4. CASE Char(j) = NUL
  BY <1>c, <1>3, <1>4 DEF ClosesAt
<1>5. CASE Char(j) = QUOTE
  <2>1. ClosesAt(i, j, b) => b = j
    BY <1>3, <1>5 DEF ClosesAt
  <2>2. ClosesAt(i, j, j)
    BY <1>0, <1>5 DEF ClosesAt
  <2> QED BY <1>c, <1>5, <2>1, <2>2
<1>6. CASE Char(j) = BACKSLASH /\ Char(j + 1) \in DOMAIN Escapes
  <2>1. Escaped(i, j + 1) /\ ~Escaped(i, j + 2)
    BY <1>1, <1>2, <1>6
  <2>2. ASSUME ClosesAt(i, j, b) PROVE ClosesAt(i, j + 2, b)
    <3>1. b # j /\ b # j + 1
      BY <1>c, <1>6, <2>1, <2>2 DEF ClosesAt
    <3>2. b \in j + 2 .. BufferEnd
      BY <1>0, <2>2, <3>1 DEF ClosesAt
    <3>3. \A k \in j + 2 .. b - 1 : k \in j .. b - 1
      BY <1>0, <3>2
    <3> QED BY <2>2, <3>2, <3>3 DEF ClosesAt
  <2>3. ASSUME ClosesAt(i, j + 2, b) PROVE ClosesAt(i, j, b)
    <3>1. b \in j .. BufferEnd /\ b \in Int
      BY <1>0, <2>3 DEF ClosesAt
    <3>2. \A k \in j .. b - 1 : k = j \/ k = j + 1 \/ k \in j + 2 .. b - 1
      BY <1>0, <3>1
    <3>3. ASSUME NEW k \in j .. b - 1
          PROVE  /\ Char(k) \notin {NUL, QUOTE}
                 /\ Escaped(i, k) => Char(k) \in DOMAIN Escapes
      BY <1>c, <1>6, <2>3, <3>2 DEF ClosesAt
    <3> QED BY <2>3, <3>1, <3>3 DEF ClosesAt
  <2> QED BY <1>c, <1>6, <2>1, <2>2, <2>3
<1>7. CASE Char(j) = BACKSLASH /\ Char(j + 1) \notin DOMAIN Escapes
  <2>1. SUFFICES ASSUME ClosesAt(i, j, b) PROVE FALSE
    BY <1>c, <1>7
  <2>2. Escaped(i, j + 1)
    BY <1>1, <1>7
  <2>3. b # j /\ b # j + 1
    BY <1>c, <1>7, <2>1, <2>2 DEF ClosesAt
  <2>4. j + 1 \in j .. b - 1
    BY <1>0, <2>1, <2>3 DEF ClosesAt
  <2> QED BY <1>7, <2>1, <2>2, <2>4 DEF ClosesAt
<1>8. CASE Char(j) \notin {NUL, QUOTE, BACKSLASH}
  <2>1. ~Escaped(i, j + 1)
    BY <1>1, <1>8
  <2>2. ASSUME ClosesAt(i, j, b) PROVE ClosesAt(i, j + 1, b)
    <3>1. b # j
      BY <1>8, <2>2 DEF ClosesAt
    <3>2. b \in j + 1 .. BufferEnd
      BY <1>0, <2>2, <3>1 DEF ClosesAt
    <3>3. \A k \in j + 1 .. b - 1 : k \in j .. b - 1
      BY <1>0, <3>2
    <3> QED BY <2>2, <3>2, <3>3 DEF ClosesAt
  <2>3. ASSUME ClosesAt(i, j + 1, b) PROVE ClosesAt(i, j, b)
    <3>1. b \in j .. BufferEnd /\ b \in Int
      BY <1>0, <2>3 DEF ClosesAt
    <3>2. \A k \in j .. b - 1 : k = j \/ k \in j + 1 .. b - 1
      BY <1>0, <3>1
    <3>3. ASSUME NEW k \in j .. b - 1
          PROVE  /\ Char(k) \notin {NUL, QUOTE}
                 /\ Escaped(i, k) => Char(k) \in DOMAIN Escapes
      BY <1>8, <2>3, <3>2 DEF ClosesAt
    <3> QED BY <2>3, <3>1, <3>3 DEF ClosesAt
  <2> QED BY <1>8, <2>1, <2>2, <2>3
<1> QED BY <1>4, <1>5, <1>6, <1>7, <1>8

(* LexString finds the closing quote, and reports an error only where      *)
(* there is none.                                                          *)
LEMMA StringEnds ==
  ASSUME text \in Texts, NEW i \in Nat, Char(i) = QUOTE,
         NEW j \in 1 .. BufferEnd, j >= i + 1, ~Escaped(i, j), NEW b
  PROVE  ClosesAt(i, j, b) <=> (Scans[j].closed = TRUE /\ Scans[j].at = b)
<1> DEFINE P(k) == k >= i + 1 /\ ~Escaped(i, k) =>
                     (ClosesAt(i, k, b) <=> (Scans[k].closed = TRUE /\ Scans[k].at = b))
           S == {k \in 1 .. BufferEnd : P(k)}
<1>0. BufferEnd \in Nat
  BY TextTypes
<1>s. ASSUME NEW m \in Nat
      PROVE  /\ Stop(m, FALSE).closed # TRUE
             /\ Stop(m, TRUE).at = m /\ Stop(m, TRUE).closed = TRUE
  BY DEF Stop
<1>a. ASSUME NEW c, NEW k \in 1 .. BufferEnd
      PROVE  /\ AndThen(c, Scans[k]).at = Scans[k].at
             /\ AndThen(c, Scans[k]).closed = Scans[k].closed
  <2>1. Scans[k] \in ScanType
    BY ScanTypes DEF ScanOK
  <2> QED BY <2>1 DEF AndThen, ScanType
<1>1. ASSUME NEW k \in 1 .. BufferEnd, \A m \in 1 .. BufferEnd : m > k => P(m),
             k >= i + 1, ~Escaped(i, k)
      PROVE  ClosesAt(i, k, b) <=> (Scans[k].closed = TRUE /\ Scans[k].at = b)
  <2>0. /\ k \in Nat /\ k + 1 > k /\ k + 2 > k /\ k + 1 >= i + 1 /\ k + 2 >= i + 1
        /\ k + 1 \in Nat
    BY <1>0, <1>1
  <2>c. NUL # BACKSLASH
    BY CharsDiffer
  <2>1. CASE Char(k) = NUL
    <3>1. Scans[k] = Stop(k, FALSE) /\ ~ClosesAt(i, k, b)
      BY <1>1, <2>1, ScanCases, ClosesStep
    <3> QED BY <1>s, <2>0, <3>1
  <2>2. CASE Char(k) = QUOTE
    <3>1. Scans[k] = Stop(k, TRUE) /\ (ClosesAt(i, k, b) <=> b = k)
      BY <1>1, <2>2, ScanCases, ClosesStep
    <3> QED BY <1>s, <2>0, <3>1
  <2>3. CASE Char(k) = BACKSLASH /\ Char(k + 1) \in DOMAIN Escapes
    <3>1. Scans[k] = AndThen(Escapes[Char(k + 1)], Scans[k + 2])
      BY <2>3, ScanCases
    <3>2. ~Escaped(i, k + 2) /\ (ClosesAt(i, k, b) <=> ClosesAt(i, k + 2, b))
      BY <1>1, <2>3, ClosesStep
    <3>3. k + 2 \in 1 .. BufferEnd
      BY <2>3, <2>c, ScanReads
    <3>4. ClosesAt(i, k + 2, b) <=> (Scans[k + 2].closed = TRUE /\ Scans[k + 2].at = b)
      BY <1>1, <2>0, <3>2, <3>3
    <3>5. /\ Scans[k].at = Scans[k + 2].at
          /\ Scans[k].closed = Scans[k + 2].closed
      BY <1>a, <3>1, <3>3
    <3> QED BY <3>2, <3>4, <3>5
  <2>4. CASE Char(k) = BACKSLASH /\ Char(k + 1) \notin DOMAIN Escapes
    <3>1. Scans[k] = Stop(k + 1, FALSE) /\ ~ClosesAt(i, k, b)
      BY <1>1, <2>4, ScanCases, ClosesStep
    <3> QED BY <1>s, <2>0, <3>1
  <2>5. CASE Char(k) \notin {NUL, QUOTE, BACKSLASH}
    <3>1. Scans[k] = AndThen(Char(k), Scans[k + 1])
      BY <2>5, ScanCases
    <3>2. ~Escaped(i, k + 1) /\ (ClosesAt(i, k, b) <=> ClosesAt(i, k + 1, b))
      BY <1>1, <2>5, ClosesStep
    <3>3. k + 1 \in 1 .. BufferEnd
      BY <2>5, ScanReads
    <3>4. ClosesAt(i, k + 1, b) <=> (Scans[k + 1].closed = TRUE /\ Scans[k + 1].at = b)
      BY <1>1, <2>0, <3>2, <3>3
    <3>5. /\ Scans[k].at = Scans[k + 1].at
          /\ Scans[k].closed = Scans[k + 1].closed
      BY <1>a, <3>1, <3>3
    <3> QED BY <3>2, <3>4, <3>5
  <2> QED BY <2>1, <2>2, <2>3, <2>4, <2>5
<1>2. \A k \in 1 .. BufferEnd : (\A m \in 1 .. BufferEnd : m > k => m \in S) => k \in S
  BY <1>1
<1>3. \A k \in 1 .. BufferEnd : k \in S
  <2> HIDE DEF S
  <2> QED BY <1>2, BufferInduction
<1> QED BY <1>3

LEMMA StringIs ==
  ASSUME text \in Texts, NEW i \in 1 .. BufferEnd, Char(i) = QUOTE, NEW b \in Int
  PROVE  /\ i + 1 \in 1 .. BufferEnd /\ ScanOK(i + 1, Scans[i + 1])
         /\ b <= BufferEnd =>
              (IsString(i, b) <=> (Scans[i + 1].closed = TRUE /\ Scans[i + 1].at = b))
<1>0. BufferEnd \in Nat /\ i \in Nat /\ i + 1 >= i + 1 /\ NUL # QUOTE
  BY TextTypes, CharsDiffer
<1>1. i + 1 \in 1 .. BufferEnd
  BY <1>0, ScanReads
<1>2. ScanOK(i + 1, Scans[i + 1])
  BY <1>1, ScanTypes
<1>3. ~Escaped(i, i + 1)
  BY <1>0, EscapedStep
<1>4. ClosesAt(i, i + 1, b) <=> (Scans[i + 1].closed = TRUE /\ Scans[i + 1].at = b)
  BY <1>0, <1>1, <1>3, StringEnds
<1>5. b > i /\ b <= BufferEnd <=> b \in i + 1 .. BufferEnd
  BY <1>0
<1>6. b <= BufferEnd => (IsString(i, b) <=> ClosesAt(i, i + 1, b))
  BY <1>5 DEF IsString, ClosesAt
<1> QED BY <1>1, <1>2, <1>4, <1>6

----------------------------------------------------------------------------
(* The values of strings: v has one character for every character of a     *)
(* string from i on that is meant, of those from j to before b.            *)
ValueFits(i, j, b, v) ==
  /\ v \in Seq(Characters) /\ Len(v) = Cardinality(Meant(i, j, b))
  /\ \A k \in Meant(i, j, b) : v[Cardinality(Meant(i, j, k + 1))] = Meaning(i, k)

IsMeant(i, k) == Char(k) # BACKSLASH \/ Escaped(i, k)

LEMMA MeantFinite ==
  ASSUME NEW i, NEW j \in Int, NEW b \in Int
  PROVE  IsFiniteSet(Meant(i, j, b)) /\ Cardinality(Meant(i, j, b)) \in Nat
<1>1. Meant(i, j, b) \subseteq j .. b - 1 /\ b - 1 \in Int
  BY DEF Meant
<1>2. IsFiniteSet(j .. b - 1)
  BY <1>1, FS_Interval
<1>3. IsFiniteSet(Meant(i, j, b))
  BY <1>1, <1>2, FS_Subset
<1> QED BY <1>3, FS_CardinalityType

LEMMA MeantMore ==
  ASSUME NEW i, NEW j \in Int, NEW b \in Int, j < b
  PROVE  /\ IsMeant(i, j) => /\ Meant(i, j, b) = Meant(i, j + 1, b) \cup {j}
                             /\ Cardinality(Meant(i, j, b)) = Cardinality(Meant(i, j + 1, b)) + 1
         /\ ~IsMeant(i, j) => Meant(i, j, b) = Meant(i, j + 1, b)
<1>1. j .. b - 1 = (j + 1 .. b - 1) \cup {j} /\ j \notin j + 1 .. b - 1
  OBVIOUS
<1>2. IsMeant(i, j) => Meant(i, j, b) = Meant(i, j + 1, b) \cup {j}
  BY <1>1 DEF IsMeant, Meant
<1>3. ~IsMeant(i, j) => Meant(i, j, b) = Meant(i, j + 1, b)
  BY <1>1 DEF IsMeant, Meant
<1>4. j \notin Meant(i, j + 1, b)
  BY <1>1 DEF Meant
<1>5. IsFiniteSet(Meant(i, j + 1, b))
  BY MeantFinite
<1>6. Cardinality(Meant(i, j + 1, b) \cup {j}) = Cardinality(Meant(i, j + 1, b)) + 1
  BY <1>4, <1>5, FS_AddElement
<1> QED BY <1>2, <1>3, <1>6

(* How many are meant up to one that is.                                   *)
LEMMA MeantUpTo ==
  ASSUME NEW i, NEW j \in Int, NEW b \in Int, NEW k \in Meant(i, j, b)
  PROVE  /\ k \in Int /\ j <= k /\ k < b
         /\ Cardinality(Meant(i, j, k + 1)) \in 1 .. Cardinality(Meant(i, j, b))
<1>1. k \in Int /\ j <= k /\ k < b
  BY DEF Meant
<1>2. k \in Meant(i, j, k + 1) /\ Meant(i, j, k + 1) \subseteq Meant(i, j, b)
  BY <1>1 DEF Meant
<1>3. /\ IsFiniteSet(Meant(i, j, b)) /\ Cardinality(Meant(i, j, b)) \in Nat
      /\ IsFiniteSet(Meant(i, j, k + 1)) /\ Cardinality(Meant(i, j, k + 1)) \in Nat
  BY <1>1, MeantFinite
<1>4. Cardinality(Meant(i, j, k + 1)) <= Cardinality(Meant(i, j, b))
  BY <1>2, <1>3, FS_Subset
<1>5. Cardinality(Meant(i, j, k + 1)) # 0
  BY <1>2, <1>3, FS_EmptySet
<1> QED BY <1>1, <1>3, <1>4, <1>5

LEMMA PutBefore ==
  ASSUME NEW S, NEW c \in S, NEW v \in Seq(S), NEW u, u = <<c>> \o v
  PROVE  /\ u \in Seq(S) /\ Len(v) \in Nat /\ Len(u) = Len(v) + 1 /\ u[1] = c
         /\ \A k \in 1 .. Len(v) : u[k + 1] = v[k]
<1>1. <<c>> \in Seq(S) /\ Len(<<c>>) = 1 /\ <<c>>[1] = c /\ Len(v) \in Nat
  OBVIOUS
<1>2. u \in Seq(S) /\ Len(u) = Len(v) + 1
  BY <1>1, ConcatProperties
<1>3. \A k \in 1 .. Len(v) + 1 : u[k] = IF k <= 1 THEN <<c>>[k] ELSE v[k - 1]
  BY <1>1, ConcatProperties
<1>4. u[1] = c
  BY <1>1, <1>3
<1>5. ASSUME NEW k \in 1 .. Len(v) PROVE u[k + 1] = v[k]
  BY <1>1, <1>3
<1> QED BY <1>1, <1>2, <1>4, <1>5

(* A character that is meant is one character of the value; one that is    *)
(* not, is none.                                                           *)
LEMMA OneMeant ==
  ASSUME NEW i, NEW j \in Int, NEW b \in Int, j < b, IsMeant(i, j), NEW c \in Characters,
         c = Meaning(i, j), NEW v, ValueFits(i, j + 1, b, v), NEW u, u = <<c>> \o v
  PROVE  ValueFits(i, j, b, u)
<1>1. /\ v \in Seq(Characters) /\ Len(v) = Cardinality(Meant(i, j + 1, b))
      /\ \A k \in Meant(i, j + 1, b) : v[Cardinality(Meant(i, j + 1, k + 1))] = Meaning(i, k)
  BY DEF ValueFits
<1>2. /\ u \in Seq(Characters) /\ Len(v) \in Nat /\ Len(u) = Len(v) + 1 /\ u[1] = c
      /\ \A k \in 1 .. Len(v) : u[k + 1] = v[k]
  BY <1>1, PutBefore
<1>3. /\ Meant(i, j, b) = Meant(i, j + 1, b) \cup {j}
      /\ Cardinality(Meant(i, j, b)) = Cardinality(Meant(i, j + 1, b)) + 1
  BY MeantMore
<1>4. u[Cardinality(Meant(i, j, j + 1))] = Meaning(i, j)
  <2>1. Meant(i, j + 1, j + 1) = {}
    BY DEF Meant
  <2>2. Cardinality(Meant(i, j, j + 1)) = Cardinality(Meant(i, j + 1, j + 1)) + 1
    BY MeantMore
  <2>3. Cardinality(Meant(i, j + 1, j + 1)) = 0
    BY <2>1, FS_EmptySet
  <2>4. Cardinality(Meant(i, j, j + 1)) = 1
    BY <2>2, <2>3
  <2> QED BY <1>2, <2>4
<1>5. ASSUME NEW k \in Meant(i, j + 1, b)
      PROVE  u[Cardinality(Meant(i, j, k + 1))] = Meaning(i, k)
  <2>1. k \in Int /\ j < k + 1 /\ k + 1 \in Int
    BY MeantUpTo
  <2>2. PICK m : m = Cardinality(Meant(i, j + 1, k + 1))
    OBVIOUS
  <2>3. m \in 1 .. Len(v)
    BY <1>1, <2>2, MeantUpTo
  <2>4. Cardinality(Meant(i, j, k + 1)) = m + 1
    BY <2>1, <2>2, MeantMore
  <2> QED BY <1>1, <1>2, <2>2, <2>3, <2>4
<1> QED BY <1>1, <1>2, <1>3, <1>4, <1>5 DEF ValueFits

LEMMA NoneMeant ==
  ASSUME NEW i, NEW j \in Int, NEW b \in Int, j < b, ~IsMeant(i, j),
         NEW v, ValueFits(i, j + 1, b, v)
  PROVE  ValueFits(i, j, b, v)
<1>1. Meant(i, j, b) = Meant(i, j + 1, b)
  BY MeantMore
<1>2. ASSUME NEW k \in Meant(i, j + 1, b) PROVE Meant(i, j, k + 1) = Meant(i, j + 1, k + 1)
  <2>1. k \in Int /\ j < k + 1 /\ k + 1 \in Int
    BY MeantUpTo
  <2> QED BY <2>1, MeantMore
<1> QED BY <1>1, <1>2 DEF ValueFits

(* LexString puts together what the characters of a string mean.           *)
LEMMA ScanValue ==
  ASSUME text \in Texts, NEW i \in Nat, Char(i) = QUOTE,
         NEW j \in 1 .. BufferEnd, j >= i + 1, ~Escaped(i, j), NEW b, ClosesAt(i, j, b)
  PROVE  ValueFits(i, j, b, Scans[j].value)
<1> DEFINE P(k) == k >= i + 1 /\ ~Escaped(i, k) /\ ClosesAt(i, k, b) =>
                     ValueFits(i, k, b, Scans[k].value)
           S == {k \in 1 .. BufferEnd : P(k)}
<1>0. BufferEnd \in Nat /\ b \in Int
  BY TextTypes DEF ClosesAt
<1>c. /\ NUL # QUOTE /\ NUL # BACKSLASH /\ QUOTE # BACKSLASH
      /\ \A c \in DOMAIN Escapes : Escapes[c] \in Characters
  BY CharsDiffer, EscapesAre DEF Characters
<1>1. ASSUME NEW k \in 1 .. BufferEnd, \A m \in 1 .. BufferEnd : m > k => P(m),
             k >= i + 1, ~Escaped(i, k), ClosesAt(i, k, b)
      PROVE  ValueFits(i, k, b, Scans[k].value)
  <2>0. /\ k \in Nat /\ k + 1 > k /\ k + 2 > k /\ k + 1 >= i + 1 /\ k + 2 >= i + 1
        /\ k \in Int /\ k + 1 \in Int /\ k <= b /\ (k + 1) + 1 = k + 2 /\ Char(k) \in Characters
    BY <1>0, <1>1, TextTypes DEF ClosesAt
  <2>e. Escaped(i, k + 1) <=> Char(k) = BACKSLASH
    BY <1>1, <2>0, EscapedStep
  <2>1. CASE Char(k) = QUOTE
    <3>1. b = k
      BY <1>1, <2>1, ClosesStep
    <3>2. Scans[k].value = <<>>
      <4>1. Scans[k] = Stop(k, TRUE)
        BY <2>1, ScanCases, Zenon
      <4> QED BY <4>1 DEF Stop
    <3>3. Meant(i, k, k) = {}
      BY <2>0 DEF Meant
    <3>4. Cardinality(Meant(i, k, k)) = 0
      BY <3>3, FS_EmptySet
    <3>5. <<>> \in Seq(Characters) /\ Len(<<>>) = 0
      OBVIOUS
    <3> QED BY <3>1, <3>2, <3>3, <3>4, <3>5 DEF ValueFits
  <2>2. CASE Char(k) = BACKSLASH /\ Char(k + 1) \in DOMAIN Escapes
    <3>1. k + 2 \in 1 .. BufferEnd
      BY <1>c, <2>2, ScanReads
    <3>2. ~Escaped(i, k + 2) /\ ClosesAt(i, k + 2, b)
      BY <1>1, <2>2, ClosesStep
    <3>3. PICK r : r = Scans[k + 2]
      OBVIOUS
    <3>4. ValueFits(i, k + 2, b, r.value) /\ r \in ScanType
      <4>1. r \in ScanType
        BY <3>1, <3>3, ScanTypes DEF ScanOK
      <4> QED BY <1>1, <2>0, <3>1, <3>2, <3>3, <4>1
    <3>5. PICK c \in Characters : c = Escapes[Char(k + 1)]
      BY <1>c, <2>2
    <3>6. Scans[k].value = <<c>> \o r.value
      BY <2>2, <3>3, <3>4, <3>5, ScanCases DEF AndThen, ScanType
    <3>7. k + 2 <= b
      BY <1>0, <2>0, <3>2 DEF ClosesAt
    <3>8. c = Meaning(i, k + 1) /\ IsMeant(i, k + 1) /\ ~IsMeant(i, k)
      BY <1>1, <2>2, <2>e, <3>5 DEF Meaning, IsMeant
    <3>9. k + 1 < b /\ k < b
      BY <1>0, <2>0, <3>7
    <3>10. ValueFits(i, k + 1, b, Scans[k].value)
      BY <1>0, <2>0, <3>4, <3>6, <3>8, <3>9, OneMeant
    <3> QED BY <1>0, <2>0, <3>8, <3>9, <3>10, NoneMeant
  <2>3. CASE Char(k) \notin {NUL, QUOTE, BACKSLASH}
    <3>1. k + 1 \in 1 .. BufferEnd
      BY <2>3, ScanReads
    <3>2. ~Escaped(i, k + 1) /\ ClosesAt(i, k + 1, b)
      BY <1>1, <2>3, ClosesStep
    <3>3. PICK r : r = Scans[k + 1]
      OBVIOUS
    <3>4. ValueFits(i, k + 1, b, r.value) /\ r \in ScanType
      <4>1. r \in ScanType
        BY <3>1, <3>3, ScanTypes DEF ScanOK
      <4> QED BY <1>1, <2>0, <3>1, <3>2, <3>3, <4>1
    <3>5. PICK c \in Characters : c = Char(k)
      BY <2>0
    <3>6. Scans[k].value = <<c>> \o r.value
      BY <2>3, <3>3, <3>4, <3>5, ScanCases DEF AndThen, ScanType
    <3>7. k < b
      BY <1>0, <2>0, <3>2 DEF ClosesAt
    <3>8. c = Meaning(i, k) /\ IsMeant(i, k)
      BY <1>1, <2>3, <3>5 DEF Meaning, IsMeant
    <3> QED BY <1>0, <2>0, <3>4, <3>6, <3>7, <3>8, OneMeant
  <2>4. Char(k) # NUL /\ ~(Char(k) = BACKSLASH /\ Char(k + 1) \notin DOMAIN Escapes)
    BY <1>1, ClosesStep
  <2> QED BY <2>1, <2>2, <2>3, <2>4
<1>2. \A k \in 1 .. BufferEnd : (\A m \in 1 .. BufferEnd : m > k => m \in S) => k \in S
  BY <1>1
<1>3. \A k \in 1 .. BufferEnd : k \in S
  <2> HIDE DEF S
  <2> QED BY <1>2, BufferInduction
<1> QED BY <1>3

----------------------------------------------------------------------------
(* Every alternative of Lex takes the longest lexeme that starts where it  *)
(* is.                                                                     *)
LEMMA CharClasses ==
  /\ \A c \in Letters : c \notin Blanks \cup Range(Digits) \cup OneChar \cup {NUL, "!", QUOTE}
  /\ \A c \in Range(Digits) : c \notin Blanks \cup OneChar \cup {NUL, "!", QUOTE}
  /\ \A c \in OneChar \cup {"!"} : c \notin Blanks \cup {NUL, QUOTE}
  /\ \A c, d : <<c, d>> \in TwoChars => c \in OneChar \cup {"!"} /\ d # "/"
  /\ "/" \in OneChar
<1>1. \A c \in Letters : c \notin Blanks \cup Range(Digits) \cup OneChar \cup {NUL, "!", QUOTE}
  BY LexerAssumption, Zenon
<1>2. QUOTE \notin Range(Digits) \cup OneChar \cup Blanks \cup {"!"}
  BY DigitsAre, Zenon DEF QUOTE, OneChar, Blanks, LF
<1>3. \A c \in Range(Digits) : c \notin Blanks \cup OneChar \cup {NUL, "!"}
  BY DigitsAre DEF Blanks, LF, OneChar, NUL
<1>4. \A c \in OneChar \cup {"!"} : c \notin Blanks \cup {NUL}
  BY DEF Blanks, LF, OneChar, NUL
<1>5. \A c, d : <<c, d>> \in TwoChars => c \in OneChar \cup {"!"} /\ d # "/"
  BY DEF TwoChars, OneChar
<1>6. "/" \in OneChar
  BY DEF OneChar
<1> QED BY <1>1, <1>2, <1>3, <1>4, <1>5, <1>6

LEMMA Kinds ==
  ASSUME NEW i \in Int, NEW j \in Int, i <= j
  PROVE  /\ IsWord(i, j) => Char(i) \in Letters
         /\ IsNumber(i, j) => Char(i) \in Range(Digits)
         /\ IsSymbol(i, j) => Char(i) \in OneChar \cup {"!"}
         /\ IsComment(i, j) => Char(i) = "/" /\ Char(i + 1) = "/" /\ i + 2 <= j
         /\ IsString(i, j) => Char(i) = QUOTE
<1>1. i \in i .. j
  OBVIOUS
<1>2. IsWord(i, j) => Char(i) \in Letters
  BY DEF IsWord, IsIdentifierStart
<1>3. IsNumber(i, j) => Char(i) \in Range(Digits)
  BY <1>1 DEF IsNumber, All, IsDigit
<1>4. IsSymbol(i, j) => Char(i) \in OneChar \cup {"!"}
  BY CharClasses DEF IsSymbol
<1> QED BY <1>2, <1>3, <1>4 DEF IsComment, IsString

LEMMA LongestWord ==
  ASSUME text \in Texts, NEW i \in 1 .. BufferEnd, Char(i) \in Letters,
         NEW last, last = First(i + 1, NotMiddle) - 1
  PROVE  last \in i .. BufferEnd - 1 /\ IsLongest(i, last)
<1>0. BufferEnd \in Nat /\ Char(BufferEnd) = NUL /\ NUL \notin Letters
  BY TextTypes, CharClasses
<1>1. i + 1 \in 1 .. BufferEnd
  BY <1>0
<1>2. PICK n : n = First(i + 1, NotMiddle)
  OBVIOUS
<1>3. /\ n \in i + 1 .. BufferEnd /\ ~IsIdentifierMiddle(Char(n))
      /\ \A k \in i + 1 .. n - 1 : IsIdentifierMiddle(Char(k))
  BY <1>1, <1>2, Firsts
<1>4. last = n - 1 /\ last \in i .. BufferEnd - 1 /\ n \in Int /\ n > last
  BY <1>0, <1>2, <1>3
<1>5. \A k \in i .. last : IsIdentifierMiddle(Char(k))
  <2>1. \A k \in i .. last : k = i \/ k \in i + 1 .. n - 1
    BY <1>0, <1>4
  <2> QED BY <1>3, <2>1 DEF IsIdentifierMiddle, IsIdentifierStart
<1>6. IsLexeme(i, last)
  BY <1>5 DEF IsLexeme, IsWord, All, IsIdentifierStart
<1>7. ASSUME NEW k \in last + 1 .. BufferEnd, IsLexeme(i, k) PROVE FALSE
  <2>1. k \in Int /\ i <= k /\ n \in i .. k
    BY <1>0, <1>3, <1>4
  <2>2. ~IsNumber(i, k) /\ ~IsSymbol(i, k) /\ ~IsComment(i, k) /\ ~IsString(i, k)
    BY <2>1, Kinds, CharClasses
  <2> QED BY <1>3, <1>7, <2>1, <2>2 DEF IsLexeme, IsWord, All
<1> QED BY <1>4, <1>6, <1>7 DEF IsLongest

LEMMA LongestNumber ==
  ASSUME text \in Texts, NEW i \in 1 .. BufferEnd, Char(i) \in Range(Digits),
         NEW last, last = First(i + 1, NotDigit) - 1
  PROVE  last \in i .. BufferEnd - 1 /\ IsLongest(i, last)
<1>0. BufferEnd \in Nat /\ Char(BufferEnd) = NUL /\ NUL \notin Range(Digits)
  BY TextTypes, CharClasses
<1>1. i + 1 \in 1 .. BufferEnd
  BY <1>0
<1>2. PICK n : n = First(i + 1, NotDigit)
  OBVIOUS
<1>3. /\ n \in i + 1 .. BufferEnd /\ ~IsDigit(Char(n))
      /\ \A k \in i + 1 .. n - 1 : IsDigit(Char(k))
  BY <1>1, <1>2, Firsts
<1>4. last = n - 1 /\ last \in i .. BufferEnd - 1 /\ n \in Int /\ n > last
  BY <1>0, <1>2, <1>3
<1>5. \A k \in i .. last : IsDigit(Char(k))
  <2>1. \A k \in i .. last : k = i \/ k \in i + 1 .. n - 1
    BY <1>0, <1>4
  <2> QED BY <1>3, <2>1 DEF IsDigit
<1>6. IsLexeme(i, last)
  BY <1>5 DEF IsLexeme, IsNumber, All
<1>7. ASSUME NEW k \in last + 1 .. BufferEnd, IsLexeme(i, k) PROVE FALSE
  <2>1. k \in Int /\ i <= k /\ n \in i .. k
    BY <1>0, <1>3, <1>4
  <2>2. ~IsWord(i, k) /\ ~IsSymbol(i, k) /\ ~IsComment(i, k) /\ ~IsString(i, k)
    BY <2>1, Kinds, CharClasses
  <2> QED BY <1>3, <1>7, <2>1, <2>2 DEF IsLexeme, IsNumber, All
<1> QED BY <1>4, <1>6, <1>7 DEF IsLongest

LEMMA LongestComment ==
  ASSUME text \in Texts, NEW i \in 1 .. BufferEnd,
         Char(i) = "/", Char(i + 1) = "/",
         NEW last, last = First(i + 2, EndsLine)
  PROVE  last \in i + 2 .. BufferEnd /\ IsLongest(i, last)
<1>0. BufferEnd \in Nat /\ Char(BufferEnd) = NUL /\ NUL # "/"
  BY TextTypes DEF NUL
<1>1. i \in Nat /\ i + 1 \in 1 .. BufferEnd
  BY <1>0
<1>2. i + 2 \in 1 .. BufferEnd
  BY <1>0, <1>1
<1>3. /\ last \in i + 2 .. BufferEnd /\ EndsLine(Char(last))
      /\ \A k \in i + 2 .. last - 1 : ~EndsLine(Char(k))
  BY <1>2, Firsts
<1>4. last \in Nat /\ last >= i + 2 /\ last <= BufferEnd
  BY <1>0, <1>3
<1>5. \A k \in i + 2 .. last : k \in Int /\ (k = last \/ k \in i + 2 .. last - 1)
  BY <1>4, <1>1
<1>6. \A k \in i + 2 .. last : EndsLine(Char(k)) <=> k = last
  BY <1>3, <1>5
<1>7. IsLexeme(i, last)
  BY <1>4, <1>6 DEF IsLexeme, IsComment
<1>8. ASSUME NEW k \in last + 1 .. BufferEnd, IsLexeme(i, k) PROVE FALSE
  <2>1. /\ k \in Int /\ i <= k /\ last \in i + 2 .. k /\ last # k
        /\ k # i + 1 /\ k # i
    BY <1>0, <1>1, <1>4
  <2>2. ~IsComment(i, k)
    BY <1>3, <2>1 DEF IsComment
  <2>3. Char(i) \in OneChar
    BY CharClasses
  <2>4. ~IsWord(i, k) /\ ~IsNumber(i, k) /\ ~IsString(i, k)
    BY <2>1, <2>3, Kinds, CharClasses
  <2>5. ~IsSymbol(i, k)
    BY <2>1 DEF IsSymbol
  <2> QED BY <1>8, <2>2, <2>4, <2>5 DEF IsLexeme
<1> QED BY <1>3, <1>7, <1>8 DEF IsLongest

LEMMA LongestString ==
  ASSUME text \in Texts, NEW i \in 1 .. BufferEnd, Char(i) = QUOTE,
         NEW r, r = Scans[i + 1], r.closed = TRUE
  PROVE  r.at \in i + 1 .. BufferEnd - 1 /\ IsLongest(i, r.at)
<1>0. BufferEnd \in Nat /\ Char(BufferEnd) = NUL /\ NUL # QUOTE /\ i \in Nat
  BY TextTypes, CharsDiffer
<1>1. ScanOK(i + 1, r)
  <2>1. 0 \in Int
    OBVIOUS
  <2>2. ScanOK(i + 1, Scans[i + 1])
    BY <2>1, StringIs
  <2> QED BY <2>2
<1>2. r.at \in Nat /\ r.at >= i + 1 /\ r.at <= BufferEnd /\ Char(r.at) = QUOTE
  BY <1>1 DEF ScanOK, ScanType
<1>3. r.at # BufferEnd
  BY <1>0, <1>2
<1>4. IsLexeme(i, r.at)
  <2>1. PICK b \in Int : b = r.at
    BY <1>2
  <2>2. IsString(i, b)
    BY <1>2, <2>1, StringIs
  <2> QED BY <2>1, <2>2 DEF IsLexeme
<1>5. ASSUME NEW k \in r.at + 1 .. BufferEnd, IsLexeme(i, k) PROVE FALSE
  <2>1. k \in Int /\ i <= k /\ k <= BufferEnd /\ k # r.at
    BY <1>0, <1>2
  <2>2. IsString(i, k) => r.at = k
    BY <2>1, StringIs
  <2>3. ~IsWord(i, k) /\ ~IsNumber(i, k) /\ ~IsSymbol(i, k) /\ ~IsComment(i, k)
    BY <2>1, Kinds, CharClasses
  <2> QED BY <1>5, <2>1, <2>2, <2>3 DEF IsLexeme
<1>6. r.at \in i + 1 .. BufferEnd - 1
  BY <1>0, <1>2, <1>3
<1> QED BY <1>4, <1>5, <1>6 DEF IsLongest

LEMMA LongestTwoChars ==
  ASSUME text \in Texts, NEW i \in 1 .. BufferEnd,
         Char(i) # NUL, <<Char(i), Char(i + 1)>> \in TwoChars
  PROVE  i + 1 \in i .. BufferEnd - 1 /\ IsLongest(i, i + 1)
<1>0. BufferEnd \in Nat /\ Char(BufferEnd) = NUL /\ i \in Nat
  BY TextTypes
<1>1. Char(i) \in OneChar \cup {"!"} /\ Char(i + 1) # "/"
  BY CharClasses
<1>2. Char(i + 1) # NUL
  BY DEF TwoChars, NUL
<1>3. i + 1 \in i .. BufferEnd - 1
  BY <1>0, <1>2
<1>4. IsLexeme(i, i + 1)
  BY DEF IsLexeme, IsSymbol
<1>5. ASSUME NEW k \in i + 1 + 1 .. BufferEnd, IsLexeme(i, k) PROVE FALSE
  <2>1. k \in Int /\ i <= k /\ k # i + 1 /\ k # i
    BY <1>0
  <2>2. ~IsWord(i, k) /\ ~IsNumber(i, k) /\ ~IsComment(i, k) /\ ~IsString(i, k)
    BY <1>1, <2>1, Kinds, CharClasses
  <2>3. ~IsSymbol(i, k)
    BY <2>1 DEF IsSymbol
  <2> QED BY <1>5, <2>2, <2>3 DEF IsLexeme
<1> QED BY <1>3, <1>4, <1>5 DEF IsLongest

LEMMA LongestOneChar ==
  ASSUME text \in Texts, NEW i \in 1 .. BufferEnd, Char(i) \in OneChar,
         <<Char(i), Char(i + 1)>> \notin TwoChars, ~(Char(i) = "/" /\ Char(i + 1) = "/")
  PROVE  i \in i .. BufferEnd - 1 /\ IsLongest(i, i)
<1>0. BufferEnd \in Nat /\ Char(BufferEnd) = NUL /\ i \in Nat
  BY TextTypes
<1>1. Char(i) # NUL
  BY CharClasses
<1>2. i \in i .. BufferEnd - 1
  BY <1>0, <1>1
<1>3. IsLexeme(i, i)
  BY DEF IsLexeme, IsSymbol
<1>4. ASSUME NEW k \in i + 1 .. BufferEnd, IsLexeme(i, k) PROVE FALSE
  <2>1. k \in Int /\ i <= k /\ k # i
    BY <1>0
  <2>2. ~IsWord(i, k) /\ ~IsNumber(i, k) /\ ~IsComment(i, k) /\ ~IsString(i, k)
    BY <2>1, Kinds, CharClasses
  <2>3. ~IsSymbol(i, k)
    BY <2>1 DEF IsSymbol
  <2> QED BY <1>4, <2>2, <2>3 DEF IsLexeme
<1> QED BY <1>2, <1>3, <1>4 DEF IsLongest

(* Where Lex ends, no lexeme starts.                                       *)
LEMMA NothingStarts ==
  ASSUME text \in Texts, NEW i \in 1 .. BufferEnd, NEW j \in i .. BufferEnd,
         \/ Char(i) = NUL
         \/ Char(i) = QUOTE /\ Scans[i + 1].closed # TRUE
         \/ /\ StartsNothing(Char(i))
            /\ ~(Char(i) # NUL /\ <<Char(i), Char(i + 1)>> \in TwoChars)
  PROVE  ~IsLexeme(i, j)
<1>0. BufferEnd \in Nat /\ i \in Int /\ j \in Int /\ i <= j /\ j <= BufferEnd
  BY TextTypes
<1>1. CASE Char(i) = NUL
  BY <1>0, <1>1, Kinds, CharClasses, CharsDiffer DEF IsLexeme
<1>2. CASE Char(i) = QUOTE /\ Scans[i + 1].closed # TRUE
  <2>1. ~IsString(i, j)
    BY <1>0, <1>2, StringIs
  <2>2. ~IsWord(i, j) /\ ~IsNumber(i, j) /\ ~IsSymbol(i, j) /\ ~IsComment(i, j)
    BY <1>0, <1>2, Kinds, CharClasses
  <2> QED BY <2>1, <2>2 DEF IsLexeme
<1>3. CASE /\ StartsNothing(Char(i))
           /\ ~(Char(i) # NUL /\ <<Char(i), Char(i + 1)>> \in TwoChars)
  <2>1. /\ Char(i) \notin OneChar /\ Char(i) # NUL /\ Char(i) # QUOTE
        /\ Char(i) \notin Letters /\ Char(i) \notin Range(Digits)
    BY <1>3 DEF StartsNothing, IsIdentifierMiddle, IsIdentifierStart, IsDigit
  <2>2. ~IsWord(i, j) /\ ~IsNumber(i, j) /\ ~IsComment(i, j) /\ ~IsString(i, j)
    BY <1>0, <2>1, Kinds, CharClasses
  <2>3. ~IsSymbol(i, j)
    BY <1>3, <2>1 DEF IsSymbol
  <2> QED BY <2>2, <2>3 DEF IsLexeme
<1> QED BY <1>1, <1>2, <1>3

----------------------------------------------------------------------------
(* CodePtr keeps the line and the column of the character it points to.    *)
LEMMA PlaceStep ==
  ASSUME NEW i \in Nat \ {0}
  PROVE  /\ PlaceOf(i) \in Places
         /\ PlaceOf(i + 1) = StepOver(PlaceOf(i), Char(i))
<1>1. Breaks(i) \subseteq 1 .. i - 1
  BY DEF Breaks
<1>2. IsFiniteSet(Breaks(i)) /\ Cardinality(Breaks(i)) \in Nat
  <2>1. IsFiniteSet(1 .. i - 1)
    BY FS_Interval
  <2> QED BY <1>1, <2>1, FS_Subset, FS_CardinalityType
<1>3. PICK m \in Breaks(i) \cup {0} : \A h \in Breaks(i) \cup {0} : h <= m
  <2>1. i - 1 \in Nat /\ Breaks(i) \cup {0} \in SUBSET (0 .. i - 1)
    BY <1>1
  <2> QED BY <2>1, HasGreatest
<1>4. m \in Nat /\ m <= i - 1 /\ \A h \in Breaks(i) \cup {0} : h \in Int /\ m >= h
  BY <1>1, <1>3
<1>5. Max(Breaks(i) \cup {0}) = m
  BY <1>4, MaxIs
<1>6. PlaceOf(i) = [line |-> 1 + Cardinality(Breaks(i)), col |-> i - m]
  BY <1>5 DEF PlaceOf
<1>7. 1 + Cardinality(Breaks(i)) \in Nat \ {0} /\ i - m \in Nat \ {0}
  BY <1>2, <1>4
<1>8. PlaceOf(i) \in Places
  BY <1>6, <1>7 DEF Places
<1>9. CASE Char(i) = LF
  <2>1. Breaks(i + 1) = Breaks(i) \cup {i}
    BY <1>9 DEF Breaks
  <2>2. i \notin Breaks(i)
    BY <1>1
  <2>3. Cardinality(Breaks(i + 1)) = Cardinality(Breaks(i)) + 1
    BY <1>2, <2>1, <2>2, FS_AddElement
  <2>4. /\ i \in Breaks(i + 1) \cup {0}
        /\ \A h \in Breaks(i + 1) \cup {0} : h \in Int /\ i >= h
    BY <1>1, <2>1
  <2>5. Max(Breaks(i + 1) \cup {0}) = i
    BY <2>4, MaxIs
  <2>6. (i + 1) - i = 1 /\ 1 + (Cardinality(Breaks(i)) + 1) = (1 + Cardinality(Breaks(i))) + 1
    BY <1>2
  <2>7. PlaceOf(i + 1) = [line |-> (1 + Cardinality(Breaks(i))) + 1, col |-> 1]
    BY <2>3, <2>5, <2>6 DEF PlaceOf
  <2> QED BY <1>6, <1>8, <1>9, <2>7 DEF StepOver
<1>10. CASE Char(i) # LF
  <2>1. Breaks(i + 1) = Breaks(i)
    BY <1>10 DEF Breaks
  <2>2. (i + 1) - m = (i - m) + 1
    BY <1>4
  <2>3. PlaceOf(i + 1) = [line |-> 1 + Cardinality(Breaks(i)), col |-> (i - m) + 1]
    BY <1>5, <2>1, <2>2 DEF PlaceOf
  <2> QED BY <1>6, <1>8, <1>10, <2>3 DEF StepOver
<1> QED BY <1>8, <1>9, <1>10

LEMMA PosAtIs ==
  ASSUME NEW i \in Nat \ {0}, NEW j \in Nat, i <= j
  PROVE  PosAt(PlaceOf(i), i, j) = PlaceOf(j)
<1> DEFINE Step(f, k) == IF k = i THEN PlaceOf(i) ELSE StepOver(f[k - 1], Char(k - 1))
           f == CHOOSE f : f = [k \in i .. j |-> Step(f, k)]
           g == [k \in i .. j |-> PlaceOf(k)]
<1>1. PosAt(PlaceOf(i), i, j) = f[j]
  BY DEF PosAt
<1>2. ASSUME NEW k \in i .. j
      PROVE  k = i \/ /\ k - 1 \in i .. j /\ k - 1 < k
                      /\ PlaceOf(k) = StepOver(PlaceOf(k - 1), Char(k - 1))
  <2>1. k = i \/ (k - 1 \in i .. j /\ k - 1 \in Nat \ {0} /\ (k - 1) + 1 = k)
    OBVIOUS
  <2>2. k - 1 < k
    OBVIOUS
  <2>3. k # i => PlaceOf((k - 1) + 1) = StepOver(PlaceOf(k - 1), Char(k - 1))
    BY <2>1, PlaceStep
  <2> QED BY <2>1, <2>2, <2>3
<1>3. g = [k \in i .. j |-> Step(g, k)]
  <2>1. ASSUME NEW k \in i .. j PROVE PlaceOf(k) = Step(g, k)
    BY <1>2
  <2> QED BY <2>1
<1>4. f = [k \in i .. j |-> Step(f, k)]
  <2> HIDE DEF g, Step
  <2> QED BY <1>3
<1> HIDE DEF f, g
<1>5. \A k \in i .. j : f[k] = Step(f, k)
  <2> HIDE DEF Step
  <2> QED BY <1>4
<1> DEFINE T == {k \in i .. j : f[k] # PlaceOf(k)}
<1>6. T = {}
  <2> SUFFICES ASSUME T # {} PROVE FALSE
    OBVIOUS
  <2>1. T \in SUBSET Nat
    OBVIOUS
  <2>2. PICK k \in T : \A m \in T : k <= m
    <3> HIDE DEF T
    <3> QED BY <2>1, HasLeast
  <2>3. k \in i .. j /\ f[k] # PlaceOf(k)
    OBVIOUS
  <2>4. k # i
    BY <1>5, <2>3
  <2>5. /\ k - 1 \in i .. j /\ k - 1 < k
        /\ PlaceOf(k) = StepOver(PlaceOf(k - 1), Char(k - 1))
    BY <1>2, <2>3, <2>4
  <2>6. f[k - 1] = PlaceOf(k - 1)
    BY <2>2, <2>5
  <2> QED BY <1>5, <2>3, <2>4, <2>5, <2>6
<1>7. j \in i .. j
  OBVIOUS
<1> QED BY <1>1, <1>6, <1>7

----------------------------------------------------------------------------
(* The inductive invariant.  What the pointer has passed is cut into       *)
(* longest lexemes, apart from each other, with white space between them;  *)
(* while the scan goes on the last of them ends right before the pointer.  *)
Kept == {"keyword", "identifier", "number", "string", "symbol"}
Values(kind) == IF kind = "number" THEN -MaxInt - 1 .. MaxInt ELSE Seq(Characters)
TokenType ==
  {t \in [kind : Kept \cup {"eof"}, value : (-MaxInt - 1 .. MaxInt) \cup Seq(Characters),
          pos : Places, first : Nat \ {0}, last : Nat \ {0}] :
     t.value \in Values(t.kind)}

InBuffer ==
  /\ text \in Texts /\ status \in {"lexing", "done", "error", "beyond"}
  /\ ptr \in 1 .. BufferEnd + 1
  /\ status # "beyond" => ptr <= BufferEnd
  /\ status = "beyond" => \E e \in comments : e.last = BufferEnd

TokensTyped ==
  /\ tokens \in Seq(TokenType)
  /\ status # "done" => \A t \in Range(tokens) : t.kind # "eof"

Passed ==
  \A e \in Extents :
    /\ e.first \in Nat \ {0} /\ e.last \in Nat /\ e.first <= e.last /\ e.last < ptr
    /\ IsLongest(e.first, e.last)

Apart == \A e, f \in Extents : e = f \/ e.last < f.first \/ f.last < e.first

Covered ==
  \A i \in 1 .. ptr - 1 :
    (\E e \in Extents : i \in e.first .. e.last) \/ status = "error" \/ Char(i) \in Blanks

InOrder == \A k \in 1 .. Len(tokens) - 1 : tokens[k].last < tokens[k + 1].first

Lasts  == {e.last : e \in Extents} \cup {0}
CameTo == Lexing => ptr - 1 \in Lasts

(* m is the last character of the last lexeme, and n the next that is not  *)
(* white space: no lexeme starts there.                                    *)
EndsAt(m, n) ==
  /\ m \in Lasts /\ \A k \in Lasts : k <= m
  /\ m \in Nat /\ n \in m + 1 .. BufferEnd
  /\ Char(n) \notin Blanks /\ \A k \in m + 1 .. n - 1 : Char(k) \in Blanks
  /\ \A j \in n .. BufferEnd : ~IsLexeme(n, j)
  /\ status = "done" <=> Char(n) = NUL
Ended == status \in {"done", "error"} => \E m, n \in 0 .. BufferEnd : EndsAt(m, n)

LInv == /\ InBuffer /\ TokensTyped /\ PositionsExact /\ Passed /\ Apart /\ Covered
        /\ InOrder /\ CameTo /\ Ended

LEMMA InitLInv == Init => LInv
<1> SUFFICES ASSUME Init PROVE LInv
  OBVIOUS
<1>1. text \in Texts /\ ptr = 1 /\ tokens = <<>> /\ comments = {} /\ status = "lexing"
  BY DEF Init
<1>2. BufferEnd \in Nat \ {0}
  BY <1>1, TextTypes
<1>3. Range(tokens) = {} /\ Len(tokens) = 0
  BY <1>1 DEF Range
<1>4. Extents = {}
  BY <1>1, <1>3 DEF Extents, TokensMade
<1>5. pos = PlaceOf(ptr)
  <2>1. Breaks(1) = {}
    BY DEF Breaks
  <2>2. Cardinality(Breaks(1)) = 0
    BY <2>1, FS_EmptySet
  <2>3. Max({0}) = 0
    BY MaxIs
  <2>4. Max(Breaks(1) \cup {0}) = 0
    <3>1. Breaks(1) \cup {0} = {0}
      BY <2>1
    <3> QED BY <2>3, <3>1
  <2>5. PlaceOf(1) = [line |-> 1, col |-> 1]
    BY <2>2, <2>4 DEF PlaceOf
  <2> QED BY <1>1, <2>5 DEF Init, Start
<1>6. InBuffer
  BY <1>1, <1>2 DEF InBuffer
<1>7. TokensTyped
  BY <1>1, <1>3 DEF TokensTyped
<1>8. PositionsExact
  BY <1>3, <1>5 DEF PositionsExact
<1>9. Passed /\ Apart /\ Covered /\ InOrder
  BY <1>1, <1>3, <1>4 DEF Passed, Apart, Covered, InOrder
<1>10. CameTo /\ Ended
  BY <1>1 DEF CameTo, Ended, Lasts
<1> QED BY <1>6, <1>7, <1>8, <1>9, <1>10 DEF LInv

(* A lexeme more, from here on.                                            *)
LEMMA OneMore ==
  ASSUME LInv, text' = text, NEW here \in ptr .. BufferEnd,
         \A k \in ptr .. here - 1 : Char(k) \in Blanks,
         NEW last \in here .. BufferEnd, IsLongest(here, last),
         ptr' = last + 1, Extents' = Extents \cup {[first |-> here, last |-> last]},
         status' # "error", status # "error"
  PROVE  Passed' /\ Apart' /\ Covered' /\ CameTo'
<1> DEFINE e == [first |-> here, last |-> last]
<1>0. /\ BufferEnd \in Nat /\ ptr \in Nat \ {0} /\ here \in Nat \ {0} /\ last \in Nat
      /\ ptr <= here /\ here <= last
  BY TextTypes DEF LInv, InBuffer
<1>1. Passed /\ Apart /\ Covered
  BY DEF LInv
<1>2. e.first = here /\ e.last = last
  OBVIOUS
<1> HIDE DEF e
<1>3. Extents' = Extents \cup {e}
  BY DEF e
<1>4. ASSUME NEW f \in Extents
      PROVE  /\ f.first \in Nat \ {0} /\ f.last \in Nat /\ f.first <= f.last
             /\ f.last < ptr /\ f.last < here /\ f.last < ptr'
             /\ IsLongest(f.first, f.last)'
  <2>1. /\ f.first \in Nat \ {0} /\ f.last \in Nat /\ f.first <= f.last /\ f.last < ptr
        /\ IsLongest(f.first, f.last)
    BY <1>1 DEF Passed
  <2>2. f.last < here /\ f.last < ptr'
    BY <1>0, <2>1
  <2>3. ASSUME NEW i, NEW j, IsLongest(i, j) PROVE IsLongest(i, j)'
    BY <2>3, TextFixed
  <2>4. IsLongest(f.first, f.last)'
    BY <2>1, <2>3
  <2> QED BY <2>1, <2>2, <2>4
<1>5. IsLongest(e.first, e.last)' /\ e.last < ptr'
  <2>1. IsLongest(here, last)'
    BY TextFixed
  <2> QED BY <1>0, <1>2, <2>1
<1>6. Passed'
  BY <1>0, <1>2, <1>3, <1>4, <1>5 DEF Passed
<1>7. Apart'
  <2>1. \A f \in Extents : f.last < e.first
    BY <1>2, <1>4
  <2> QED BY <1>1, <1>3, <2>1 DEF Apart
<1>8. Covered'
  <2>1. ASSUME NEW i \in 1 .. last
        PROVE  (\E f \in Extents \cup {e} : i \in f.first .. f.last) \/ Char(i)' \in Blanks
    <3>0. i \in Int /\ Char(i)' = Char(i)
      BY TextFixed
    <3>1. i \in 1 .. ptr - 1 \/ i \in ptr .. here - 1 \/ i \in here .. last
      BY <1>0, <3>0
    <3>2. CASE i \in 1 .. ptr - 1
      BY <1>1, <3>0, <3>2 DEF Covered
    <3>3. CASE i \in ptr .. here - 1
      BY <3>0, <3>3
    <3>4. CASE i \in here .. last
      BY <1>2, <3>4
    <3> QED BY <3>1, <3>2, <3>3, <3>4
  <2>2. ptr' - 1 = last
    BY <1>0
  <2> QED BY <1>3, <2>1, <2>2 DEF Covered
<1>9. CameTo'
  <2>1. ptr' - 1 = last
    BY <1>0
  <2>2. e \in Extents'
    BY <1>3
  <2> QED BY <1>2, <2>1, <2>2 DEF CameTo, Lasts
<1> QED BY <1>6, <1>7, <1>8, <1>9

(* The end of the scan: the extents stay as they are, and no lexeme starts *)
(* at here.                                                                *)
LEMMA NoMore ==
  ASSUME LInv, Lexing, text' = text, NEW here \in ptr .. BufferEnd,
         \A k \in ptr .. here - 1 : Char(k) \in Blanks, Char(here) \notin Blanks,
         \A j \in here .. BufferEnd : ~IsLexeme(here, j),
         ptr' \in here .. BufferEnd, Extents' = Extents,
         status' \in {"done", "error"}, status' = "done" <=> Char(here) = NUL,
         status' = "done" => ptr' = here
  PROVE  Passed' /\ Apart' /\ Covered' /\ CameTo' /\ Ended'
<1>0. /\ BufferEnd \in Nat /\ ptr \in Nat \ {0} /\ here \in Nat \ {0} /\ ptr' \in Nat
      /\ ptr <= here /\ ptr <= ptr' /\ BufferEnd' = BufferEnd /\ here <= BufferEnd
  BY TextTypes, TextFixed DEF LInv, InBuffer
<1>1. Passed /\ Apart /\ Covered /\ CameTo
  BY DEF LInv
<1>2. ASSUME NEW i, NEW j
      PROVE  /\ Char(i)' = Char(i) /\ (IsLexeme(i, j)' <=> IsLexeme(i, j))
             /\ IsLongest(i, j)' <=> IsLongest(i, j)
  BY TextFixed
<1>3. Passed'
  <2>1. ASSUME NEW f \in Extents
        PROVE  /\ f.first \in Nat \ {0} /\ f.last \in Nat /\ f.first <= f.last
               /\ f.last < ptr' /\ IsLongest(f.first, f.last)'
    BY <1>0, <1>1, <1>2 DEF Passed
  <2> QED BY <2>1 DEF Passed
<1>4. Apart'
  BY <1>1 DEF Apart
<1>5. Covered'
  <2>1. CASE status' = "error"
    BY <2>1 DEF Covered
  <2>2. CASE status' # "error"
    <3>1. ptr' = here
      BY <2>2
    <3>2. \A i \in 1 .. here - 1 : i \in 1 .. ptr - 1 \/ i \in ptr .. here - 1
      BY <1>0
    <3>3. \A i \in 1 .. here - 1 :
            (\E e \in Extents : i \in e.first .. e.last) \/ Char(i)' \in Blanks
      BY <1>1, <1>2, <3>2 DEF Covered, Lexing
    <3> QED BY <3>1, <3>3 DEF Covered
  <2> QED BY <2>1, <2>2
<1>6. CameTo'
  BY DEF CameTo, Lexing
<1>7. Ended'
  <2>1. PICK m : m = ptr - 1
    OBVIOUS
  <2>2. m \in Lasts /\ m \in Nat /\ m \in 0 .. BufferEnd /\ here \in m + 1 .. BufferEnd
        /\ here \in 0 .. BufferEnd
    BY <1>0, <1>1, <2>1 DEF CameTo
  <2>3. \A k \in Lasts : k <= m
    BY <1>0, <1>1, <2>1 DEF Lasts, Passed
  <2>4. Lasts' = Lasts
    BY DEF Lasts
  <2>5. \A k \in m + 1 .. here - 1 : Char(k)' \in Blanks
    BY <1>0, <1>2, <2>1
  <2>6. \A j \in here .. BufferEnd : ~IsLexeme(here, j)'
    BY <1>2
  <2>7. Char(here)' \notin Blanks /\ (status' = "done" <=> Char(here)' = NUL)
    BY <1>2
  <2>8. EndsAt(m, here)'
    BY <1>0, <2>2, <2>3, <2>4, <2>5, <2>6, <2>7 DEF EndsAt
  <2> QED BY <1>0, <2>2, <2>8 DEF Ended
<1> QED BY <1>3, <1>4, <1>5, <1>6, <1>7

(* A token more at the end of the output.                                  *)
LEMMA AppendFacts ==
  ASSUME NEW S, NEW s \in Seq(S), NEW t \in S
  PROVE  /\ Append(s, t) \in Seq(S) /\ Len(s) \in Nat
         /\ Len(Append(s, t)) = Len(s) + 1
         /\ \A k \in 1 .. Len(s) : Append(s, t)[k] = s[k] /\ s[k] \in Range(s)
         /\ Append(s, t)[Len(s) + 1] = t
         /\ Range(Append(s, t)) = Range(s) \cup {t}
<1>1. /\ Append(s, t) \in Seq(S) /\ Len(s) \in Nat
      /\ Len(Append(s, t)) = Len(s) + 1
      /\ \A k \in 1 .. Len(s) : Append(s, t)[k] = s[k]
      /\ Append(s, t)[Len(s) + 1] = t
      /\ DOMAIN s = 1 .. Len(s)
      /\ DOMAIN Append(s, t) = 1 .. Len(s) + 1
  BY AppendProperties, LenProperties
<1>2. \A k \in 1 .. Len(s) : s[k] \in Range(s)
  BY <1>1 DEF Range
<1>3. PICK u : u = Append(s, t)
  OBVIOUS
<1>4. Range(u) = Range(s) \cup {t}
  <2>1. ASSUME NEW x \in Range(u) PROVE x \in Range(s) \cup {t}
    <3>1. PICK k \in 1 .. Len(s) + 1 : x = u[k]
      BY <1>1, <1>3 DEF Range
    <3>2. k \in 1 .. Len(s) \/ k = Len(s) + 1
      BY <1>1
    <3> QED BY <1>1, <1>2, <1>3, <3>1, <3>2
  <2>2. ASSUME NEW x \in Range(s) PROVE x \in Range(u)
    <3>1. PICK k \in 1 .. Len(s) : x = s[k]
      BY <1>1 DEF Range
    <3>2. k \in DOMAIN u /\ x = u[k]
      BY <1>1, <1>3, <3>1
    <3> QED BY <3>2 DEF Range
  <2>3. t \in Range(u)
    <3>1. Len(s) + 1 \in DOMAIN u /\ t = u[Len(s) + 1]
      BY <1>1, <1>3
    <3> QED BY <3>1 DEF Range
  <2> QED BY <2>1, <2>2, <2>3
<1> QED BY <1>1, <1>2, <1>3, <1>4

LEMMA OrderKept ==
  ASSUME LInv, status = "lexing", NEW t, NEW here \in Nat, ptr <= here, t.first = here,
         Len(tokens) \in Nat, Len(tokens') = Len(tokens) + 1,
         \A u \in Range(tokens) : u.kind # "eof",
         \A k \in 1 .. Len(tokens) : tokens'[k] = tokens[k] /\ tokens[k] \in Range(tokens),
         tokens'[Len(tokens) + 1] = t
  PROVE  InOrder'
<1>1. ASSUME NEW k \in 1 .. Len(tokens') - 1
      PROVE  tokens'[k].last < tokens'[k + 1].first
  <2>1. k \in 1 .. Len(tokens) /\ (k \in 1 .. Len(tokens) - 1 \/ k = Len(tokens))
    OBVIOUS
  <2>2. CASE k \in 1 .. Len(tokens) - 1
    <3>1. k + 1 \in 1 .. Len(tokens)
      BY <2>2
    <3>2. tokens[k].last < tokens[k + 1].first
      BY <2>2 DEF LInv, InOrder
    <3> QED BY <2>1, <3>1, <3>2
  <2>3. CASE k = Len(tokens)
    <3>1. PICK u : u = tokens[k]
      OBVIOUS
    <3>2. u \in TokensMade
      BY <2>1, <3>1 DEF TokensMade
    <3>3. PICK e \in Extents : e = [first |-> u.first, last |-> u.last]
      BY <3>2 DEF Extents
    <3>4. u.last \in Nat /\ u.last < ptr /\ ptr \in Int
      <4>1. BufferEnd \in Nat
        BY TextTypes DEF LInv, InBuffer
      <4> QED BY <3>3, <4>1 DEF LInv, Passed, InBuffer
    <3>5. u.last < here
      BY <3>4
    <3> QED BY <2>1, <2>3, <3>1, <3>5
  <2> QED BY <2>1, <2>2, <2>3
<1> QED BY <1>1 DEF InOrder

LEMMA MovedTo ==
  ASSUME LInv, text' = text, NEW j \in ptr .. BufferEnd + 1, GoTo(j),
         \A t \in Range(tokens') :
           t \in Range(tokens) \/ (t.first \in Nat /\ ptr <= t.first
                                     /\ t.pos = PosAt(pos, ptr, t.first))
  PROVE  PositionsExact' /\ pos' \in Places
<1>0. BufferEnd \in Nat /\ ptr \in Nat \ {0} /\ j \in Nat /\ ptr <= j
  BY TextTypes DEF LInv, InBuffer
<1>1. pos = PlaceOf(ptr) /\ \A t \in Range(tokens) : t.pos = PlaceOf(t.first)
  BY DEF LInv, PositionsExact
<1>2. PICK p \in Nat \ {0} : p = ptr
  BY <1>0
<1>3. ASSUME NEW k \in Nat, ptr <= k PROVE PosAt(pos, ptr, k) = PlaceOf(k)
  <2>1. PosAt(PlaceOf(p), p, k) = PlaceOf(k)
    BY <1>2, <1>3, PosAtIs
  <2> QED BY <1>1, <1>2, <2>1
<1>4. ptr' = j /\ pos' = PlaceOf(j)
  BY <1>0, <1>3 DEF GoTo
<1>5. ASSUME NEW k PROVE PlaceOf(k)' = PlaceOf(k) /\ Char(k)' = Char(k)
  BY TextFixed
<1>6. pos' = PlaceOf(ptr)'
  <2>1. Breaks(ptr)' = Breaks(j)
    BY <1>4, <1>5 DEF Breaks
  <2> QED BY <1>4, <2>1 DEF PlaceOf
<1>7. \A t \in Range(tokens') : t.pos = PlaceOf(t.first)'
  <2>1. ASSUME NEW t \in Range(tokens') PROVE t.pos = PlaceOf(t.first)
    BY <1>1, <1>3
  <2>2. ASSUME NEW k, NEW q, q = PlaceOf(k) PROVE q = PlaceOf(k)'
    BY <1>5, <2>2
  <2> QED BY <2>1, <2>2
<1>8. pos' \in Places
  <2>1. j \in Nat \ {0}
    BY <1>0
  <2> QED BY <1>4, <2>1, PlaceStep
<1> QED BY <1>6, <1>7, <1>8 DEF PositionsExact

(* Emit, with the longest lexeme there is.                                 *)
LEMMA EmitKeeps ==
  ASSUME LInv, Lexing, NEW kind \in Kept, NEW value \in Values(kind), NEW last,
         Emit(kind, value, last), last \in Here .. BufferEnd - 1, IsLongest(Here, last)
  PROVE  LInv'
<1> DEFINE t == [kind |-> kind, value |-> value, pos |-> PosAt(pos, ptr, Here),
                 first |-> Here, last |-> last]
<1>0. /\ BufferEnd \in Nat \ {0} /\ ptr \in Nat \ {0} /\ ptr <= BufferEnd
      /\ text \in Texts /\ ptr \in 1 .. BufferEnd /\ status = "lexing"
  BY TextTypes DEF LInv, InBuffer, Lexing
<1>1. PICK here : here = Here
  OBVIOUS
<1>2. /\ here \in ptr .. BufferEnd /\ \A k \in ptr .. here - 1 : Char(k) \in Blanks
  BY <1>0, <1>1, HereIs
<1>3. /\ here \in Nat \ {0} /\ ptr <= here /\ last \in Nat \ {0} /\ here <= last
      /\ last \in here .. BufferEnd /\ last + 1 \in ptr .. BufferEnd + 1
      /\ last + 1 \in 1 .. BufferEnd + 1 /\ last + 1 <= BufferEnd
      /\ IsLongest(here, last)
  BY <1>0, <1>1, <1>2
<1>4. t.first = here /\ t.last = last /\ t.kind = kind /\ t.value = value
      /\ t.pos = PosAt(pos, ptr, t.first)
  BY <1>1
<1>5. /\ text' = text /\ ptr' = last + 1 /\ GoTo(last + 1)
      /\ tokens' = Append(tokens, t) /\ comments' = comments /\ status' = status
  BY DEF Emit, GoTo
<1>6. t \in TokenType
  <2>1. PosAt(pos, ptr, here) \in Places
    <3>1. PICK p \in Nat \ {0} : p = ptr
      BY <1>0
    <3>2. pos = PlaceOf(p)
      BY <3>1 DEF LInv, PositionsExact
    <3>3. PosAt(PlaceOf(p), p, here) = PlaceOf(here)
      BY <1>3, <3>1, PosAtIs
    <3> QED BY <1>3, <3>1, <3>2, <3>3, PlaceStep
  <2>2. kind \in Kept \cup {"eof"}
    OBVIOUS
  <2>3. value \in (-MaxInt - 1 .. MaxInt) \cup Seq(Characters)
    BY DEF Values
  <2> QED BY <1>1, <1>3, <2>1, <2>2, <2>3 DEF TokenType
<1> HIDE DEF t
<1>7. /\ tokens \in Seq(TokenType) /\ \A u \in Range(tokens) : u.kind # "eof"
  BY <1>0 DEF LInv, TokensTyped
<1>8. /\ tokens' \in Seq(TokenType) /\ Len(tokens) \in Nat
      /\ Len(tokens') = Len(tokens) + 1
      /\ \A k \in 1 .. Len(tokens) : tokens'[k] = tokens[k] /\ tokens[k] \in Range(tokens)
      /\ tokens'[Len(tokens) + 1] = t
      /\ Range(tokens') = Range(tokens) \cup {t}
  BY <1>5, <1>6, <1>7, AppendFacts
<1>9. kind # "eof"
  BY DEF Kept
<1>10. Extents' = Extents \cup {[first |-> here, last |-> last]}
  <2>1. TokensMade' = TokensMade \cup {t}
    BY <1>4, <1>8, <1>9 DEF TokensMade
  <2> QED BY <1>4, <1>5, <2>1 DEF Extents
<1>11. InBuffer'
  <2>1. BufferEnd' = BufferEnd
    BY <1>5 DEF BufferEnd
  <2> QED BY <1>0, <1>3, <1>5, <2>1 DEF InBuffer
<1>12. TokensTyped'
  BY <1>4, <1>7, <1>8, <1>9 DEF TokensTyped
<1>13. PositionsExact'
  BY <1>3, <1>4, <1>5, <1>8, MovedTo
<1>14. Passed' /\ Apart' /\ Covered' /\ CameTo'
  <2>1. status' # "error" /\ status # "error"
    BY <1>0, <1>5
  <2> QED BY <1>2, <1>3, <1>5, <1>10, <2>1, OneMore
<1>15. InOrder'
  BY <1>0, <1>3, <1>4, <1>7, <1>8, OrderKept
<1>16. Ended'
  BY <1>0, <1>5 DEF Ended
<1> QED BY <1>11, <1>12, <1>13, <1>14, <1>15, <1>16 DEF LInv

LEMMA LexCommentKeeps == LInv /\ LexComment => LInv'
<1> SUFFICES ASSUME LInv, LexComment PROVE LInv'
  OBVIOUS
<1>0. /\ BufferEnd \in Nat \ {0} /\ ptr \in Nat \ {0} /\ ptr <= BufferEnd
      /\ text \in Texts /\ ptr \in 1 .. BufferEnd /\ status = "lexing"
  BY TextTypes DEF LInv, InBuffer, Lexing, LexComment
<1>1. PICK here : here = Here
  OBVIOUS
<1>2. /\ here \in ptr .. BufferEnd /\ \A k \in ptr .. here - 1 : Char(k) \in Blanks
      /\ here \in 1 .. BufferEnd
  BY <1>0, <1>1, HereIs
<1>3. PICK last : last = First(here + 2, EndsLine)
  OBVIOUS
<1>4. /\ GoTo(last + 1) /\ text' = text /\ tokens' = tokens
      /\ comments' = comments \cup {[first |-> here, last |-> last]}
      /\ status' = IF last = BufferEnd THEN "beyond" ELSE status
      /\ Char(here) = "/" /\ Char(here + 1) = "/"
  BY <1>1, <1>3 DEF LexComment, AtComment
<1>5. last \in here + 2 .. BufferEnd /\ IsLongest(here, last)
  BY <1>0, <1>2, <1>3, <1>4, LongestComment
<1>6. /\ here \in Nat \ {0} /\ ptr <= here /\ last \in Nat \ {0} /\ here <= last
      /\ last \in here .. BufferEnd /\ last + 1 \in ptr .. BufferEnd + 1
      /\ last + 1 \in 1 .. BufferEnd + 1 /\ (last # BufferEnd => last + 1 <= BufferEnd)
      /\ ptr' = last + 1
  BY <1>0, <1>2, <1>4, <1>5 DEF GoTo
<1>7. Extents' = Extents \cup {[first |-> here, last |-> last]}
  BY <1>4 DEF Extents, TokensMade
<1>8. InBuffer'
  <2>1. BufferEnd' = BufferEnd
    BY <1>4 DEF BufferEnd
  <2>2. status' \in {"lexing", "beyond"} /\ (status' # "beyond" => last # BufferEnd)
    BY <1>0, <1>4
  <2>3. status' = "beyond" => \E e \in comments' : e.last = BufferEnd
    <3>1. [first |-> here, last |-> last] \in comments'
      BY <1>4
    <3>2. status' = "beyond" => last = BufferEnd
      BY <1>0, <1>4
    <3> QED BY <3>1, <3>2
  <2> QED BY <1>0, <1>4, <1>6, <2>1, <2>2, <2>3 DEF InBuffer
<1>9. TokensTyped'
  BY <1>0, <1>4 DEF LInv, TokensTyped
<1>10. PositionsExact'
  BY <1>4, <1>6, MovedTo
<1>11. Passed' /\ Apart' /\ Covered' /\ CameTo'
  <2>1. status' # "error" /\ status # "error"
    BY <1>0, <1>4
  <2> QED BY <1>2, <1>4, <1>5, <1>6, <1>7, <2>1, OneMore
<1>12. InOrder'
  BY <1>4 DEF LInv, InOrder
<1>13. Ended'
  BY <1>0, <1>4 DEF Ended
<1> QED BY <1>8, <1>9, <1>10, <1>11, <1>12, <1>13 DEF LInv

LEMMA EofKeeps == LInv /\ Eof => LInv'
<1> SUFFICES ASSUME LInv, Eof PROVE LInv'
  OBVIOUS
<1> DEFINE t == [kind |-> "eof", value |-> <<>>, pos |-> PosAt(pos, ptr, Here),
                 first |-> Here, last |-> Here]
<1>0. /\ BufferEnd \in Nat \ {0} /\ ptr \in Nat \ {0} /\ ptr <= BufferEnd
      /\ text \in Texts /\ ptr \in 1 .. BufferEnd /\ status = "lexing" /\ Lexing
  BY TextTypes DEF LInv, InBuffer, Lexing, Eof
<1>1. PICK here : here = Here
  OBVIOUS
<1>2. /\ here \in ptr .. BufferEnd /\ \A k \in ptr .. here - 1 : Char(k) \in Blanks
      /\ here \in 1 .. BufferEnd /\ Char(here) \notin Blanks
  BY <1>0, <1>1, HereIs
<1>3. /\ here \in Nat \ {0} /\ ptr <= here /\ here <= BufferEnd
      /\ here \in ptr .. BufferEnd + 1 /\ here \in 1 .. BufferEnd + 1
      /\ here \in here .. BufferEnd
  BY <1>0, <1>2
<1>4. t.first = here /\ t.last = here /\ t.kind = "eof"
      /\ t.pos = PosAt(pos, ptr, t.first)
  BY <1>1
<1>5. /\ text' = text /\ ptr' = here /\ GoTo(here) /\ Char(here) = NUL
      /\ tokens' = Append(tokens, t) /\ comments' = comments /\ status' = "done"
  BY <1>1 DEF Eof, GoTo
<1>6. t \in TokenType
  <2>1. PosAt(pos, ptr, here) \in Places
    <3>1. PICK p \in Nat \ {0} : p = ptr
      BY <1>0
    <3>2. pos = PlaceOf(p)
      BY <3>1 DEF LInv, PositionsExact
    <3>3. PosAt(PlaceOf(p), p, here) = PlaceOf(here)
      BY <1>3, <3>1, PosAtIs
    <3> QED BY <1>3, <3>1, <3>2, <3>3, PlaceStep
  <2>2. <<>> \in Seq(Characters)
    OBVIOUS
  <2>3. <<>> \in Values("eof")
    BY <2>2 DEF Values
  <2> QED BY <1>1, <1>3, <2>1, <2>2, <2>3 DEF TokenType
<1> HIDE DEF t
<1>7. /\ tokens \in Seq(TokenType) /\ \A u \in Range(tokens) : u.kind # "eof"
  BY <1>0 DEF LInv, TokensTyped
<1>8. /\ tokens' \in Seq(TokenType) /\ Len(tokens) \in Nat
      /\ Len(tokens') = Len(tokens) + 1
      /\ \A k \in 1 .. Len(tokens) : tokens'[k] = tokens[k] /\ tokens[k] \in Range(tokens)
      /\ tokens'[Len(tokens) + 1] = t
      /\ Range(tokens') = Range(tokens) \cup {t}
  BY <1>5, <1>6, <1>7, AppendFacts
<1>10. Extents' = Extents
  <2>1. TokensMade' = TokensMade
    BY <1>4, <1>8 DEF TokensMade
  <2> QED BY <1>5, <2>1 DEF Extents
<1>11. InBuffer'
  <2>1. BufferEnd' = BufferEnd
    BY <1>5 DEF BufferEnd
  <2> QED BY <1>0, <1>3, <1>5, <2>1 DEF InBuffer
<1>12. TokensTyped'
  BY <1>5, <1>8 DEF TokensTyped
<1>13. PositionsExact'
  BY <1>3, <1>4, <1>5, <1>8, MovedTo
<1>14. Passed' /\ Apart' /\ Covered' /\ CameTo' /\ Ended'
  <2>1. \A j \in here .. BufferEnd : ~IsLexeme(here, j)
    BY <1>0, <1>2, <1>5, NothingStarts
  <2> QED BY <1>0, <1>2, <1>3, <1>5, <1>10, <2>1, NoMore
<1>15. InOrder'
  BY <1>0, <1>3, <1>4, <1>7, <1>8, OrderKept
<1> QED BY <1>11, <1>12, <1>13, <1>14, <1>15 DEF LInv

(* An error, at here or behind it.                                         *)
LEMMA FailKeeps ==
  ASSUME LInv, Lexing, NEW j, Fail(j), j \in Here .. BufferEnd, Char(Here) # NUL,
         \A k \in Here .. BufferEnd : ~IsLexeme(Here, k)
  PROVE  LInv'
<1>0. /\ BufferEnd \in Nat \ {0} /\ ptr \in Nat \ {0} /\ ptr <= BufferEnd
      /\ text \in Texts /\ ptr \in 1 .. BufferEnd /\ status = "lexing"
  BY TextTypes DEF LInv, InBuffer, Lexing
<1>1. PICK here : here = Here
  OBVIOUS
<1>2. /\ here \in ptr .. BufferEnd /\ \A k \in ptr .. here - 1 : Char(k) \in Blanks
      /\ here \in 1 .. BufferEnd /\ Char(here) \notin Blanks
  BY <1>0, <1>1, HereIs
<1>3. /\ here \in Nat \ {0} /\ ptr <= here /\ j \in Nat \ {0}
      /\ j \in here .. BufferEnd /\ j \in ptr .. BufferEnd + 1
      /\ j \in 1 .. BufferEnd + 1 /\ j <= BufferEnd
  BY <1>0, <1>1, <1>2
<1>4. /\ text' = text /\ ptr' = j /\ GoTo(j) /\ tokens' = tokens
      /\ comments' = comments /\ status' = "error"
  BY DEF Fail, GoTo
<1>5. Extents' = Extents
  BY <1>4 DEF Extents, TokensMade
<1>6. InBuffer'
  <2>1. BufferEnd' = BufferEnd
    BY <1>4 DEF BufferEnd
  <2> QED BY <1>0, <1>3, <1>4, <2>1 DEF InBuffer
<1>7. TokensTyped'
  BY <1>0, <1>4 DEF LInv, TokensTyped
<1>8. PositionsExact'
  BY <1>3, <1>4, MovedTo
<1>9. Passed' /\ Apart' /\ Covered' /\ CameTo' /\ Ended'
  BY <1>1, <1>2, <1>3, <1>4, <1>5, NoMore
<1>10. InOrder'
  BY <1>4 DEF LInv, InOrder
<1> QED BY <1>6, <1>7, <1>8, <1>9, <1>10 DEF LInv

----------------------------------------------------------------------------
(* The values of numbers.                                                  *)

(* A recursive function over 0 .. N that starts with a and goes from the   *)
(* value at k - 1 to the one at k by F[k].                                 *)
GoesBy(s, N, a, F) ==
  s \in [0 .. N -> Nat] /\ s[0] = a /\ \A k \in 1 .. N : s[k] = F[k][s[k - 1]]

LEMMA RecursionExists ==
  ASSUME NEW N \in Nat, NEW a \in Nat, NEW F \in [1 .. N -> [Nat -> Nat]]
  PROVE  \E s : GoesBy(s, N, a, F)
<1> DEFINE Q(n) == \E s \in [0 .. n -> Nat] :
                     s[0] = a /\ \A k \in 1 .. n : s[k] = F[k][s[k - 1]]
           T == {n \in 0 .. N : ~Q(n)}
<1>1. Q(0)
  <2>1. PICK s \in [0 .. 0 -> Nat] : s[0] = a
    <3>1. [k \in 0 .. 0 |-> a] \in [0 .. 0 -> Nat] /\ [k \in 0 .. 0 |-> a][0] = a
      OBVIOUS
    <3> QED BY <3>1
  <2>2. \A k \in 1 .. 0 : s[k] = F[k][s[k - 1]]
    OBVIOUS
  <2> QED BY <2>1, <2>2
<1>2. ASSUME NEW n \in 1 .. N, Q(n - 1) PROVE Q(n)
  <2>1. PICK s \in [0 .. n - 1 -> Nat] :
          s[0] = a /\ \A k \in 1 .. n - 1 : s[k] = F[k][s[k - 1]]
    BY <1>2
  <2>2. PICK v \in Nat : v = F[n][s[n - 1]]
    <3>1. n - 1 \in 0 .. n - 1 /\ s[n - 1] \in Nat
      BY <2>1
    <3> QED BY <3>1
  <2> DEFINE t == [k \in 0 .. n |-> IF k = n THEN v ELSE s[k]]
  <2>3. \A k \in 0 .. n : k = n \/ k \in 0 .. n - 1
    OBVIOUS
  <2>4. t \in [0 .. n -> Nat] /\ \A k \in 0 .. n : t[k] = IF k = n THEN v ELSE s[k]
    BY <2>2, <2>3
  <2> HIDE DEF t
  <2>5. t[0] = a
    BY <2>1, <2>4
  <2>6. ASSUME NEW k \in 1 .. n PROVE t[k] = F[k][t[k - 1]]
    <3>1. k - 1 \in 0 .. n /\ k - 1 # n /\ t[k - 1] = s[k - 1]
      BY <2>4
    <3>2. CASE k = n
      <4>1. k \in 0 .. n /\ t[k] = v
        BY <2>4, <3>2
      <4>2. v = F[k][s[k - 1]]
        BY <2>2, <3>2
      <4> QED BY <3>1, <4>1, <4>2
    <3>3. CASE k # n
      <4>1. k \in 1 .. n - 1 /\ t[k] = s[k]
        BY <2>4, <3>3
      <4> QED BY <2>1, <3>1, <4>1
    <3> QED BY <3>2, <3>3
  <2> QED BY <2>4, <2>5, <2>6
<1>3. Q(N)
  <2> SUFFICES ASSUME ~Q(N) PROVE FALSE
    OBVIOUS
  <2>1. T \in SUBSET Nat /\ N \in T
    OBVIOUS
  <2> HIDE DEF Q
  <2>2. PICK n \in T : \A m \in T : n <= m
    <3> HIDE DEF T
    <3> QED BY <2>1, HasLeast
  <2>3. n \in 0 .. N /\ ~Q(n) /\ n # 0
    BY <1>1
  <2>4. n \in 1 .. N /\ n - 1 \in 0 .. N /\ ~(n <= n - 1)
    BY <2>3
  <2>5. Q(n - 1)
    BY <2>2, <2>4
  <2> QED BY <1>2, <2>3, <2>4, <2>5
<1> QED BY <1>3 DEF GoesBy

LEMMA DigitIs ==
  ASSUME NEW c \in Range(Digits)
  PROVE  DigitValue(c) \in 0 .. 9
<1>1. DOMAIN Digits = 1 .. 10
  BY DEF Digits
<1>2. \E k \in DOMAIN Digits : Digits[k] = c
  BY DEF Range
<1>3. PICK k : k = CHOOSE h \in DOMAIN Digits : Digits[h] = c
  OBVIOUS
<1>4. k \in 1 .. 10
  BY <1>1, <1>2, <1>3
<1>5. DigitValue(c) = k - 1
  BY <1>3 DEF DigitValue
<1> QED BY <1>4, <1>5

(* The sums of digits d from the left, and what is left of n without its   *)
(* last digits; and the digits that characters i .. j are.                 *)
SumsOf(s, N, d) ==
  /\ s \in [0 .. N -> Nat] /\ d \in [1 .. N -> 0 .. 9]
  /\ s[0] = 0 /\ \A k \in 1 .. N : s[k] = 10 * s[k - 1] + d[k]
RestsOf(r, N, n) ==
  r \in [0 .. N -> Nat] /\ r[0] = n /\ \A k \in 1 .. N : r[k] = r[k - 1] \div 10
DigitsOf(d, N, i, j) ==
  /\ N = j - i + 1 /\ d \in [1 .. N -> 0 .. 9]
  /\ \A k \in 1 .. N : d[k] = DigitValue(Char(i + k - 1))

LEMMA Before ==
  ASSUME NEW N \in Nat
  PROVE  /\ 0 \in 0 .. N
         /\ \A k \in 1 .. N : k \in 0 .. N /\ k # 0 /\ k - 1 \in 0 .. N /\ ~(k <= k - 1)
         /\ \A k \in 0 .. N : k = 0 \/ k \in 1 .. N
OBVIOUS

LEMMA SumsExist ==
  ASSUME NEW N \in Nat, NEW d \in [1 .. N -> 0 .. 9]
  PROVE  \E s : SumsOf(s, N, d)
<1> DEFINE F == [k \in 1 .. N |-> [n \in Nat |-> 10 * n + d[k]]]
<1>1. F \in [1 .. N -> [Nat -> Nat]] /\ \A k \in 1 .. N, n \in Nat : F[k][n] = 10 * n + d[k]
  OBVIOUS
<1> HIDE DEF F
<1>2. PICK s : GoesBy(s, N, 0, F)
  BY <1>1, RecursionExists
<1>3. \A k \in 1 .. N : s[k - 1] \in Nat
  BY <1>2, Before DEF GoesBy
<1>4. \A k \in 1 .. N : s[k] = 10 * s[k - 1] + d[k]
  BY <1>1, <1>2, <1>3 DEF GoesBy
<1> QED BY <1>2, <1>4 DEF GoesBy, SumsOf

LEMMA RestsExist ==
  ASSUME NEW N \in Nat, NEW n \in Nat
  PROVE  \E r : RestsOf(r, N, n)
<1> DEFINE F == [k \in 1 .. N |-> [m \in Nat |-> m \div 10]]
<1>0. \A m \in Nat : m \div 10 \in Nat
  OBVIOUS
<1>1. F \in [1 .. N -> [Nat -> Nat]] /\ \A k \in 1 .. N, m \in Nat : F[k][m] = m \div 10
  BY <1>0
<1> HIDE DEF F
<1>2. PICK s : GoesBy(s, N, n, F)
  BY <1>1, RecursionExists
<1>3. \A k \in 1 .. N : s[k - 1] \in Nat
  BY <1>2, Before DEF GoesBy
<1>4. \A k \in 1 .. N : s[k] = s[k - 1] \div 10
  BY <1>1, <1>2, <1>3 DEF GoesBy
<1> QED BY <1>2, <1>4 DEF GoesBy, RestsOf

(* Two functions that start and go on alike are the same.                  *)
IsMap(s, N) == s = [k \in 0 .. N |-> s[k]]

LEMMA SameRecursion ==
  ASSUME NEW N \in Nat, NEW s, NEW t, IsMap(s, N), IsMap(t, N), s[0] = t[0],
         \A k \in 1 .. N : s[k - 1] = t[k - 1] => s[k] = t[k]
  PROVE  s = t
<1> DEFINE W == {k \in 0 .. N : s[k] # t[k]}
<1>1. W \in SUBSET Nat /\ \A k \in W : k \in 1 .. N /\ s[k] # t[k]
  BY Before
<1>2. \A k \in 0 .. N : k \notin W => s[k] = t[k]
  OBVIOUS
<1> HIDE DEF W
<1>3. W = {}
  <2> SUFFICES ASSUME W # {} PROVE FALSE
    OBVIOUS
  <2>1. PICK k \in W : \A m \in W : k <= m
    BY <1>1, HasLeast
  <2>2. k \in 1 .. N /\ k - 1 \in 0 .. N /\ ~(k <= k - 1) /\ s[k] # t[k]
    BY <1>1, Before
  <2> QED BY <1>2, <2>1, <2>2
<1>4. \A k \in 0 .. N : s[k] = t[k]
  BY <1>2, <1>3
<1> QED BY <1>4 DEF IsMap

(* The partial sums of atoll.                                              *)
LEMMA SumIs ==
  ASSUME NEW digits, NEW N \in Nat, N = Len(digits), NEW d \in [1 .. N -> 0 .. 9],
         \A k \in 1 .. N : d[k] = DigitValue(digits[k])
  PROVE  \E s : /\ SumsOf(s, N, d)
                /\ AtollResults(digits) = IF s[N] <= MaxInt THEN {s[N]} ELSE -MaxInt - 1 .. MaxInt
<1> DEFINE Step(s) == [k \in 0 .. N |-> IF k = 0 THEN 0 ELSE AddDigit(s[k - 1], digits[k])]
<1>1. PICK t : SumsOf(t, N, d)
  BY SumsExist
<1>2. t = [k \in 0 .. N |-> t[k]] /\ t[0] = 0 /\ \A k \in 1 .. N : t[k] = 10 * t[k - 1] + d[k]
  BY <1>1 DEF SumsOf
<1>3. t = Step(t)
  <2>1. \A k \in 1 .. N : t[k] = AddDigit(t[k - 1], digits[k])
    BY <1>2 DEF AddDigit
  <2>2. \A k \in 0 .. N : t[k] = IF k = 0 THEN 0 ELSE AddDigit(t[k - 1], digits[k])
    BY <1>2, <2>1, Before
  <2> QED BY <1>2, <2>2
<1>4. PICK s : s = CHOOSE u : u = Step(u)
  OBVIOUS
<1>5. s = Step(s)
  BY <1>3, <1>4
<1>6. AtollResults(digits) = IF s[N] <= MaxInt THEN {s[N]} ELSE -MaxInt - 1 .. MaxInt
  BY <1>4 DEF AtollResults
<1>7. s[0] = 0 /\ IsMap(s, N)
  BY <1>5, Before DEF IsMap
<1>8. \A k \in 1 .. N : s[k] = 10 * s[k - 1] + d[k]
  <2>1. \A k \in 1 .. N : s[k] = AddDigit(s[k - 1], digits[k])
    BY <1>5, Before
  <2> QED BY <2>1 DEF AddDigit
<1>9. s = t
  <2>1. \A k \in 1 .. N : s[k - 1] = t[k - 1] => s[k] = t[k]
    BY <1>2, <1>8
  <2>2. s[0] = t[0]
    BY <1>2, <1>7
  <2>3. IsMap(t, N)
    BY <1>2 DEF IsMap
  <2> QED BY <1>7, <2>1, <2>2, <2>3, SameRecursion
<1> QED BY <1>1, <1>6, <1>9

LEMMA DigitValuesAre ==
  ASSUME NEW digits \in Seq(Range(Digits)), NEW N \in Nat, N = Len(digits)
  PROVE  \E d \in [1 .. N -> 0 .. 9] : \A k \in 1 .. N : d[k] = DigitValue(digits[k])
<1> DEFINE e == [k \in 1 .. N |-> DigitValue(digits[k])]
<1>1. \A k \in 1 .. N : DigitValue(digits[k]) \in 0 .. 9
  BY ElementOfSeq, DigitIs
<1>2. e \in [1 .. N -> 0 .. 9] /\ \A k \in 1 .. N : e[k] = DigitValue(digits[k])
  BY <1>1
<1> HIDE DEF e
<1> QED BY <1>2

LEMMA AtollInRange ==
  ASSUME NEW digits \in Seq(Range(Digits))
  PROVE  AtollResults(digits) \subseteq -MaxInt - 1 .. MaxInt
<1>1. PICK N \in Nat : N = Len(digits)
  OBVIOUS
<1>2. PICK d \in [1 .. N -> 0 .. 9] : \A k \in 1 .. N : d[k] = DigitValue(digits[k])
  BY <1>1, DigitValuesAre
<1>3. PICK s : /\ SumsOf(s, N, d)
               /\ AtollResults(digits) = IF s[N] <= MaxInt THEN {s[N]} ELSE -MaxInt - 1 .. MaxInt
  BY <1>1, <1>2, SumIs, ZenonT(40)
<1>4. s[N] \in Nat /\ MaxInt \in Nat
  BY <1>3, LexerAssumption DEF SumsOf
<1> QED BY <1>3, <1>4

LEMMA ExtentTyped ==
  ASSUME text \in Texts, NEW i \in 1 .. BufferEnd, NEW j \in i .. BufferEnd - 1
  PROVE  Extent(i, j) \in Seq(Characters)
<1>1. text \in Seq(Characters) /\ Len(text) \in Nat /\ BufferEnd = Len(text) + 1
  BY TextTypes
<1>2. i \in 1 .. Len(text) + 1 /\ j \in i - 1 .. Len(text)
  BY <1>1
<1> QED BY <1>1, <1>2, SubSeqProperties DEF Extent

LEMMA NumberTyped ==
  ASSUME text \in Texts, NEW i \in 1 .. BufferEnd, NEW j \in i .. BufferEnd - 1,
         \A k \in i .. j : IsDigit(Char(k))
  PROVE  Extent(i, j) \in Seq(Range(Digits))
<1>1. BufferEnd \in Nat /\ i \in Int /\ j \in Int
  BY TextTypes
<1>2. \A k \in i .. j : text[k] \in Range(Digits)
  <2>1. \A k \in i .. j : k # BufferEnd
    BY <1>1
  <2> QED BY <2>1 DEF IsDigit, Char
<1> QED BY <1>1, <1>2, SubSeqProperties DEF Extent

(* The characters of an extent.                                            *)
LEMMA ExtentIs ==
  ASSUME text \in Texts, NEW i \in 1 .. BufferEnd, NEW j \in i .. BufferEnd - 1
  PROVE  /\ Len(Extent(i, j)) = j - i + 1
         /\ \A k \in 1 .. Len(Extent(i, j)) : Extent(i, j)[k] = Char(i + k - 1)
<1>1. /\ text \in Seq(Characters) /\ Len(text) \in Nat /\ BufferEnd = Len(text) + 1
      /\ i \in Int /\ j \in Int /\ i <= j
  BY TextTypes
<1>2. /\ Len(Extent(i, j)) = j - i + 1
      /\ \A k \in 1 .. j - i + 1 : Extent(i, j)[k] = text[i + k - 1]
  BY <1>1, SubSeqProperties DEF Extent
<1>3. \A k \in 1 .. j - i + 1 : i + k - 1 # BufferEnd
  BY <1>1
<1> QED BY <1>2, <1>3 DEF Char

(* What is left of a number, digit by digit from the right.                *)
LEMMA RestIs ==
  ASSUME NEW n \in Nat, NEW i, NEW j, NEW N \in Nat, NEW d, DigitsOf(d, N, i, j)
  PROVE  \E r : /\ RestsOf(r, N, n)
                /\ Writes(n, i, j) <=>
                     /\ r[N] = 0
                     /\ \A k \in i .. j : r[j - k] % 10 = DigitValue(Char(k))
<1> DEFINE Step(s) == [k \in 0 .. N |-> IF k = 0 THEN n ELSE s[k - 1] \div 10]
<1>1. PICK t : RestsOf(t, N, n)
  BY RestsExist
<1>2. t = [k \in 0 .. N |-> t[k]] /\ t[0] = n /\ \A k \in 1 .. N : t[k] = t[k - 1] \div 10
  BY <1>1 DEF RestsOf
<1>3. t = Step(t)
  <2>1. \A k \in 0 .. N : t[k] = IF k = 0 THEN n ELSE t[k - 1] \div 10
    BY <1>2, Before
  <2> QED BY <1>2, <2>1
<1>4. PICK s : s = CHOOSE u : u = Step(u)
  OBVIOUS
<1>5. s = Step(s)
  BY <1>3, <1>4
<1>6. Writes(n, i, j) <=> /\ s[N] = 0
                          /\ \A k \in i .. j : s[j - k] % 10 = DigitValue(Char(k))
  BY <1>4 DEF Writes, DigitsOf
<1>7. s[0] = n /\ IsMap(s, N)
  BY <1>5, Before DEF IsMap
<1>8. \A k \in 1 .. N : s[k] = s[k - 1] \div 10
  BY <1>5, Before
<1>9. s = t
  <2>1. \A k \in 1 .. N : s[k - 1] = t[k - 1] => s[k] = t[k]
    BY <1>2, <1>8
  <2>2. s[0] = t[0]
    BY <1>2, <1>7
  <2>3. IsMap(t, N)
    BY <1>2 DEF IsMap
  <2> QED BY <1>7, <2>1, <2>2, <2>3, SameRecursion
<1> QED BY <1>1, <1>6, <1>9

(* One digit of a number.                                                  *)
LEMMA LastDigit ==
  ASSUME NEW a \in Nat, NEW d \in 0 .. 9
  PROVE  (10 * a + d) \div 10 = a /\ (10 * a + d) % 10 = d
OBVIOUS

LEMMA Divided ==
  ASSUME NEW n \in Nat
  PROVE  n = 10 * (n \div 10) + (n % 10)
OBVIOUS

(* Sums of digits from the left, and what is left of a number from the     *)
(* right: they meet only when the number is the last sum.                  *)
LEMMA SumsMeetRests ==
  ASSUME NEW N \in Nat, NEW n \in Nat, NEW d, NEW s, NEW r, SumsOf(s, N, d), RestsOf(r, N, n)
  PROVE  (r[N] = 0 /\ \A h \in 1 .. N : r[N - h] % 10 = d[h]) <=> n = s[N]
<1> USE DEF SumsOf, RestsOf
<1>1. ASSUME NEW h \in 1 .. N
      PROVE  /\ h \in Nat /\ h - 1 \in 0 .. N /\ N - h \in 0 .. N /\ N - h + 1 \in 1 .. N
             /\ (N - h + 1) - 1 = N - h /\ N - (h - 1) = N - h + 1 /\ ~(h <= h - 1)
             /\ s[h - 1] \in Nat /\ d[h] \in 0 .. 9 /\ s[h] \in Nat
             /\ r[h - 1] \in Nat /\ r[N - h] \in Nat
  <2>1. h - 1 \in 0 .. N /\ N - h \in 0 .. N /\ h \in 0 .. N
    OBVIOUS
  <2> QED BY <2>1
<1>2. ASSUME r[N] = 0, \A h \in 1 .. N : r[N - h] % 10 = d[h]
      PROVE  n = s[N]
  <2> DEFINE W == {h \in 0 .. N : r[N - h] # s[h]}
  <2>1. \A h \in W : h # 0
    BY <1>2
  <2>2. W \in SUBSET Nat /\ \A h \in W : h \in 0 .. N /\ r[N - h] # s[h]
    OBVIOUS
  <2>3. \A h \in 0 .. N : h \notin W => r[N - h] = s[h]
    OBVIOUS
  <2> HIDE DEF W
  <2>4. W = {}
    <3> SUFFICES ASSUME W # {} PROVE FALSE
      OBVIOUS
    <3>1. PICK h \in W : \A m \in W : h <= m
      BY <2>2, HasLeast
    <3>2. h \in 1 .. N /\ r[N - h] # s[h]
      BY <2>1, <2>2
    <3>3. h - 1 \notin W
      BY <1>1, <3>1, <3>2
    <3>4. r[N - h + 1] = s[h - 1]
      BY <1>1, <2>3, <3>2, <3>3
    <3>5. r[N - h + 1] = r[N - h] \div 10
      BY <1>1, <3>2
    <3>6. PICK m \in Nat : m = r[N - h]
      BY <1>1, <3>2
    <3>7. m \div 10 = s[h - 1] /\ m % 10 = d[h]
      BY <1>2, <3>2, <3>4, <3>5, <3>6
    <3>8. m = 10 * (m \div 10) + (m % 10)
      BY Divided
    <3>9. m = s[h]
      BY <3>2, <3>7, <3>8
    <3> QED BY <3>2, <3>6, <3>9
  <2>5. N \in 0 .. N /\ N - N = 0 /\ N \notin W
    BY <2>4
  <2> QED BY <2>3, <2>5
<1>3. ASSUME n = s[N]
      PROVE  r[N] = 0 /\ \A h \in 1 .. N : r[N - h] % 10 = d[h]
  <2> DEFINE W == {k \in 0 .. N : r[k] # s[N - k]}
  <2>1. \A k \in W : k # 0
    <3>1. N - 0 = N
      OBVIOUS
    <3> QED BY <1>3, <3>1
  <2>2. W \in SUBSET Nat /\ \A k \in W : k \in 0 .. N /\ r[k] # s[N - k]
    OBVIOUS
  <2>3. \A k \in 0 .. N : k \notin W => r[k] = s[N - k]
    OBVIOUS
  <2> HIDE DEF W
  <2>4. W = {}
    <3> SUFFICES ASSUME W # {} PROVE FALSE
      OBVIOUS
    <3>1. PICK k \in W : \A m \in W : k <= m
      BY <2>2, HasLeast
    <3>2. k \in 1 .. N /\ r[k] # s[N - k]
      BY <2>1, <2>2
    <3>3. k - 1 \notin W
      BY <1>1, <3>1, <3>2
    <3>4. PICK h \in 1 .. N : h = N - k + 1
      BY <1>1, <3>2
    <3>5. r[k - 1] = s[h]
      BY <1>1, <2>3, <3>2, <3>3, <3>4
    <3>6. h - 1 = N - k
      BY <3>2, <3>4
    <3>7. s[h] = 10 * s[h - 1] + d[h] /\ s[h - 1] \in Nat /\ d[h] \in 0 .. 9
      BY <1>1
    <3>8. r[k] = (10 * s[h - 1] + d[h]) \div 10
      BY <3>2, <3>5, <3>7
    <3>9. r[k] = s[h - 1]
      BY <3>7, <3>8, LastDigit
    <3> QED BY <3>2, <3>6, <3>9
  <2>5. \A k \in 0 .. N : r[k] = s[N - k]
    BY <2>3, <2>4
  <2>6. r[N] = 0
    <3>1. N \in 0 .. N /\ N - N = 0
      OBVIOUS
    <3> QED BY <2>5, <3>1
  <2>7. ASSUME NEW h \in 1 .. N PROVE r[N - h] % 10 = d[h]
    <3>1. r[N - h] = s[N - (N - h)] /\ N - (N - h) = h
      BY <1>1, <2>5
    <3>2. s[h] = 10 * s[h - 1] + d[h] /\ s[h - 1] \in Nat /\ d[h] \in 0 .. 9
      BY <1>1
    <3>3. (10 * s[h - 1] + d[h]) % 10 = d[h]
      BY <3>2, LastDigit
    <3> QED BY <3>1, <3>2, <3>3, Zenon
  <2> QED BY <2>6, <2>7
<1> QED BY <1>2, <1>3

(* The digits write the number that atoll adds up, and no other.           *)
LEMMA SumWrites ==
  ASSUME NEW i \in Int, NEW j \in Int, NEW N \in Nat, NEW n \in Nat,
         NEW d, DigitsOf(d, N, i, j), NEW s, SumsOf(s, N, d)
  PROVE  Writes(n, i, j) <=> n = s[N]
<1>1. /\ N = j - i + 1 /\ d \in [1 .. N -> 0 .. 9]
      /\ \A k \in 1 .. N : d[k] = DigitValue(Char(i + k - 1))
  BY DEF DigitsOf
<1>2. PICK r : /\ RestsOf(r, N, n)
               /\ Writes(n, i, j) <=>
                    /\ r[N] = 0
                    /\ \A k \in i .. j : r[j - k] % 10 = DigitValue(Char(k))
  BY RestIs
<1>5. (r[N] = 0 /\ \A h \in 1 .. N : r[N - h] % 10 = d[h]) <=> n = s[N]
  BY <1>1, <1>2, SumsMeetRests
<1>6. (\A k \in i .. j : r[j - k] % 10 = DigitValue(Char(k)))
        <=> \A h \in 1 .. N : r[N - h] % 10 = d[h]
  <2>1. ASSUME \A k \in i .. j : r[j - k] % 10 = DigitValue(Char(k)), NEW h \in 1 .. N
        PROVE  r[N - h] % 10 = d[h]
    <3>1. PICK k \in i .. j : k = i + h - 1
      BY <1>1
    <3>2. j - k = N - h
      BY <3>1, <1>1
    <3> QED BY <1>1, <2>1, <3>1, <3>2
  <2>2. ASSUME \A h \in 1 .. N : r[N - h] % 10 = d[h], NEW k \in i .. j
        PROVE  r[j - k] % 10 = DigitValue(Char(k))
    <3>1. PICK h \in 1 .. N : h = k - i + 1
      BY <1>1
    <3>2. j - k = N - h /\ i + h - 1 = k
      BY <3>1, <1>1
    <3> QED BY <1>1, <2>2, <3>1, <3>2
  <2> QED BY <2>1, <2>2
<1> QED BY <1>2, <1>5, <1>6

(* atoll gives the number that the digits write, or they write none in     *)
(* range.                                                                  *)
LEMMA NumberDenotes ==
  ASSUME text \in Texts, NEW i \in 1 .. BufferEnd, NEW j \in i .. BufferEnd - 1,
         \A k \in i .. j : IsDigit(Char(k)), NEW n \in AtollResults(Extent(i, j))
  PROVE  Writes(n, i, j) \/ \A m \in 0 .. MaxInt : ~Writes(m, i, j)
<1>1. PICK digits : digits = Extent(i, j)
  OBVIOUS
<1>2. /\ BufferEnd \in Nat /\ i \in Int /\ j \in Int /\ i <= j /\ MaxInt \in Nat
      /\ Len(text) \in Nat /\ BufferEnd = Len(text) + 1
  BY TextTypes, LexerAssumption
<1>3. digits \in Seq(Range(Digits))
  BY <1>1, NumberTyped
<1>4. /\ Len(digits) = j - i + 1
      /\ \A k \in 1 .. Len(digits) : digits[k] = Char(i + k - 1)
  BY <1>1, ExtentIs
<1>5. PICK N \in Nat : N = Len(digits)
  BY <1>3
<1>6. PICK d : DigitsOf(d, N, i, j) /\ \A k \in 1 .. N : d[k] = DigitValue(digits[k])
  <2>1. PICK d \in [1 .. N -> 0 .. 9] : \A k \in 1 .. N : d[k] = DigitValue(digits[k])
    BY <1>3, <1>5, DigitValuesAre
  <2> QED BY <1>4, <1>5, <2>1 DEF DigitsOf
<1>7. PICK s : /\ SumsOf(s, N, d)
               /\ AtollResults(digits) = IF s[N] <= MaxInt THEN {s[N]} ELSE -MaxInt - 1 .. MaxInt
  BY <1>3, <1>5, <1>6, SumIs DEF DigitsOf
<1>8. \A m \in Nat : Writes(m, i, j) <=> m = s[N]
  BY <1>2, <1>5, <1>6, <1>7, SumWrites, SMTT(30)
<1>9. s[N] \in Nat /\ \A m \in 0 .. MaxInt : m \in Nat /\ m <= MaxInt
  BY <1>2, <1>7 DEF SumsOf
<1> QED BY <1>1, <1>2, <1>7, <1>8, <1>9

----------------------------------------------------------------------------
(* Every action of Lex keeps the invariant.                                *)
LEMMA HereFacts ==
  ASSUME LInv, Lexing
  PROVE  /\ text \in Texts /\ BufferEnd \in Nat /\ Here \in 1 .. BufferEnd
         /\ Here \in ptr .. BufferEnd
         /\ Char(Here) # NUL => Here + 1 \in 1 .. BufferEnd
<1>1. ptr \in 1 .. BufferEnd /\ text \in Texts
  <2>1. BufferEnd \in Nat
    BY TextTypes DEF LInv, InBuffer
  <2> QED BY <2>1 DEF LInv, InBuffer, Lexing
<1> QED BY <1>1, HereIs, TextTypes

LEMMA WordKeeps == LInv /\ LexIdentifierOrKeyword => LInv'
<1> SUFFICES ASSUME LInv, LexIdentifierOrKeyword PROVE LInv'
  OBVIOUS
<1>0. Lexing /\ Char(Here) \in Letters
  BY DEF LexIdentifierOrKeyword, IsIdentifierStart
<1>1. PICK here : here = Here
  OBVIOUS
<1>2. PICK last : last = First(here + 1, NotMiddle) - 1
  OBVIOUS
<1>3. last \in here .. BufferEnd - 1 /\ IsLongest(here, last)
  BY <1>0, <1>1, <1>2, HereFacts, LongestWord
<1>4. PICK kind \in {"keyword", "identifier"} : Emit(kind, Extent(here, last), last)
  BY <1>1, <1>2 DEF LexIdentifierOrKeyword
<1>5. Extent(here, last) \in Values(kind) /\ kind \in Kept
  <2>1. Extent(here, last) \in Seq(Characters)
    BY <1>0, <1>1, <1>3, HereFacts, ExtentTyped
  <2> QED BY <2>1 DEF Values, Kept
<1> QED BY <1>0, <1>1, <1>3, <1>4, <1>5, EmitKeeps

(* The digits of a number.                                                 *)
LEMMA NumberExtent ==
  ASSUME LInv, Lexing, Char(Here) \in Range(Digits), NEW here, here = Here,
         NEW last, last = First(here + 1, NotDigit) - 1
  PROVE  /\ here \in 1 .. BufferEnd /\ text \in Texts /\ last \in here .. BufferEnd - 1
         /\ IsLongest(here, last)
         /\ \A k \in here .. last : IsDigit(Char(k))
<1>1. last \in here .. BufferEnd - 1 /\ IsLongest(here, last)
  BY HereFacts, LongestNumber
<1>2. here \in 1 .. BufferEnd /\ BufferEnd \in Nat /\ text \in Texts
      /\ here + 1 \in 1 .. BufferEnd
  BY HereFacts, CharClasses
<1>3. \A k \in here + 1 .. First(here + 1, NotDigit) - 1 : IsDigit(Char(k))
  BY <1>2, Firsts
<1>4. \A k \in here .. last : k = here \/ k \in here + 1 .. last
  BY <1>1, <1>2
<1>5. \A k \in here .. last : IsDigit(Char(k))
  BY <1>3, <1>4 DEF IsDigit
<1> QED BY <1>1, <1>2, <1>5

LEMMA NumberKeeps == LInv /\ LexNumber => LInv'
<1> SUFFICES ASSUME LInv, LexNumber PROVE LInv'
  OBVIOUS
<1>0. Lexing /\ Char(Here) \in Range(Digits)
  BY DEF LexNumber, IsDigit
<1>1. PICK here : here = Here
  OBVIOUS
<1>2. PICK last : last = First(here + 1, NotDigit) - 1
  OBVIOUS
<1>3. /\ here \in 1 .. BufferEnd /\ text \in Texts /\ last \in here .. BufferEnd - 1
      /\ IsLongest(here, last)
      /\ \A k \in here .. last : IsDigit(Char(k))
  BY <1>0, <1>1, <1>2, NumberExtent
<1>4. PICK n \in AtollResults(Extent(here, last)) : Emit("number", n, last)
  BY <1>1, <1>2 DEF LexNumber
<1>5. n \in Values("number") /\ "number" \in Kept
  BY <1>3, <1>4, NumberTyped, AtollInRange DEF Values, Kept
<1> QED BY <1>0, <1>1, <1>3, <1>4, <1>5, EmitKeeps

LEMMA StringKeeps == LInv /\ (LexString \/ StringError) => LInv'
<1> SUFFICES ASSUME LInv, LexString \/ StringError PROVE LInv'
  OBVIOUS
<1>0. Lexing /\ Char(Here) = QUOTE /\ Char(Here) # NUL
  BY CharsDiffer DEF LexString, StringError
<1>1. PICK here : here = Here
  OBVIOUS
<1>2. /\ here \in 1 .. BufferEnd /\ BufferEnd \in Nat /\ text \in Texts
      /\ here + 1 \in 1 .. BufferEnd
  BY <1>0, <1>1, HereFacts
<1>3. PICK r : r = Scans[here + 1]
  OBVIOUS
<1>4. r = Scan
  BY <1>1, <1>3 DEF Scan
<1>5. ScanOK(here + 1, r)
  BY <1>2, <1>3, ScanTypes
<1>6. CASE LexString
  <2>1. r.closed = TRUE /\ Emit("string", r.value, r.at)
    BY <1>4, <1>5, <1>6 DEF LexString, ScanOK, ScanType
  <2>2. r.at \in here + 1 .. BufferEnd - 1 /\ IsLongest(here, r.at)
    BY <1>0, <1>1, <1>2, <1>3, <2>1, LongestString
  <2>3. r.value \in Values("string") /\ "string" \in Kept
    BY <1>5 DEF ScanOK, ScanType, Values, Kept
  <2>4. PICK last : last = r.at
    OBVIOUS
  <2>5. last \in here .. BufferEnd - 1 /\ IsLongest(here, last)
    BY <1>2, <2>2, <2>4
  <2> QED BY <1>0, <1>1, <2>1, <2>3, <2>4, <2>5, EmitKeeps
<1>7. CASE StringError
  <2>1. r.closed # TRUE /\ Fail(r.at)
    BY <1>4, <1>7 DEF StringError
  <2>2. PICK j : j = r.at
    OBVIOUS
  <2>3. j \in here .. BufferEnd
    <3>1. j \in Nat /\ j >= here + 1 /\ j <= BufferEnd
      BY <1>5, <2>2 DEF ScanOK, ScanType
    <3> QED BY <1>2, <3>1
  <2>4. \A k \in here .. BufferEnd : ~IsLexeme(here, k)
    BY <1>0, <1>1, <1>2, <1>3, <2>1, NothingStarts
  <2> QED BY <1>0, <1>1, <2>1, <2>2, <2>3, <2>4, FailKeeps
<1> QED BY <1>6, <1>7

LEMMA SymbolKeeps == LInv /\ (LexTwoChars \/ LexOneChar) => LInv'
<1> SUFFICES ASSUME LInv, LexTwoChars \/ LexOneChar PROVE LInv'
  OBVIOUS
<1>0. Lexing
  BY DEF LexTwoChars, LexOneChar
<1>1. PICK here : here = Here
  OBVIOUS
<1>2. here \in 1 .. BufferEnd /\ BufferEnd \in Nat /\ text \in Texts
  BY <1>0, <1>1, HereFacts
<1>3. ASSUME NEW last \in here .. BufferEnd - 1
      PROVE  Extent(here, last) \in Values("symbol") /\ "symbol" \in Kept
  BY <1>2, ExtentTyped DEF Values, Kept
<1>4. CASE LexTwoChars
  <2>1. PICK last : last = here + 1
    OBVIOUS
  <2>2. /\ Char(here) # NUL /\ <<Char(here), Char(here + 1)>> \in TwoChars
        /\ Emit("symbol", Extent(here, last), last)
    BY <1>1, <1>4, <2>1 DEF LexTwoChars, AtTwoChars
  <2>3. last \in here .. BufferEnd - 1 /\ IsLongest(here, last)
    BY <1>2, <2>1, <2>2, LongestTwoChars
  <2> QED BY <1>0, <1>1, <1>3, <2>2, <2>3, EmitKeeps
<1>5. CASE LexOneChar
  <2>1. /\ Char(here) \in OneChar /\ ~(Char(here) = "/" /\ Char(here + 1) = "/")
        /\ ~(Char(here) # NUL /\ <<Char(here), Char(here + 1)>> \in TwoChars)
        /\ Emit("symbol", Extent(here, here), here)
    BY <1>1, <1>5 DEF LexOneChar, AtTwoChars, AtComment
  <2>2. <<Char(here), Char(here + 1)>> \notin TwoChars
    BY <2>1, CharClasses
  <2>3. here \in here .. BufferEnd - 1 /\ IsLongest(here, here)
    BY <1>2, <2>1, <2>2, LongestOneChar
  <2> QED BY <1>0, <1>1, <1>3, <2>1, <2>3, EmitKeeps
<1> QED BY <1>4, <1>5

LEMMA UnrecognizedKeeps == LInv /\ Unrecognized => LInv'
<1> SUFFICES ASSUME LInv, Unrecognized PROVE LInv'
  OBVIOUS
<1>1. PICK here : here = Here
  OBVIOUS
<1>2. /\ Lexing /\ StartsNothing(Char(here)) /\ Fail(here)
      /\ ~(Char(here) # NUL /\ <<Char(here), Char(here + 1)>> \in TwoChars)
  BY <1>1 DEF Unrecognized, AtTwoChars
<1>3. here \in 1 .. BufferEnd /\ BufferEnd \in Nat /\ text \in Texts
  BY <1>1, <1>2, HereFacts
<1>4. Char(here) # NUL /\ here \in here .. BufferEnd
  BY <1>2, <1>3 DEF StartsNothing
<1>5. \A k \in here .. BufferEnd : ~IsLexeme(here, k)
  BY <1>2, <1>3, NothingStarts
<1> QED BY <1>1, <1>2, <1>4, <1>5, FailKeeps

LEMMA StutterKeeps == LInv /\ UNCHANGED vars => LInv'
<1> SUFFICES ASSUME LInv, UNCHANGED vars PROVE LInv'
  OBVIOUS
<1>1. /\ text' = text /\ ptr' = ptr /\ pos' = pos /\ tokens' = tokens
      /\ comments' = comments /\ status' = status
  BY DEF vars
<1>2. /\ BufferEnd' = BufferEnd
      /\ \A i : Char(i)' = Char(i)
      /\ \A i, j : IsLexeme(i, j)' <=> IsLexeme(i, j)
      /\ \A i, j : IsLongest(i, j)' <=> IsLongest(i, j)
      /\ \A i : PlaceOf(i)' = PlaceOf(i)
  BY <1>1, TextFixed
<1>3. Extents' = Extents
  BY <1>1 DEF Extents, TokensMade
<1>4. InBuffer' /\ TokensTyped' /\ InOrder' /\ Apart'
  BY <1>1, <1>2, <1>3 DEF LInv, InBuffer, TokensTyped, InOrder, Apart
<1>5. Passed' /\ Covered' /\ CameTo'
  BY <1>1, <1>2, <1>3 DEF LInv, Passed, Covered, CameTo, Lexing, Lasts
<1>6. PositionsExact'
  <2>1. Breaks(ptr)' = Breaks(ptr)
    BY <1>1, <1>2 DEF Breaks
  <2>2. PlaceOf(ptr)' = PlaceOf(ptr)
    BY <1>1, <2>1 DEF PlaceOf
  <2> QED BY <1>1, <1>2, <2>2 DEF LInv, PositionsExact
<1>7. Ended'
  <2>1. ASSUME NEW m, NEW n, EndsAt(m, n) PROVE EndsAt(m, n)'
    BY <1>1, <1>2, <1>3, <2>1 DEF EndsAt, Lasts
  <2> QED BY <1>1, <1>2, <2>1 DEF LInv, Ended
<1> QED BY <1>4, <1>5, <1>6, <1>7 DEF LInv

LEMMA LInvKept == LInv /\ [Next]_vars => LInv'
<1> QED BY EofKeeps, LexCommentKeeps, WordKeeps, NumberKeeps, StringKeeps, SymbolKeeps,
           UnrecognizedKeeps, StutterKeeps DEF Next

THEOREM LexerInvariant == Spec => []LInv
<1> QED BY InitLInv, LInvKept, PTL DEF Spec

----------------------------------------------------------------------------
(* The value of every token is the one its characters denote.              *)
LEMMA DenotesFixed ==
  ASSUME text' = text, NEW t
  PROVE  Denotes(t)' <=> Denotes(t)
<1>1. ASSUME NEW k PROVE Char(k)' = Char(k)
  BY TextFixed
<1>2. ASSUME NEW i, NEW k PROVE Escaped(i, k)' <=> Escaped(i, k)
  <2>1. Others(i, k)' = Others(i, k)
    BY <1>1 DEF Others
  <2> QED BY <2>1 DEF Escaped
<1>3. ASSUME NEW n, NEW i, NEW j PROVE Writes(n, i, j)' <=> Writes(n, i, j)
  BY <1>1 DEF Writes
<1>4. ASSUME NEW i, NEW j, NEW b PROVE Meant(i, j, b)' = Meant(i, j, b)
  BY <1>1, <1>2 DEF Meant
<1>5. ASSUME NEW i, NEW k PROVE Meaning(i, k)' = Meaning(i, k)
  BY <1>1, <1>2 DEF Meaning
<1>6. ASSUME NEW i, NEW j PROVE Extent(i, j)' = Extent(i, j)
  BY DEF Extent
<1>7. CASE t.kind = "number"
  BY <1>3, <1>7 DEF Denotes
<1>8. CASE t.kind = "string"
  BY <1>4, <1>5, <1>8 DEF Denotes
<1>9. CASE t.kind \notin {"number", "string"}
  BY <1>6, <1>9 DEF Denotes
<1> QED BY <1>7, <1>8, <1>9

LEMMA ValueAdded ==
  ASSUME tokens \in Seq(TokenType), ValuesExact, text' = text, NEW t,
         tokens' = Append(tokens, t), t.kind # "eof" => Denotes(t)
  PROVE  ValuesExact'
<1>1. Range(tokens') = Range(tokens) \cup {t}
  <2>1. \A s : s \in Seq(TokenType) => s \in Seq(TokenType \cup {t})
    BY SeqMonotonic
  <2> QED BY <2>1, AppendFacts
<1>2. TokensMade' \subseteq TokensMade \cup {u \in {t} : u.kind # "eof"}
  BY <1>1 DEF TokensMade
<1> QED BY <1>2, DenotesFixed DEF ValuesExact

(* Emit, with the value that the characters denote.                        *)
LEMMA EmitDenotes ==
  ASSUME LInv, ValuesExact, NEW kind, NEW value, NEW here, here = Here, NEW last,
         Emit(kind, value, last),
         \A t : t.kind = kind /\ t.value = value /\ t.first = here /\ t.last = last => Denotes(t)
  PROVE  ValuesExact'
<1>1. PICK t : t = [kind |-> kind, value |-> value, pos |-> PosAt(pos, ptr, Here),
                    first |-> Here, last |-> last]
  OBVIOUS
<1>2. t.kind = kind /\ t.value = value /\ t.first = here /\ t.last = last
  BY <1>1
<1>3. tokens' = Append(tokens, t) /\ text' = text
  BY <1>1 DEF Emit
<1>4. tokens \in Seq(TokenType)
  BY DEF LInv, TokensTyped
<1> QED BY <1>2, <1>3, <1>4, ValueAdded

LEMMA WordDenotes == LInv /\ ValuesExact /\ LexIdentifierOrKeyword => ValuesExact'
<1> SUFFICES ASSUME LInv, ValuesExact, LexIdentifierOrKeyword PROVE ValuesExact'
  OBVIOUS
<1>1. PICK here : here = Here
  OBVIOUS
<1>2. PICK last : last = First(here + 1, NotMiddle) - 1
  OBVIOUS
<1>3. PICK word : word = Extent(here, last)
  OBVIOUS
<1>4. PICK kind : kind = IF word \in KEYWORDS THEN "keyword" ELSE "identifier"
  OBVIOUS
<1>5. Emit(kind, word, last)
  BY <1>1, <1>2, <1>3, <1>4 DEF LexIdentifierOrKeyword
<1>6. ASSUME NEW t, t.kind = kind, t.value = word, t.first = here, t.last = last
      PROVE  Denotes(t)
  BY <1>3, <1>4, <1>6 DEF Denotes
<1> QED BY <1>1, <1>5, <1>6, EmitDenotes

LEMMA SymbolDenotes == LInv /\ ValuesExact /\ (LexTwoChars \/ LexOneChar) => ValuesExact'
<1> SUFFICES ASSUME LInv, ValuesExact, LexTwoChars \/ LexOneChar PROVE ValuesExact'
  OBVIOUS
<1>1. PICK here : here = Here
  OBVIOUS
<1>2. PICK last : Emit("symbol", Extent(here, last), last)
  BY <1>1 DEF LexTwoChars, LexOneChar
<1>3. ASSUME NEW t, t.kind = "symbol", t.value = Extent(here, last), t.first = here,
             t.last = last
      PROVE  Denotes(t)
  BY <1>3 DEF Denotes
<1> QED BY <1>1, <1>2, <1>3, EmitDenotes

LEMMA NumberTokenDenotes == LInv /\ ValuesExact /\ LexNumber => ValuesExact'
<1> SUFFICES ASSUME LInv, ValuesExact, LexNumber PROVE ValuesExact'
  OBVIOUS
<1>0. Lexing /\ Char(Here) \in Range(Digits)
  BY DEF LexNumber, IsDigit
<1>1. PICK here : here = Here
  OBVIOUS
<1>2. PICK last : last = First(here + 1, NotDigit) - 1
  OBVIOUS
<1>3. PICK n \in AtollResults(Extent(here, last)) : Emit("number", n, last)
  BY <1>1, <1>2 DEF LexNumber
<1>4. /\ here \in 1 .. BufferEnd /\ text \in Texts /\ last \in here .. BufferEnd - 1
      /\ \A k \in here .. last : IsDigit(Char(k))
  BY <1>0, <1>1, <1>2, NumberExtent
<1>5. Writes(n, here, last) \/ \A m \in 0 .. MaxInt : ~Writes(m, here, last)
  BY <1>4, NumberDenotes
<1>6. ASSUME NEW t, t.kind = "number", t.value = n, t.first = here, t.last = last
      PROVE  Denotes(t)
  BY <1>5, <1>6 DEF Denotes
<1> QED BY <1>1, <1>3, <1>6, EmitDenotes

LEMMA StringDenotes == LInv /\ ValuesExact /\ LexString => ValuesExact'
<1> SUFFICES ASSUME LInv, ValuesExact, LexString PROVE ValuesExact'
  OBVIOUS
<1>0. Lexing /\ Char(Here) = QUOTE /\ Char(Here) # NUL
  BY CharsDiffer DEF LexString
<1>1. PICK here : here = Here
  OBVIOUS
<1>2. /\ here \in 1 .. BufferEnd /\ BufferEnd \in Nat /\ text \in Texts
      /\ here + 1 \in 1 .. BufferEnd /\ here \in Nat /\ Char(here) = QUOTE
      /\ here + 1 >= here + 1
  BY <1>0, <1>1, HereFacts
<1>3. PICK r : r = Scans[here + 1]
  OBVIOUS
<1>4. r = Scan /\ ScanOK(here + 1, r)
  BY <1>1, <1>2, <1>3, ScanTypes DEF Scan
<1>5. r.closed = TRUE /\ Emit("string", r.value, r.at)
  BY <1>4 DEF LexString, ScanOK, ScanType
<1>6. ~Escaped(here, here + 1)
  BY <1>2, EscapedStep
<1>7. PICK b : b = r.at
  OBVIOUS
<1>8. ClosesAt(here, here + 1, b)
  BY <1>2, <1>3, <1>5, <1>6, <1>7, StringEnds
<1>9. ValueFits(here, here + 1, b, r.value)
  BY <1>2, <1>3, <1>6, <1>8, ScanValue
<1>10. ASSUME NEW t, t.kind = "string", t.value = r.value, t.first = here, t.last = b
       PROVE  Denotes(t)
  BY <1>9, <1>10 DEF Denotes, ValueFits
<1> QED BY <1>1, <1>5, <1>7, <1>10, EmitDenotes

LEMMA ValuesKept == LInv /\ ValuesExact /\ [Next]_vars => ValuesExact'
<1> SUFFICES ASSUME LInv, ValuesExact, [Next]_vars PROVE ValuesExact'
  OBVIOUS
<1>1. CASE Eof
  <2>1. PICK t : t.kind = "eof" /\ tokens' = Append(tokens, t) /\ text' = text
    BY <1>1 DEF Eof
  <2> QED BY <2>1, ValueAdded DEF LInv, TokensTyped
<1>2. CASE text' = text /\ tokens' = tokens
  <2>1. TokensMade' = TokensMade
    BY <1>2 DEF TokensMade
  <2> QED BY <1>2, <2>1, DenotesFixed DEF ValuesExact
<1>3. CASE LexComment \/ StringError \/ Unrecognized \/ UNCHANGED vars
  BY <1>2, <1>3 DEF LexComment, StringError, Unrecognized, Fail, vars
<1> QED BY <1>1, <1>3, WordDenotes, NumberTokenDenotes, StringDenotes, SymbolDenotes DEF Next

----------------------------------------------------------------------------
(* What the invariant says of the runs' properties.                        *)

(* The values Lex keeps stay what they are: every token has a kind, a      *)
(* value of that kind and a place, and CodePtr is in the buffer or one     *)
(* past it.                                                                *)
THEOREM LexerTypes == Spec => []TypeOK
<1>1. ASSUME LInv PROVE TypeOK
  <2>1. text \in Texts /\ ptr \in 1 .. BufferEnd + 1
        /\ status \in {"lexing", "done", "error", "beyond"}
    BY <1>1 DEF LInv, InBuffer
  <2>2. pos \in Places
    <3>1. BufferEnd \in Nat
      BY <2>1, TextTypes
    <3>2. ptr \in Nat \ {0}
      BY <2>1, <3>1
    <3> QED BY <1>1, <3>2, PlaceStep DEF LInv, PositionsExact
  <2>3. ASSUME NEW t \in Range(tokens)
        PROVE  /\ t.kind \in Kept \cup {"eof"} /\ t.pos \in Places
               /\ t.value \in Values(t.kind)
    <3>1. tokens \in Seq(TokenType)
      BY <1>1 DEF LInv, TokensTyped
    <3>2. PICK k \in DOMAIN tokens : t = tokens[k]
      BY DEF Range
    <3>3. t \in TokenType
      BY <3>1, <3>2, ElementOfSeq, LenProperties
    <3> QED BY <3>3 DEF TokenType
  <2> QED BY <2>1, <2>2, <2>3 DEF TypeOK, Kept, Values
<1> QED BY <1>1, LexerInvariant, PTL

(* Lex cuts the text at the longest lexemes, whatever the order in which   *)
(* it tries its alternatives.                                              *)
THEOREM LongestMatches == Spec => []LongestMatch
<1>1. ASSUME LInv PROVE LongestMatch
  BY <1>1 DEF LInv, Passed, LongestMatch
<1> QED BY <1>1, LexerInvariant, PTL

(* Every character that CodePtr has passed is in one token or comment, or  *)
(* is white space, or belongs to the string that Lex refuses; and the      *)
(* tokens are in the order of the text.                                    *)
THEOREM NoCharacterLost == Spec => []NothingLost
<1>1. ASSUME LInv PROVE NothingLost
  <2>1. ASSUME NEW i \in 1 .. ptr - 1, NEW over,
               over = {e \in Extents : i \in e.first .. e.last}
        PROVE  IF over = {} THEN status = "error" \/ Char(i) \in Blanks
               ELSE Cardinality(over) = 1
    <3>1. CASE over = {}
      BY <1>1, <2>1, <3>1 DEF LInv, Covered
    <3>2. CASE over # {}
      <4>1. PICK e \in over : TRUE
        BY <3>2
      <4>2. ASSUME NEW f \in over PROVE f = e
        <5>1. /\ e \in Extents /\ f \in Extents
              /\ i \in e.first .. e.last /\ i \in f.first .. f.last
          BY <2>1, <4>1
        <5>2. /\ e.first \in Nat /\ e.last \in Nat /\ f.first \in Nat /\ f.last \in Nat
          BY <1>1, <5>1 DEF LInv, Passed
        <5>3. ~(e.last < f.first) /\ ~(f.last < e.first)
          BY <5>1, <5>2
        <5> QED BY <1>1, <5>1, <5>3 DEF LInv, Apart
      <4>3. over = {e}
        BY <4>1, <4>2
      <4> QED BY <3>2, <4>3, FS_Singleton
    <3> QED BY <3>1, <3>2
  <2> QED BY <1>1, <2>1 DEF LInv, InOrder, NothingLost
<1> QED BY <1>1, LexerInvariant, PTL

(* The scan ends, with or without an error, at the first character behind  *)
(* the last lexeme that is not white space, and no lexeme starts there: in *)
(* particular StringError reports only what is no string, and Unrecognized *)
(* only what is no operator.                                               *)
THEOREM ScanStopsRightly == Spec => []StopsWhereNothingStarts
<1>1. ASSUME LInv PROVE StopsWhereNothingStarts
  <2> SUFFICES ASSUME status \in {"done", "error"},
                      NEW past, past = Max(Lasts),
                      NEW next, next = First(past + 1, NotBlank)
               PROVE  /\ ~\E j \in next .. BufferEnd : IsLexeme(next, j)
                      /\ (status = "done") <=> (Char(next) = NUL)
    BY DEF StopsWhereNothingStarts, Lasts
  <2>1. PICK m, n \in 0 .. BufferEnd : EndsAt(m, n)
    BY <1>1 DEF LInv, Ended
  <2>2. text \in Texts /\ BufferEnd \in Nat
    BY <1>1, TextTypes DEF LInv, InBuffer
  <2>3. past = m
    <3>1. m \in Lasts /\ \A k \in Lasts : k \in Int /\ m >= k
      <4>1. \A k \in Lasts : k \in Int
        BY <1>1 DEF LInv, Passed, Lasts
      <4> QED BY <2>1, <4>1 DEF EndsAt
    <3> QED BY <3>1, MaxIs
  <2>4. m + 1 \in 1 .. BufferEnd /\ m \in Nat /\ n \in m + 1 .. BufferEnd
    BY <2>1, <2>2 DEF EndsAt
  <2>5. /\ next \in m + 1 .. BufferEnd /\ Char(next) \notin Blanks
        /\ \A k \in m + 1 .. next - 1 : Char(k) \in Blanks
    BY <2>2, <2>3, <2>4, Firsts
  <2>6. next = n
    <3>1. Char(n) \notin Blanks /\ \A k \in m + 1 .. n - 1 : Char(k) \in Blanks
      BY <2>1 DEF EndsAt
    <3>2. ~(next < n)
      BY <2>2, <2>4, <2>5, <3>1
    <3>3. ~(n < next)
      BY <2>2, <2>4, <2>5, <3>1
    <3> QED BY <2>2, <2>4, <2>5, <3>2, <3>3
  <2> QED BY <2>1, <2>6 DEF EndsAt
<1> QED BY <1>1, LexerInvariant, PTL

(* CodePtr's line and column, which every token and every error report     *)
(* carries, are those of the character in the file.                        *)
THEOREM PlacesTold == Spec => []PositionsExact
<1>1. LInv => PositionsExact
  BY DEF LInv
<1> QED BY <1>1, LexerInvariant, PTL

(* Lex reads behind the terminator only after a comment on a last line     *)
(* without a line break.                                                   *)
THEOREM ScanStaysInBuffer == Spec => []OnlyLastCommentRunsOut
<1>1. ASSUME LInv PROVE OnlyLastCommentRunsOut
  <2>1. BufferEnd \in Nat /\ ptr \in Int
    BY <1>1, TextTypes DEF LInv, InBuffer
  <2> QED BY <1>1, <2>1 DEF LInv, InBuffer, OnlyLastCommentRunsOut
<1> QED BY <1>1, LexerInvariant, PTL
(* A token has the value that its characters denote: a word its own text   *)
(* and the kind the keyword table gives the whole of it, a number the      *)
(* number that its digits write, a string what its characters mean.        *)
THEOREM LexerValues == Spec => []ValuesExact
<1>1. Init => LInv /\ ValuesExact
  <2>1. Init => TokensMade = {}
    BY DEF Init, TokensMade, Range
  <2> QED BY <2>1, InitLInv DEF ValuesExact
<1>2. LInv /\ ValuesExact /\ [Next]_vars => (LInv /\ ValuesExact)'
  BY LInvKept, ValuesKept
<1> QED BY <1>1, <1>2, PTL DEF Spec
=============================================================================
