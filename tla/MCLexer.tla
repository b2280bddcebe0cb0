------------------------------ MODULE MCLexer ------------------------------
(* Small texts for Lexer: every text up to a length over alphabets that    *)
(* bring the characters which act on each other together.                  *)
EXTENDS Lexer

Words     == {"i", "f", "x", "8", " "}
Operators == {"<", "=", "!", "-", "i", "1"}
Comments  == {"/", "=", "x", LF, NUL}
Strings   == {"\"", "\\", "n", "0", "x", LF, NUL}
Numbers   == {"1", "0", "9", "x", "\t"}
Mixed     == {"i", "f", "1", "\"", "/", ">", ";", LF}

Up(A, n) == BoundedSeq(A, n)

SmallTexts == Up(Words, 5) \cup Up(Operators, 4) \cup Up(Comments, 5)
                \cup Up(Strings, 4) \cup Up(Numbers, 4) \cup Up(Mixed, 4)

SomeLetters  == {"i", "f", "x", "n"}
SomeKeywords == {<<"i", "f">>, <<"x", "8">>}
============================================================================
