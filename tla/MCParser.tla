------------------------------ MODULE MCParser ------------------------------
(* Small vocabularies for Parser: the tokens of one group of statements    *)
(* with some that are out of place, and the length a source of theirs may  *)
(* have.                                                                   *)
EXTENDS Parser

Frame == {"proc", "main", "{", "}", ";"}
Source(words, max) == [words |-> Frame \cup words, max |-> max]

Sources ==
  {Source({"f", "macro"}, 13),
   Source({"loop", "break", "branch"}, 13),
   Source({"loop", "(", ")", "rax", "<", "1"}, 15),
   Source({"branch", "else", "(", ")", "rax", "<", "break"}, 18),
   Source({"rax", "=", "+=", "1", "-", "if", "<"}, 16),
   Source({"rax", "<<", "text", "push", "pop", "if", "<", "-", "1"}, 13),
   Source({"continue", "return", "break", "if", "rax", "=="}, 12)}
=============================================================================
