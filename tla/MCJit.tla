------------------------------- MODULE MCJit -------------------------------
(* Small instances of Jit.                                                 *)
EXTENDS Jit

Cond(a, comp, b) == [a |-> a, b |-> b, comp |-> comp]
RegReg == {Cond("reg", "<", "reg")}

Texts  == {"text"}
============================================================================
