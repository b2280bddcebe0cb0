----------------------------- MODULE MCStraight -----------------------------
(* Small instances of Straight: what the cfg files give its constants.     *)
EXTENDS Straight

(* r11 has the low bits of rbx, r8 those of rax.                           *)
SomeRegs     == {rax, rbx, rdx, rsi, rdi, 8, 11}
SomeOperands == {rax, rbx, rdx, rdi, 8}
============================================================================
