---------------------------- MODULE MachineCode ----------------------------
(***************************************************************************)
(* The buffer of machine code that the code generator appends to and later *)
(* overwrites in place.  A buffer is its length and the instructions that  *)
(* start in it, by byte offset; what an instruction encodes is abstracted  *)
(* to its kind, its length in bytes, the absolute offset it jumps to, and  *)
(* for cmp and jcc the operand order or the comparison it tests.  An       *)
(* instruction of which some bytes were overwritten is "torn", and bytes   *)
(* left of an instruction whose first byte is gone start nothing.          *)
(***************************************************************************)
EXTENDS Program

Ops == {"straight", "nop", "cmp", "jmp", "jcc", "call", "ret", "data",
        "enter", "leave", "torn"}

(* cmp compares a with b ("ab") or, for an immediate on the left, b with a *)
Hows == Comparisons \cup {"ab", "ba", "-"}

Instruction == [op : Ops, len : Nat \ {0}, to : Nat, how : Hows]

Ins(op, len)    == [op |-> op, len |-> len, to |-> 0, how |-> "-"]
Nop             == Ins("nop", 1)
Jmp(to)         == [op |-> "jmp", len |-> 5, to |-> to, how |-> "-"]
Jcc(comp, to)   == [op |-> "jcc", len |-> 6, to |-> to, how |-> comp]
CallTo(to)      == [op |-> "call", len |-> 5, to |-> to, how |-> "-"]
Torn(i)         == [op |-> "torn", len |-> i.len, to |-> i.to, how |-> i.how]
Cmp(len, order) == [op |-> "cmp", len |-> len, to |-> 0, how |-> order]

EmptyBuffer == [len |-> 0, at |-> [p \in {} |-> Nop]]

IsBuffer(b) ==
  /\ b.len \in Nat
  /\ DOMAIN b.at \subseteq Nat
  /\ \A p \in DOMAIN b.at : b.at[p] \in Instruction /\ p + b.at[p].len <= b.len

(* push_back and append of one instruction's bytes.                        *)
Emit(b, i) ==
  [len |-> b.len + i.len,
   at  |-> [p \in DOMAIN b.at \cup {b.len} |->
              IF p = b.len THEN i ELSE b.at[p]]]

(* EmitNop: n one-byte nops, the space of an instruction written later.    *)
EmitNop(b, n) ==
  [len |-> b.len + n,
   at  |-> [p \in DOMAIN b.at \cup b.len .. b.len + n - 1 |->
              IF p \in DOMAIN b.at THEN b.at[p] ELSE Nop]]

(* The bytes of an instruction i written over the ones at every offset of  *)
(* S, as code[from] = ... and memcpy do.                                   *)
Patch(b, S, i) ==
  [len |-> b.len,
   at  |-> [p \in S \cup {q \in DOMAIN b.at :
                            \A s \in S : q < s \/ s + i.len <= q} |->
              IF p \in S THEN i
              ELSE IF \E s \in S : p < s /\ s < p + b.at[p].len
                   THEN Torn(b.at[p])
                   ELSE b.at[p]]]

----------------------------------------------------------------------------
(* n bytes from offset s on that are still the nops EmitNop put there.     *)
Reserved(b, s, n) ==
  /\ s + n <= b.len
  /\ \A k \in s .. s + n - 1 : k \in DOMAIN b.at /\ b.at[k] = Nop

(* The buffer decodes from its first byte to its last, every instruction   *)
(* as it was written: none torn, none starting inside another, each        *)
(* followed by the next.                                                   *)
NoneTorn(b) == \A p \in DOMAIN b.at : b.at[p].op # "torn"
Disjoint(b) ==
  \A p \in DOMAIN b.at : \A q \in p + 1 .. p + b.at[p].len - 1 : q \notin DOMAIN b.at
Tiled(b) ==
  /\ 0 \in DOMAIN b.at \cup {b.len}
  /\ \A p \in DOMAIN b.at : p + b.at[p].len \in DOMAIN b.at \cup {b.len}
Intact(b) == NoneTorn(b) /\ Disjoint(b) /\ Tiled(b)
============================================================================
