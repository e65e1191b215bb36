-------------------------- MODULE MCBytecodeTable --------------------------
(***************************************************************************)
(* Small instances of BytecodeTable: every code of up to CodeBytes bytes   *)
(* over the smallest and the largest push and a small number, which is     *)
(* also a plausible header, and longer codes in which the data of a PUSH2  *)
(* ends and an instruction next to the range of pushes follows.            *)
(***************************************************************************)
EXTENDS BytecodeTable

CodeBytes == 4
MCCodes   == UNION {[1..n -> {2, OP_PUSH1, OP_PUSH32}] : n \in 0..CodeBytes}
             \cup {<<2, OP_PUSH1 + 1, OP_PUSH1, OP_PUSH1, last, OP_PUSH1>> :
                       last \in {OP_PUSH0, OP_PUSH32, OP_DUP1}}

=============================================================================
