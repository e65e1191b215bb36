--------------------------- MODULE MCInterpreter ---------------------------
(***************************************************************************)
(* Small instances of Interpreter.  Each set of programs is built for one  *)
(* question; the bounds are in the names of the definitions.               *)
(***************************************************************************)
EXTENDS Interpreter

\* Codes of at most n bytes over a set of bytes.
CodesUpTo(n, bytes) == UNION {[1..k -> bytes] : k \in 0..n}

\* PUSH1 1, k times: k items on the stack.
Pushes(k) == [i \in 1..2 * k |-> IF i % 2 = 1 THEN OP_PUSH1 ELSE 1]

\* A result that fits in a byte and one with the sign bit set.
SmallWord == WordOf(1)
LargeWord == [ZeroWord EXCEPT ![31] = 128]
MCResults == {SmallWord, LargeWord}
OneResult == {SmallWord}

\* Every code of up to BoundaryBytes bytes in which pushes, their data, jumps
\* and jump destinations meet in every arrangement; 1 and 4 are jump targets.
BoundaryBytes    == 5
BoundaryPrograms ==
    CodesUpTo(BoundaryBytes,
              {1, 4, OP_JUMP, OP_JUMPI, OP_JUMPDEST, OP_PUSH1, OP_PUSH1 + 1,
               OP_PUSH32, OP_DUP1})

\* Three items, then every sequence of TraceSteps instructions, one opcode for
\* each shape of handler that traces what it does.
TraceSteps    == 3
TraceOps      == {1, AddmodOp, OP_EXP, 16, 18, IszeroOp, NotOp, 48, 49, 53,
                  CodesizeOp, PopOp, OP_JUMPI, OP_PC, OP_GAS, OP_JUMPDEST,
                  OP_TSTORE, OP_PUSH0, OP_PUSH1, OP_DUP1, OP_DUP1 + 1, OP_LOG1}
TracePrograms == {<<OP_PUSH1, 2, OP_PUSH0, OP_PUSH1, 1>> \o body :
                      body \in [1..TraceSteps -> TraceOps]}

\* Up to a full stack, then any opcode at all, with data after it.
FrameItems    == 4
FramePrograms ==
    {c \in {Pushes(k) \o <<op, data, OP_JUMPDEST>> :
                k \in 0..FrameItems, op \in Byte \ OtherOps,
                data \in {0, 2, OP_JUMPDEST}} : ~ is_eof_container(c)}

\* One program for each disagreement.
PushTwoProgram == {<<OP_PUSH1 + 1, 1, 1>>}
SwapProgram    == {<<OP_PUSH1, 1, OP_PUSH1, 2, OP_SWAP1, 1>>}

=============================================================================
