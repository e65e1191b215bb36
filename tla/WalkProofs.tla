----------------------------- MODULE WalkProofs -----------------------------
(***************************************************************************)
(* What every walk over a code rests on, for every code and revision: the  *)
(* sizes that the tables of EvmCode give to instructions, and why going    *)
(* from instruction to instruction meets all of them and nothing else.     *)
(***************************************************************************)
EXTENDS EvmCode, TLAPS

\* The immediate sizes of the traits table, by shape of handler.
LEMMA ImmediateSizes ==
    ASSUME NEW op \in Byte
    PROVE  /\ immediate_size[op] \in 0..32
           /\ op \in PushOps => immediate_size[op] = op - (OP_PUSH1 - 1)
           /\ op \in {OP_DUPN, OP_SWAPN} => immediate_size[op] = 1
           /\ op \in ArithOps \cup CompareOps \cup BitwiseOps \cup ShiftOps
                     \cup LookupOps \cup AccountOps \cup EnvironmentOps
                     \cup DupOps \cup SwapOps
                     \cup {AddmodOp, OP_MULMOD, OP_EXP, SignextendOp, IszeroOp, NotOp,
                           ByteOp, CodesizeOp, OP_TSTORE, OP_JUMP, OP_JUMPI, OP_PC,
                           OP_GAS, PopOp, OP_JUMPDEST, OP_LOG1, OP_PUSH0, OP_DUP,
                           OP_SWAP} => immediate_size[op] = 0
BY DEF immediate_size, frontier_costs, undefined, Byte,
       LookupOps, AccountOps, MloadOps, MstoreOps, IszeroOp, NotOp, PopOp, OP_JUMP,
       OP_DUP, OP_SWAP, ArithOps, CompareOps, BitwiseOps, ShiftOps, OP_EXP,
       SignextendOp, ByteOp, OP_JUMPI, OP_TSTORE, CopyOps, AddmodOp, OP_MULMOD,
       OP_LOG1, LogOps, DupOps, SwapOps, OP_DUP1, OP_SWAP1, EnvironmentOps, PushOps,
       OP_PUSH1, OP_PUSH32, CodesizeOp, OP_PC, OP_GAS, OP_PUSH0, OP_DUPN, OP_SWAPN,
       OP_STOP, OP_INVALID, OP_JUMPDEST

-----------------------------------------------------------------------------
(* Instruction boundaries.                                                 *)

\* The instructions of a code at the revision of the frame.
Instructions(rev, c) == {p \in 0..Len(c) - 1 : IsInstruction(rev, c, p)}

\* The size of the instruction at a position.
SizeAt(rev, c, p) == InstructionSize(rev, c[p + 1])

\* An instruction has at least one byte.
LEMMA SizeType ==
    ASSUME NEW rev \in Revision, NEW op \in Byte
    PROVE  InstructionSize(rev, op) \in Nat /\ InstructionSize(rev, op) > 0
<1> DEFINE n == immediate_size[op]
<1>1. n \in 0..32
  BY ImmediateSizes
<1> HIDE DEF n
<1>2. 1 + n \in Nat /\ 1 + n > 0
  BY <1>1
<1> QED  BY <1>2 DEF InstructionSize, n

\* The opcodes with an immediate that are not pushes have no constant cost, and
\* are undefined before PRAGUE.
LEMMA ImmediateCosts ==
    ASSUME NEW rev \in Revision, NEW op \in Byte, immediate_size[op] # 0
    PROVE  /\ op \in PushOps => has_const_gas_cost[op] /\ base_cost[rev][op] = 3
           /\ op \notin PushOps => ~ has_const_gas_cost[op]
           /\ op \notin PushOps /\ rev # PRAGUE => base_cost[rev][op] = undefined
<1>1. CASE op \in PushOps
  <2>1. frontier_costs[op] = 3
    <3>1. /\ op \notin {OP_STOP, 85, OP_LOG1, 243, OP_INVALID, 255}
          /\ op # OP_JUMPDEST
          /\ op \notin (EnvironmentOps \ {61, 70, 71, 72, 74})
                        \cup {CodesizeOp, PopOp, OP_PC, OP_GAS, OP_PUSH0}
          /\ op \notin {2} \cup 4..7 \cup {SignextendOp}
          /\ op \notin {AddmodOp, OP_MULMOD, OP_JUMP, OP_EXP, OP_JUMPI, 49, 59, 60, 64, 32,
                        241, 242, 84, 240}
          /\ op \notin LogOps \ {OP_LOG1}
      BY <1>1 DEF PushOps, OP_PUSH1, OP_PUSH32, OP_STOP, OP_LOG1, OP_INVALID, OP_JUMPDEST,
         EnvironmentOps, CodesizeOp, PopOp, OP_PC, OP_GAS, OP_PUSH0, SignextendOp, AddmodOp,
         OP_MULMOD, OP_JUMP, OP_EXP, OP_JUMPI, LogOps
    <3> QED  BY <1>1, <3>1 DEF frontier_costs
  <2>2. ASSUME NEW r \in Revision PROVE gas_costs[r][op] = frontier_costs[op]
    BY <1>1, <2>2 DEF gas_costs, Byte, PushOps, OP_PUSH1, OP_PUSH32, ShiftOps, OP_TSTORE,
       OP_DUPN, OP_SWAPN
  <2>3. has_const_gas_cost[op]
    BY <2>2 DEF has_const_gas_cost
  <2> QED  BY <1>1, <2>1, <2>3 DEF base_cost
<1>2. CASE op \notin PushOps
  <2>1. op \in {226, OP_DUPN, OP_SWAPN, 224, 225, 227, 229, 233}
    BY <1>2 DEF immediate_size
  <2>2. frontier_costs[op] = undefined
    BY <2>1 DEF frontier_costs, Byte, PushOps, OP_PUSH1, OP_PUSH32, OP_STOP,
       OP_LOG1, OP_INVALID, OP_JUMPDEST, EnvironmentOps, CodesizeOp, PopOp, OP_PC, OP_GAS, OP_PUSH0,
       OP_DUPN, OP_SWAPN, IszeroOp, NotOp, ByteOp, OP_SWAP, OP_DUP, CompareOps, BitwiseOps,
       MloadOps, MstoreOps, DupOps, SwapOps, OP_DUP1, OP_SWAP1, SignextendOp, AddmodOp,
       OP_MULMOD, OP_JUMP, OP_EXP, OP_JUMPI, LogOps
  <2>3. gas_costs[PRAGUE][op] \in {2, 3, 4, 5}
    BY <2>1 DEF gas_costs, Revision, FRONTIER, PRAGUE, ShiftOps, OP_TSTORE, OP_DUPN,
       OP_SWAPN, Byte
  <2>4. ~ has_const_gas_cost[op]
    <3>1. PRAGUE \in Revision
      BY DEF Revision, FRONTIER, PRAGUE
    <3> QED  BY <2>2, <2>3, <3>1 DEF has_const_gas_cost, undefined
  <2>5. ASSUME rev # PRAGUE PROVE gas_costs[rev][op] = frontier_costs[op]
    <3>1. ~ (rev >= PRAGUE)
      BY <2>5 DEF Revision, FRONTIER, PRAGUE
    <3>2. /\ op \notin {49, 59, 60, 241, 242, 84, 255, 244, 61, 62, 250, 253, 63, 245, 70,
                        71, 72, 73, 94, 74, 92, OP_TSTORE}
          /\ op \notin ShiftOps
      BY <2>1 DEF ShiftOps, OP_TSTORE, OP_DUPN, OP_SWAPN
    <3> QED  BY <3>1, <3>2 DEF gas_costs
  <2>6. rev # PRAGUE => base_cost[rev][op] = undefined
    BY <2>2, <2>4, <2>5 DEF base_cost, legacy_cost_tables
  <2> QED  BY <1>2, <2>4, <2>6
<1> QED  BY <1>1, <1>2

\* Before PRAGUE, pushes are the only instructions longer than a byte: the
\* assumption analyze_jumpdests makes.
LEMMA LegacySizes ==
    ASSUME NEW rev \in Revision, rev # PRAGUE, NEW op \in Byte
    PROVE  InstructionSize(rev, op) = IF op \in PushOps THEN op - (OP_PUSH1 - 1) + 1 ELSE 1
<1>1. CASE op \in PushOps
  <2>1. immediate_size[op] = op - (OP_PUSH1 - 1)
    BY <1>1, ImmediateSizes
  <2>2. immediate_size[op] # 0
    BY <1>1, <2>1 DEF PushOps, OP_PUSH1, OP_PUSH32
  <2>3. base_cost[rev][op] = 3
    BY <1>1, <2>2, ImmediateCosts
  <2> QED  BY <1>1, <2>1, <2>3 DEF InstructionSize, PushOps, OP_PUSH1, OP_PUSH32
<1>2. CASE op \notin PushOps
  <2>1. CASE immediate_size[op] = 0
    BY <1>2, <2>1 DEF InstructionSize
  <2>2. CASE immediate_size[op] # 0
    <3>1. base_cost[rev][op] = -1
      BY <1>2, <2>2, ImmediateCosts DEF undefined
    <3> QED  BY <1>2, <3>1 DEF InstructionSize
  <2> QED  BY <2>1, <2>2
<1> QED  BY <1>1, <1>2

\* The first byte of a code is an instruction.
LEMMA FirstInstruction ==
    ASSUME NEW rev \in Revision, NEW c \in Seq(Byte), Len(c) > 0
    PROVE  0 \in Instructions(rev, c)
<1>1. 0 \in 0..Len(c) - 1
  OBVIOUS
<1> QED  BY <1>1 DEF Instructions, IsInstruction, ClosedUnderNext

\* An instruction is a position of the code and has a positive size.
LEMMA InstructionFacts ==
    ASSUME NEW rev \in Revision, NEW c \in Seq(Byte), NEW p \in Instructions(rev, c)
    PROVE  /\ p \in Nat /\ p < Len(c) /\ p \in 0..Len(c) - 1
           /\ SizeAt(rev, c, p) \in Nat /\ SizeAt(rev, c, p) > 0
<1>1. p \in 0..Len(c) - 1
  BY DEF Instructions
<1>2. c[p + 1] \in Byte
  <2>1. p + 1 \in 1..Len(c)
    BY <1>1
  <2> QED  BY <2>1
<1> QED  BY <1>1, <1>2, SizeType DEF SizeAt

\* The byte after an instruction and its immediate is an instruction.
LEMMA NextInstruction ==
    ASSUME NEW rev \in Revision, NEW c \in Seq(Byte), NEW p \in Instructions(rev, c), p + SizeAt(rev, c, p) < Len(c)
    PROVE  p + SizeAt(rev, c, p) \in Instructions(rev, c)
<1> DEFINE q == p + SizeAt(rev, c, p)
<1>1. IsInstruction(rev, c, p)
  BY DEF Instructions
<1>2. p \in Nat /\ SizeAt(rev, c, p) \in Nat /\ Len(c) \in Nat
  BY InstructionFacts
<1>3. q \in 0..Len(c) - 1
  BY <1>2
<1>4. ASSUME NEW S \in SUBSET (0..Len(c) - 1), ClosedUnderNext(rev, c, S)
      PROVE  q \in S
  <2>1. p \in S
    BY <1>1, <1>4 DEF IsInstruction
  <2> QED  BY <1>4, <2>1 DEF ClosedUnderNext, SizeAt
<1> QED  BY <1>3, <1>4 DEF Instructions, IsInstruction

\* Every set closed under the next instruction holds all the instructions.
LEMMA LeastClosed ==
    ASSUME NEW rev \in Revision, NEW c \in Seq(Byte), NEW S \in SUBSET (0..Len(c) - 1), ClosedUnderNext(rev, c, S)
    PROVE  Instructions(rev, c) \subseteq S
BY DEF Instructions, IsInstruction

\* s is an instruction and every instruction before s ends at s or before.
Walked(rev, c, s) ==
    /\ s < Len(c) => s \in Instructions(rev, c)
    /\ \A p \in Instructions(rev, c) : p < s => p + SizeAt(rev, c, p) <= s

\* A walk over the code may start at its first byte.
LEMMA WalkStart == ASSUME NEW rev \in Revision, NEW c \in Seq(Byte) PROVE Walked(rev, c, 0)
<1>1. \A p \in Instructions(rev, c) : ~ (p < 0)
  BY DEF Instructions
<1>2. 0 < Len(c) => 0 \in Instructions(rev, c)
  BY FirstInstruction
<1> QED  BY <1>1, <1>2 DEF Walked

\* From an instruction, a walk may go to the next, and there is none between.
LEMMA WalkStep ==
    ASSUME NEW rev \in Revision, NEW c \in Seq(Byte), NEW s \in Nat, s < Len(c), Walked(rev, c, s)
    PROVE  /\ Walked(rev, c, s + SizeAt(rev, c, s))
           /\ \A p \in Instructions(rev, c) : p < s + SizeAt(rev, c, s) => p <= s
<1> DEFINE next == s + SizeAt(rev, c, s)
           kept == {p \in Instructions(rev, c) : p <= s \/ p >= next}
<1>1. s \in Instructions(rev, c)
  BY DEF Walked
<1>2. SizeAt(rev, c, s) \in Nat /\ SizeAt(rev, c, s) > 0
  BY <1>1, InstructionFacts
<1>3. next \in Nat /\ next > s
  BY <1>2
<1>4. ASSUME NEW p \in kept, p + SizeAt(rev, c, p) < Len(c)
      PROVE  p + SizeAt(rev, c, p) \in kept
  <2> DEFINE q == p + SizeAt(rev, c, p)
  <2>1. p \in Instructions(rev, c) /\ (p <= s \/ p >= next)
    OBVIOUS
  <2>2. q \in Instructions(rev, c)
    BY <1>4, <2>1, NextInstruction
  <2>3. p \in Nat /\ SizeAt(rev, c, p) \in Nat /\ SizeAt(rev, c, p) > 0
    BY <2>1, InstructionFacts
  <2>4. CASE p < s
    BY <2>1, <2>2, <2>4 DEF Walked
  <2>5. CASE p = s
    BY <1>3, <2>2, <2>5
  <2>6. CASE p >= next
    BY <1>3, <2>2, <2>3, <2>6
  <2> QED  BY <2>1, <2>3, <2>4, <2>5, <2>6
<1>5. ClosedUnderNext(rev, c, kept)
  <2>1. Len(c) > 0 => 0 \in kept
    BY FirstInstruction
  <2> QED  BY <1>4, <2>1 DEF ClosedUnderNext, SizeAt
<1>6. kept \in SUBSET (0..Len(c) - 1)
  BY DEF Instructions
<1>7. Instructions(rev, c) \subseteq kept
  BY <1>5, <1>6, LeastClosed
<1>8. \A p \in Instructions(rev, c) : p < next => p <= s
  <2> SUFFICES ASSUME NEW p \in Instructions(rev, c), p < next PROVE p <= s
    OBVIOUS
  <2>1. p \in Int /\ (p <= s \/ p >= next)
    BY <1>7, InstructionFacts
  <2> QED  BY <1>3, <2>1
<1>9. ASSUME NEW p \in Instructions(rev, c), p < next
      PROVE  p + SizeAt(rev, c, p) <= next
  <2>1. p \in Int /\ p <= s /\ SizeAt(rev, c, p) \in Int
    BY <1>8, <1>9, InstructionFacts
  <2>2. CASE p < s
    <3>1. p + SizeAt(rev, c, p) <= s
      BY <2>2 DEF Walked
    <3> QED  BY <1>3, <2>1, <3>1
  <2>3. CASE p = s
    BY <1>3, <2>3
  <2> QED  BY <2>1, <2>2, <2>3
<1>10. next < Len(c) => next \in Instructions(rev, c)
  BY <1>1, NextInstruction
<1> QED  BY <1>8, <1>9, <1>10 DEF Walked

=============================================================================
