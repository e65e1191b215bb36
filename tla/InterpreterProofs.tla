------------------------- MODULE InterpreterProofs -------------------------
(***************************************************************************)
(* A frame of the interpreter keeps its types and its stack in bounds, for *)
(* every code, revision, stack limit and gas.  The lemmas follow the code: *)
(* the tables of traits, what check_requirements guarantees a handler,     *)
(* what tracing does, then one lemma per shape of handler.  The last two   *)
(* sections are about the trace: that it explains itself and the stack,    *)
(* and that an instruction touches the slots its traits declare.           *)
(***************************************************************************)
EXTENDS Interpreter, TLAPS

\* The traits table: an instruction needs no fewer items than it removes, and
\* adds at most one, which is all the overflow check allows for.
LEMMA HeightTraits ==
    ASSUME NEW op \in Byte
    PROVE  /\ stack_height_required[op] \in Nat
           /\ stack_height_change[op] \in Int
           /\ stack_height_change[op] <= 1
           /\ stack_height_required[op] + stack_height_change[op] >= 0
BY SMTT(60) DEF stack_height_required, stack_height_change, Byte,
       LookupOps, AccountOps, MloadOps, MstoreOps, IszeroOp, NotOp, PopOp, OP_JUMP,
       OP_DUP, OP_SWAP, ArithOps, CompareOps, BitwiseOps, ShiftOps, OP_EXP,
       SignextendOp, ByteOp, OP_JUMPI, OP_TSTORE, CopyOps, AddmodOp, OP_MULMOD,
       OP_LOG1, DupOps, SwapOps, OP_DUP1, OP_SWAP1, EnvironmentOps, PushOps, OP_PUSH1,
       OP_PUSH32, CodesizeOp, OP_PC, OP_GAS, OP_PUSH0, OP_DUPN

\* The base cost charged for any byte is an integer at the revision of the frame.
LEMMA CostType ==
    ASSUME NEW op \in Byte
    PROVE  base_cost[Rev][op] \in Int
<1>1. frontier_costs[op] \in Int
  <2>1. frontier_costs[op] \in {0, 1, 2, 3, 5, 8, 10, 20, 30, 40, 50, 32000,
                               (op - 159) * 375, undefined}
    BY DEF frontier_costs
  <2> QED  BY <2>1 DEF undefined, Byte
<1>2. gas_costs[Rev][op] \in Int
  <2> DEFINE row == gas_costs[Rev]
  <2>1. row[op] \in {2, 3, 4, 5, 40, 100, 200, 400, 700, 800, 5000, 0, 32000, frontier_costs[op]}
    BY RevAssumption DEF gas_costs
  <2> QED  BY <1>1, <2>1
<1>3. legacy_cost_tables[Rev][op] \in Int
  BY <1>2, RevAssumption DEF legacy_cost_tables, undefined
<1> QED  BY <1>1, <1>3, RevAssumption DEF base_cost

\* The indices of m_stack_space, and the type of its contents.
Slots  == 0..StackLimit - 1
Space  == [Slots -> Word]

\* The inductive invariant: the types, the bounds of the stack, and that the code
\* is one that may be run.  The bounds alone are not inductive: which heights a
\* step allows depends on the opcode, hence on the code and the iterator.
IInv ==
    /\ TypeOK
    /\ StackInBounds
    /\ code \in Programs

\* The byte dispatch() fetches is a byte, in the code or in its padding.
LEMMA OpcodeType == TypeOK => opcode \in Byte
<1> SUFFICES ASSUME TypeOK PROVE opcode \in Byte
  OBVIOUS
<1>1. code \in Seq(Byte) /\ pc \in Nat
  BY DEF TypeOK
<1>2. CASE pc < Len(code)
  <2>1. pc + 1 \in 1..Len(code)
    BY <1>1, <1>2
  <2> QED  BY <1>1, <1>2, <2>1 DEF opcode, padded_code
<1>3. CASE ~ (pc < Len(code))
  BY <1>3 DEF opcode, padded_code, OP_STOP, Byte
<1> QED  BY <1>2, <1>3

\* What check_requirements guarantees the handler: its operands are slots of the
\* stack, the slot above the top exists if it pushes, the height it leaves is in
\* bounds and the gas left is not negative.
LEMMA Requirements ==
    ASSUME TypeOK, StackInBounds, check_requirements = "EVMC_SUCCESS"
    PROVE  /\ opcode \in Byte
           /\ height \in Nat /\ height <= StackLimit
           /\ height >= stack_height_required[opcode]
           /\ stack_height_change[opcode] = 1 => height \in Slots
           /\ \A k \in 0..stack_height_required[opcode] - 1 : Slot(k) \in Slots
           /\ height + stack_height_change[opcode] \in 0..StackLimit
           /\ charged \in Nat
<1>1. opcode \in Byte
  BY OpcodeType
<1> DEFINE required == stack_height_required[opcode]
           change   == stack_height_change[opcode]
           cost     == cost_table[opcode]
<1>2. /\ required \in Nat /\ change \in Int /\ change <= 1
      /\ required + change >= 0 /\ cost \in Int
  BY <1>1, HeightTraits, CostType DEF cost_table
<1>3. ~ (change > 0 /\ height = StackLimit) /\ ~ (height < required) /\ ~ (gas - cost < 0)
  BY DEF check_requirements
<1>4. height \in Nat /\ height <= StackLimit /\ StackLimit \in Nat /\ gas \in Int
  BY LimitAssumption DEF StackInBounds, TypeOK
<1> HIDE DEF required, change, cost
<1>5. /\ change = 1 => height \in Slots
      /\ \A k \in 0..required - 1 : height - 1 - k \in Slots
      /\ height + change \in 0..StackLimit
      /\ gas - cost \in Nat
  BY <1>2, <1>3, <1>4 DEF Slots
<1> QED  BY <1>1, <1>3, <1>4, <1>5, <1>2 DEF required, change, cost, Slot, charged

\* A record is in a set of records if its fields are in the fields' sets.
LEMMA RecordType ==
    ASSUME NEW o, NEW A, NEW a \in A, NEW N, NEW n \in N, NEW B, NEW b \in B,
           NEW W, NEW w \in W
    PROVE  [op |-> o, address |-> a, rw_id |-> n, is_write |-> b, value |-> w]
             \in [op : {o}, address : A, rw_id : N, is_write : B, value : W]
BY SMT

\* The remainder of an integer lies below the divisor.
LEMMA RemainderRange ==
    ASSUME NEW x \in Int, NEW d \in Nat, d > 0
    PROVE  x % d \in 0..d - 1
OBVIOUS

\* The modulus of a uint16_t, opaque in what follows.
LEMMA Uint16 == Uint16Mod \in Nat /\ Uint16Mod > 0
BY DEF Uint16Mod

\* stack_operation yields an operation with a 16-bit address.
LEMMA OperationType ==
    ASSUME NEW address \in Int, NEW n \in Nat, NEW value \in Word
    PROVE  /\ read_operation(address, n, value) \in Operation
           /\ write_operation(address, n, value) \in Operation
<1> DEFINE a == to_uint16(address)
           Address == 0..Uint16Mod - 1
           Bool    == BOOLEAN
<1>1. a \in Address
  BY RemainderRange, Uint16 DEF to_uint16
<1>2. FALSE \in Bool /\ TRUE \in Bool
  OBVIOUS
<1>3. Operation = [op : {STACK_OP}, address : Address, rw_id : Nat,
                   is_write : Bool, value : Word]
  BY DEF Operation
<1> HIDE DEF a, Address, Bool
<1>4. [op |-> STACK_OP, address |-> a, rw_id |-> n, is_write |-> FALSE,
       value |-> value] \in Operation
  BY <1>1, <1>2, <1>3, RecordType, Zenon
<1>5. [op |-> STACK_OP, address |-> a, rw_id |-> n, is_write |-> TRUE,
       value |-> value] \in Operation
  BY <1>1, <1>2, <1>3, RecordType, Zenon
<1> QED  BY <1>4, <1>5 DEF read_operation, write_operation, a

\* Appending a read or a write of any address keeps the trace a trace.
LEMMA TraceType ==
    ASSUME NEW trace \in Seq(Operation), NEW slot \in Int, NEW value \in Word
    PROVE  /\ TraceValue(trace, slot, value) \in Seq(Operation)
           /\ TraceWrite(trace, slot, value) \in Seq(Operation)
<1>1. Len(trace) \in Nat
  OBVIOUS
<1>2. /\ read_operation(slot, Len(trace), value) \in Operation
      /\ write_operation(slot, Len(trace), value) \in Operation
  BY <1>1, OperationType
<1> QED  BY <1>2 DEF TraceValue, TraceWrite

\* Tracing a read of a slot of the stack keeps the trace a trace.
LEMMA TraceReadType ==
    ASSUME TypeOK, NEW trace \in Seq(Operation), NEW slot \in Slots
    PROVE  stack_space[slot] \in Word /\ TraceRead(trace, slot) \in Seq(Operation)
<1>1. slot \in Int /\ stack_space[slot] \in Word
  BY LimitAssumption DEF TypeOK, Slots
<1> QED  BY <1>1, TraceType DEF TraceRead

\* Tracing a write of a slot of the stack keeps the trace a trace.
LEMMA TraceWriteType ==
    ASSUME NEW trace \in Seq(Operation), NEW slot \in Slots, NEW value \in Word
    PROVE  TraceWrite(trace, slot, value) \in Seq(Operation)
<1>1. slot \in Int
  BY LimitAssumption DEF Slots
<1> QED  BY <1>1, TraceType

\* invoke() moving the stack top by the declared change keeps the invariant.
LEMMA ContinueKeeps ==
    ASSUME IInv, phase = "dispatch", check_requirements = "EVMC_SUCCESS",
           NEW position \in Nat, NEW gas_left \in Int, NEW space \in Space,
           NEW trace \in Seq(Operation),
           Continue(position, gas_left, space, trace)
    PROVE  IInv'
BY Requirements, LimitAssumption
   DEF IInv, TypeOK, StackInBounds, Continue, Space, Slots, fixed, analysis

\* dispatch() returning keeps the invariant.
LEMMA HaltKeeps ==
    ASSUME IInv, NEW s \in StatusCode, NEW gas_left \in Int,
           NEW trace \in Seq(Operation), Halt(s, gas_left, trace)
    PROVE  IInv'
BY DEF IInv, TypeOK, StackInBounds, Halt, fixed, analysis

\* A handler that replaces two operands by a word keeps the invariant.
LEMMA BinaryKeeps ==
    ASSUME IInv, phase = "dispatch", check_requirements = "EVMC_SUCCESS",
           stack_height_required[opcode] = 2
    PROVE  /\ BinaryReads \in Seq(Operation)
           /\ \A r \in Word, g \in Int : BinaryResult(r, g) => IInv'
<1>1. Slot(0) \in Slots /\ Slot(1) \in Slots
  BY Requirements DEF IInv
<1>2. BinaryReads \in Seq(Operation)
  BY <1>1, TraceReadType DEF BinaryReads, IInv, TypeOK
<1>3. ASSUME NEW r \in Word, NEW g \in Int, BinaryResult(r, g)
      PROVE  IInv'
  <2>1. [stack_space EXCEPT ![Slot(1)] = r] \in Space
    BY DEF IInv, TypeOK, Space, Slots
  <2>2. TraceWrite(BinaryReads, Slot(1), r) \in Seq(Operation)
    BY <1>1, <1>2, TraceWriteType DEF IInv
  <2>3. pc + 1 \in Nat
    BY DEF IInv, TypeOK
  <2> QED  BY <1>3, <2>1, <2>2, <2>3, ContinueKeeps DEF BinaryResult
<1> QED  BY <1>2, <1>3

\* A handler that replaces the top by a word keeps the invariant.
LEMMA UnaryKeeps ==
    ASSUME IInv, phase = "dispatch", check_requirements = "EVMC_SUCCESS",
           stack_height_required[opcode] = 1
    PROVE  /\ TraceRead(rw_trace, Slot(0)) \in Seq(Operation)
           /\ \A r \in Word, g \in Int : UnaryResult(r, g) => IInv'
<1>1. Slot(0) \in Slots
  BY Requirements DEF IInv
<1>2. TraceRead(rw_trace, Slot(0)) \in Seq(Operation)
  BY <1>1, TraceReadType DEF IInv, TypeOK
<1>3. ASSUME NEW r \in Word, NEW g \in Int, UnaryResult(r, g)
      PROVE  IInv'
  <2>1. [stack_space EXCEPT ![Slot(0)] = r] \in Space
    BY DEF IInv, TypeOK, Space, Slots
  <2>2. TraceWrite(TraceRead(rw_trace, Slot(0)), Slot(0), r) \in Seq(Operation)
    BY <1>1, <1>2, TraceWriteType DEF IInv
  <2>3. pc + 1 \in Nat
    BY DEF IInv, TypeOK
  <2> QED  BY <1>3, <2>1, <2>2, <2>3, ContinueKeeps DEF UnaryResult
<1> QED  BY <1>2, <1>3

\* A handler that pushes a word keeps the invariant.
LEMMA PushKeeps ==
    ASSUME IInv, phase = "dispatch", check_requirements = "EVMC_SUCCESS",
           stack_height_change[opcode] = 1,
           NEW r \in Word, NEW position \in Nat, PushResult(r, position)
    PROVE  IInv'
<1>1. height \in Slots /\ charged \in Int
  BY Requirements DEF IInv
<1>2. [stack_space EXCEPT ![height] = r] \in Space
  BY DEF IInv, TypeOK, Space, Slots
<1>3. TraceWrite(rw_trace, height, r) \in Seq(Operation)
  BY <1>1, TraceWriteType DEF IInv, TypeOK
<1> QED  BY <1>1, <1>2, <1>3, ContinueKeeps DEF PushResult

\* The rows of the traits table for the handlers modelled: how many operands each
\* shape of handler declares, and which ones push.
LEMMA OperandCounts ==
    ASSUME NEW op \in Byte
    PROVE  /\ op \in ArithOps \cup CompareOps \cup BitwiseOps \cup ShiftOps
                     \cup {ByteOp, OP_EXP, SignextendOp, OP_JUMPI, OP_TSTORE} =>
                  stack_height_required[op] = 2
           /\ op \in LookupOps \cup AccountOps
                     \cup {IszeroOp, NotOp, OP_JUMP, OP_DUP, OP_SWAP} =>
                  stack_height_required[op] = 1
           /\ op \in {AddmodOp, OP_MULMOD} => stack_height_required[op] = 3
           /\ op \in DupOps => stack_height_required[op] = op - (OP_DUP1 - 1)
           /\ op \in SwapOps => stack_height_required[op] = op - (OP_SWAP1 - 1) + 1
           /\ op \in EnvironmentOps \cup PushOps \cup DupOps
                     \cup {CodesizeOp, OP_PC, OP_GAS, OP_PUSH0, OP_DUPN} =>
                  stack_height_change[op] = 1
BY SMTT(60) DEF stack_height_required, stack_height_change, Byte,
       LookupOps, AccountOps, MloadOps, MstoreOps, IszeroOp, NotOp, PopOp, OP_JUMP,
       OP_DUP, OP_SWAP, ArithOps, CompareOps, BitwiseOps, ShiftOps, OP_EXP,
       SignextendOp, ByteOp, OP_JUMPI, OP_TSTORE, CopyOps, AddmodOp, OP_MULMOD,
       OP_LOG1, DupOps, SwapOps, OP_DUP1, OP_SWAP1, EnvironmentOps, PushOps, OP_PUSH1,
       OP_PUSH32, CodesizeOp, OP_PC, OP_GAS, OP_PUSH0, OP_DUPN

\* The words handlers build are 32 bytes wide.
LEMMA WordTypes ==
    /\ ZeroWord \in Word
    /\ \A b : BoolWord(b) \in Word
    /\ \A n \in Int : WordOf(n) \in Word
    /\ \A r \in Results : r \in Word
<1>1. ZeroWord \in Word
  BY DEF ZeroWord, Word, Byte, WordBytes
<1>2. ASSUME NEW b PROVE BoolWord(b) \in Word
  <2>1. [ZeroWord EXCEPT ![0] = 1] \in Word
    BY <1>1 DEF Word, Byte, WordBytes
  <2> QED  BY <1>1, <2>1 DEF BoolWord
<1>3. ASSUME NEW n \in Int PROVE WordOf(n) \in Word
  <2>1. ASSUME NEW k \in 0..WordBytes - 1, k < LimbBytes
        PROVE  (n \div 256 ^ k) % 256 \in Byte
    <3>1. k \in 0..LimbBytes
      BY <2>1, LimbAssumption DEF WordBytes
    <3>2. 256 ^ k \in Nat \ {0}
      BY <3>1, PlaceValues
    <3> DEFINE m == 256 ^ k
    <3> HIDE DEF m
    <3>3. m \in Int /\ m > 0
      BY <3>2 DEF m
    <3>4. n \div m \in Int
      BY <3>3
    <3>5. (n \div m) % 256 \in 0..255
      BY <3>4
    <3> QED  BY <3>5 DEF m, Byte
  <2>2. 0 \in Byte
    BY DEF Byte
  <2> QED  BY <2>1, <2>2 DEF WordOf, Word
<1> QED  BY <1>1, <1>2, <1>3, ResultsAssumption

\* to_uint64 yields an integer.
LEMMA LimbType == ASSUME NEW w \in Word PROVE to_uint64(w) \in Int
<1> DEFINE part(k) == IF k < LimbBytes THEN w[k] * 256 ^ k ELSE 0
<1>1. ASSUME NEW k \in 0..7 PROVE part(k) \in Int
  <2>1. CASE k < LimbBytes
    <3>1. w[k] \in Int
      BY DEF Word, WordBytes, Byte
    <3>2. 256 ^ k \in Int
      BY <2>1, LimbAssumption, PlaceValues
    <3> QED  BY <3>1, <3>2, <2>1
  <2> QED  BY <2>1
<1> HIDE DEF part
<1>2. /\ part(0) \in Int /\ part(1) \in Int /\ part(2) \in Int /\ part(3) \in Int
      /\ part(4) \in Int /\ part(5) \in Int /\ part(6) \in Int /\ part(7) \in Int
  BY <1>1
<1>3. part(0) + part(1) + part(2) + part(3) + part(4) + part(5) + part(6) + part(7) \in Int
  BY <1>2
<1> QED  BY <1>3 DEF to_uint64, part

\* The conversions to int and uint16_t yield integers.
LEMMA IntType == ASSUME NEW n \in Int PROVE to_int(n) \in Int /\ to_uint16(n) \in Int
BY IntAssumption, Uint16 DEF to_int, to_uint16

\* analyze() keeps the invariant: it only sets bits of positions in the code.
LEMMA AnalyzeKeeps == IInv /\ Analyze => IInv'
<1> SUFFICES ASSUME IInv, Analyze PROVE IInv'
  OBVIOUS
<1>1. CASE AnalyzeStep
  <2> DEFINE op == code[scan + 1]
  <2>1. scan \in Nat /\ Len(code) \in Nat /\ scan < Len(code) /\ op \in Byte
    BY <1>1 DEF AnalyzeStep, IInv, TypeOK
  <2> HIDE DEF op
  <2>2. int8(op) >= OP_PUSH1 => op - (OP_PUSH1 - 1) \in Nat
    <3>1. op \in 0..255
      BY <2>1 DEF Byte
    <3> QED  BY <3>1 DEF int8, OP_PUSH1
  <2>3. scan' \in Nat
    BY <1>1, <2>1, <2>2 DEF AnalyzeStep, op
  <2>4. scan \in 0..Len(code) - 1
    BY <2>1
  <2>5. jumpdest_map' \in SUBSET (0..Len(code) - 1)
    BY <1>1, <2>4 DEF AnalyzeStep, IInv, TypeOK
  <2> QED  BY <1>1, <2>3, <2>5 DEF AnalyzeStep, IInv, TypeOK, StackInBounds, fixed
<1>2. CASE AnalyzeDone
  BY <1>2 DEF AnalyzeDone, IInv, TypeOK, StackInBounds, fixed, analysis
<1> QED  BY <1>1, <1>2 DEF Analyze

\* A failed check, an unmapped opcode, STOP and INVALID keep the invariant.
LEMMA FailKeeps == IInv /\ (RequirementsFail \/ NoSuchCase \/ Stop) => IInv'
<1> SUFFICES ASSUME IInv, RequirementsFail \/ NoSuchCase \/ Stop PROVE IInv'
  OBVIOUS
<1>1. rw_trace \in Seq(Operation) /\ gas \in Int /\ opcode \in Byte
  BY OpcodeType DEF IInv, TypeOK
<1>2. charged \in Int
  BY <1>1, CostType DEF charged, cost_table
<1>3. CASE RequirementsFail
  <2>1. check_requirements \in StatusCode
    BY DEF check_requirements, StatusCode
  <2> QED  BY <1>1, <1>2, <1>3, <2>1, HaltKeeps DEF RequirementsFail
<1>4. CASE NoSuchCase
  BY <1>1, <1>2, <1>4, HaltKeeps DEF NoSuchCase, StatusCode
<1>5. CASE Stop
  <2>1. (IF opcode = OP_STOP THEN "EVMC_SUCCESS" ELSE "EVMC_INVALID_INSTRUCTION")
            \in StatusCode
    BY DEF StatusCode
  <2> QED  BY <1>1, <1>2, <1>5, <2>1, HaltKeeps DEF Stop
<1> QED  BY <1>3, <1>4, <1>5

\* addmod and mulmod keep the invariant.
LEMMA TernaryKeeps == IInv /\ (addmod \/ mulmod) => IInv'
<1> SUFFICES ASSUME IInv, addmod \/ mulmod PROVE IInv'
  OBVIOUS
<1>1. /\ phase = "dispatch" /\ check_requirements = "EVMC_SUCCESS"
      /\ opcode \in {AddmodOp, OP_MULMOD}
  BY DEF addmod, mulmod, Executing
<1>2. stack_height_required[opcode] = 3
  BY <1>1, OpcodeType, OperandCounts DEF IInv
<1>3. Slot(0) \in Slots /\ Slot(1) \in Slots /\ Slot(2) \in Slots /\ charged \in Int
  BY <1>1, <1>2, Requirements DEF IInv
<1>4. TernaryReads \in Seq(Operation)
  BY <1>3, TraceReadType DEF TernaryReads, IInv, TypeOK
<1>5. pc + 1 \in Nat
  BY DEF IInv, TypeOK
<1>6. PICK r \in Results :
          \/ Continue(pc + 1, charged, [stack_space EXCEPT ![Slot(2)] = r],
                      TraceWrite(TernaryReads, Slot(2), r))
          \/ Continue(pc + 1, charged, [stack_space EXCEPT ![Slot(2)] = r],
                      TraceWrite(TernaryReads, Slot(0), stack_space[Slot(0)]))
  BY DEF addmod, mulmod
<1>7. r \in Word
  BY WordTypes
<1>8. [stack_space EXCEPT ![Slot(2)] = r] \in Space
  BY <1>7 DEF IInv, TypeOK, Space, Slots
<1>9. /\ TraceWrite(TernaryReads, Slot(2), r) \in Seq(Operation)
      /\ TraceWrite(TernaryReads, Slot(0), stack_space[Slot(0)]) \in Seq(Operation)
  BY <1>3, <1>4, <1>7, TraceWriteType, TraceReadType DEF IInv
<1> QED  BY <1>1, <1>3, <1>5, <1>6, <1>8, <1>9, ContinueKeeps

\* The arithmetic, comparison and bit handlers keep the invariant.
LEMMA OperateKeeps == IInv /\ Operate => IInv'
<1> SUFFICES ASSUME IInv, Operate PROVE IInv'
  OBVIOUS
<1>1. CASE addmod \/ mulmod
  BY <1>1, TernaryKeeps
<1>2. opcode \in Byte /\ charged \in Int
  <2>1. opcode \in Byte
    BY OpcodeType DEF IInv
  <2> QED  BY <2>1, CostType DEF charged, cost_table, IInv, TypeOK
<1>3. CASE Arith \/ signextend \/ Compare \/ Bitwise \/ ByteAndShift
  <2>1. /\ phase = "dispatch" /\ check_requirements = "EVMC_SUCCESS"
        /\ stack_height_required[opcode] = 2
    BY <1>2, <1>3, OperandCounts
       DEF Arith, signextend, Compare, Bitwise, ByteAndShift, Executing
  <2>2. \E r \in Word : BinaryResult(r, charged)
    BY <1>3, WordTypes DEF Arith, signextend, Compare, Bitwise, ByteAndShift
  <2> QED  BY <1>2, <2>1, <2>2, BinaryKeeps
<1>4. CASE exp
  <2>1. /\ phase = "dispatch" /\ check_requirements = "EVMC_SUCCESS"
        /\ stack_height_required[opcode] = 2
    BY <1>2, <1>4, OperandCounts DEF exp, Executing
  <2>2. PICK n \in 0..WordBytes :
            LET gas_left == charged - n * (IF Rev >= SPURIOUS_DRAGON THEN 50 ELSE 10)
            IN  \/ Halt("EVMC_OUT_OF_GAS", gas_left, BinaryReads)
                \/ \E r \in Results : BinaryResult(r, gas_left)
    BY <1>4 DEF exp
  <2>3. charged - n * (IF Rev >= SPURIOUS_DRAGON THEN 50 ELSE 10) \in Int
    BY <1>2 DEF WordBytes
  <2> QED  BY <2>1, <2>2, <2>3, BinaryKeeps, HaltKeeps, WordTypes DEF StatusCode
<1>5. CASE iszero \/ not_
  <2>1. /\ phase = "dispatch" /\ check_requirements = "EVMC_SUCCESS"
        /\ stack_height_required[opcode] = 1
    BY <1>2, <1>5, OperandCounts DEF iszero, not_, Executing
  <2>2. \E r \in Word : UnaryResult(r, charged)
    BY <1>5, WordTypes DEF iszero, not_
  <2> QED  BY <1>2, <2>1, <2>2, UnaryKeeps
<1> QED  BY <1>1, <1>3, <1>4, <1>5 DEF Operate

\* The handlers that ask the message, the transaction or the host keep the
\* invariant.
LEMMA ConsultKeeps == IInv /\ Consult => IInv'
<1> SUFFICES ASSUME IInv, Consult PROVE IInv'
  OBVIOUS
<1>1. /\ opcode \in Byte /\ charged \in Int /\ pc + 1 \in Nat
      /\ phase = "dispatch" /\ check_requirements = "EVMC_SUCCESS"
  <2>1. phase = "dispatch" /\ check_requirements = "EVMC_SUCCESS"
    BY DEF Consult, Environment, Lookup, AccountLookup, codesize, tstore, Executing
  <2> QED  BY <2>1, Requirements DEF IInv, TypeOK
<1>2. CASE Environment \/ codesize
  <2>1. stack_height_change[opcode] = 1
    BY <1>1, <1>2, OperandCounts DEF Environment, codesize, Executing
  <2>2. Len(code) \in Int
    BY DEF IInv, TypeOK
  <2>3. \E r \in Word : PushResult(r, pc + 1)
    BY <1>2, <2>2, WordTypes DEF Environment, codesize
  <2> QED  BY <1>1, <2>1, <2>3, PushKeeps
<1>3. CASE Lookup
  <2>1. stack_height_required[opcode] = 1
    BY <1>1, <1>3, OperandCounts DEF Lookup, Executing
  <2> QED  BY <1>1, <1>3, <2>1, WordTypes, UnaryKeeps DEF Lookup
<1>4. CASE AccountLookup
  <2>1. stack_height_required[opcode] = 1
    BY <1>1, <1>4, OperandCounts DEF AccountLookup, Executing
  <2>2. PICK gas_left \in Int :
            \/ Halt("EVMC_OUT_OF_GAS", gas_left, TraceRead(rw_trace, Slot(0)))
            \/ \E r \in Results : UnaryResult(r, gas_left)
    BY <1>1, <1>4 DEF AccountLookup, additional_cold_account_access_cost
  <2> QED  BY <1>1, <2>1, <2>2, WordTypes, UnaryKeeps, HaltKeeps DEF StatusCode
<1>5. CASE tstore
  <2>1. stack_height_required[opcode] = 2
    BY <1>1, <1>5, OperandCounts DEF tstore, Executing
  <2>2. BinaryReads \in Seq(Operation) /\ rw_trace \in Seq(Operation) /\ stack_space \in Space
    BY <1>1, <2>1, BinaryKeeps DEF IInv, TypeOK, Space, Slots
  <2>3. \/ Halt("EVMC_STATIC_MODE_VIOLATION", 0, rw_trace)
        \/ Continue(pc + 1, charged, stack_space, BinaryReads)
    BY <1>5 DEF tstore
  <2> QED  BY <1>1, <2>2, <2>3, HaltKeeps, ContinueKeeps DEF StatusCode
<1> QED  BY <1>2, <1>3, <1>4, <1>5 DEF Consult

\* jump_impl keeps the invariant: its target is a position of the code.
LEMMA JumpKeeps ==
    ASSUME IInv, phase = "dispatch", check_requirements = "EVMC_SUCCESS",
           NEW dst, NEW trace \in Seq(Operation), jump_impl(dst, trace)
    PROVE  IInv'
<1>1. charged \in Int
  BY Requirements DEF IInv
<1>2. stack_space \in Space /\ \A d \in jumpdest_map : d \in Nat
  BY DEF IInv, TypeOK, Space, Slots
<1>3. CASE to_uint64(dst) \in jumpdest_map
  BY <1>1, <1>2, <1>3, ContinueKeeps DEF jump_impl
<1>4. CASE to_uint64(dst) \notin jumpdest_map
  BY <1>1, <1>4, HaltKeeps DEF jump_impl, StatusCode
<1> QED  BY <1>3, <1>4

\* The handlers that move the program counter keep the invariant.
LEMMA SteerKeeps == IInv /\ Steer => IInv'
<1> SUFFICES ASSUME IInv, Steer PROVE IInv'
  OBVIOUS
<1>1. CASE Stop
  BY <1>1, FailKeeps
<1>2. CASE ~ Stop
  <2>1. phase = "dispatch" /\ check_requirements = "EVMC_SUCCESS"
    BY <1>2 DEF Steer, jump, jumpi, pc_, gas_, PopJumpdest, log, Executing
  <2>2. opcode \in Byte /\ charged \in Int
    BY <2>1, Requirements DEF IInv
  <2>3. pc \in Int /\ pc + 1 \in Nat /\ stack_space \in Space /\ rw_trace \in Seq(Operation)
    BY DEF IInv, TypeOK, Space, Slots
  <2>4. CASE jump
    <3>1. stack_height_required[opcode] = 1
      BY <2>2, <2>4, OperandCounts DEF jump, Executing
    <3> QED  BY <2>1, <2>4, <3>1, UnaryKeeps, JumpKeeps DEF jump
  <2>5. CASE jumpi
    <3>1. stack_height_required[opcode] = 2
      BY <2>2, <2>5, OperandCounts DEF jumpi, Executing
    <3>2. BinaryReads \in Seq(Operation)
      BY <2>1, <3>1, BinaryKeeps
    <3>3. \/ jump_impl(stack_space[Slot(0)], BinaryReads)
          \/ Continue(pc + 1, charged, stack_space, BinaryReads)
      BY <2>5 DEF jumpi
    <3> QED  BY <2>1, <2>2, <2>3, <3>2, <3>3, JumpKeeps, ContinueKeeps
  <2>6. CASE pc_ \/ gas_
    <3>1. stack_height_change[opcode] = 1
      BY <2>2, <2>6, OperandCounts DEF pc_, gas_, Executing
    <3>2. \E r \in Word : PushResult(r, pc + 1)
      BY <2>2, <2>3, <2>6, WordTypes DEF pc_, gas_
    <3> QED  BY <2>1, <2>3, <3>1, <3>2, PushKeeps
  <2>7. CASE PopJumpdest \/ log
    <3>1. Continue(pc + 1, charged, stack_space, rw_trace)
      BY <2>7 DEF PopJumpdest, log
    <3> QED  BY <2>1, <2>2, <2>3, <3>1, ContinueKeeps
  <2> QED  BY <1>2, <2>4, <2>5, <2>6, <2>7 DEF Steer
<1> QED  BY <1>1, <1>2

\* Every byte of the padded code is a byte.
LEMMA PaddedType ==
    ASSUME TypeOK, NEW p \in Nat
    PROVE  padded_code(code, p) \in Byte
<1>1. code \in Seq(Byte)
  BY DEF TypeOK
<1>2. CASE p < Len(code)
  <2>1. p + 1 \in 1..Len(code)
    BY <1>1, <1>2
  <2> QED  BY <1>1, <1>2, <2>1 DEF padded_code
<1>3. CASE ~ (p < Len(code))
  BY <1>3 DEF padded_code, OP_STOP, Byte
<1> QED  BY <1>2, <1>3

\* The data of a push is a word, also where it runs into the padding.
LEMMA PushDataType ==
    ASSUME TypeOK, NEW p \in Nat, NEW len \in Nat
    PROVE  PushData(p, len) \in Word
<1>1. ASSUME NEW k \in 0..WordBytes - 1, k < len
      PROVE  padded_code(code, p + len - k) \in Byte
  <2>1. p + len - k \in Nat
    BY <1>1 DEF WordBytes
  <2> QED  BY <2>1, PaddedType
<1>2. 0 \in Byte
  BY DEF Byte
<1> QED  BY <1>1, <1>2 DEF PushData, Word

\* push<Len> keeps the invariant, whatever its extra trace entries read.
LEMMA PushOpKeeps == IInv /\ push => IInv'
<1> SUFFICES ASSUME IInv, push PROVE IInv'
  OBVIOUS
<1> DEFINE len       == opcode - (OP_PUSH1 - 1)
           num_words == (len \div WordBytes) + (len % WordBytes)
           space     == [stack_space EXCEPT ![height] = PushData(pc, len)]
<1>1. /\ phase = "dispatch" /\ check_requirements = "EVMC_SUCCESS"
      /\ opcode \in PushOps
  BY DEF push, Executing
<1>2. height \in Slots /\ charged \in Int
  BY <1>1, Requirements, OperandCounts DEF IInv
<1>3. len \in 1..32 /\ num_words \in Nat
  BY <1>1 DEF PushOps, OP_PUSH1, OP_PUSH32, WordBytes
<1>4. PICK stray \in [(height + 1 - num_words)..(-1) -> Results] :
          Continue(pc + len + 1, charged, space,
              rw_trace \o
              [i \in 1..num_words |->
                  LET slot == height + 1 - i
                  IN  write_operation(slot, Len(rw_trace) + i - 1,
                          IF slot >= 0 THEN space[slot] ELSE stray[slot])])
  BY DEF push
<1> HIDE DEF len, num_words
<1>5. len \in Nat /\ pc \in Nat /\ pc + len + 1 \in Nat
  BY <1>3 DEF IInv, TypeOK
<1>6. space \in Space
  <2>1. PushData(pc, len) \in Word
    BY <1>5, PushDataType DEF IInv
  <2> QED  BY <2>1 DEF IInv, TypeOK, Space, Slots
<1> HIDE DEF space
<1> DEFINE row(i) == write_operation(height + 1 - i, Len(rw_trace) + i - 1,
                         IF height + 1 - i >= 0 THEN space[height + 1 - i]
                                                ELSE stray[height + 1 - i])
<1>7. ASSUME NEW i \in 1..num_words
      PROVE  row(i) \in Operation
  <2>1. height + 1 - i \in Int /\ Len(rw_trace) + i - 1 \in Nat
    BY <1>2, <1>3, LimitAssumption DEF Slots, IInv, TypeOK
  <2>2. CASE height + 1 - i >= 0
    <3>1. height + 1 - i \in Slots
      BY <1>2, <1>3, <2>2, LimitAssumption DEF Slots
    <3> QED  BY <1>6, <2>1, <2>2, <3>1, OperationType DEF Space
  <2>3. CASE ~ (height + 1 - i >= 0)
    <3>1. height + 1 - i \in (height + 1 - num_words)..(-1)
      BY <1>2, <1>3, <2>3, LimitAssumption DEF Slots
    <3>2. stray[height + 1 - i] \in Word
      BY <3>1, WordTypes
    <3> QED  BY <2>1, <2>3, <3>2, OperationType
  <2> QED  BY <2>2, <2>3
<1> HIDE DEF row
<1>8. [i \in 1..num_words |-> row(i)] \in Seq(Operation)
  BY <1>3, <1>7
<1>9. rw_trace \o [i \in 1..num_words |-> row(i)] \in Seq(Operation)
  BY <1>8 DEF IInv, TypeOK
<1>10. Continue(pc + len + 1, charged, space, rw_trace \o [i \in 1..num_words |-> row(i)])
  BY <1>4 DEF row
<1> QED  BY <1>1, <1>2, <1>5, <1>6, <1>9, <1>10, ContinueKeeps

\* Copying a slot of the stack above the top keeps the invariant.
LEMMA DupKeeps ==
    ASSUME IInv, phase = "dispatch", check_requirements = "EVMC_SUCCESS",
           stack_height_change[opcode] = 1, NEW position \in Nat, NEW slot \in Slots,
           Continue(position, charged, [stack_space EXCEPT ![height] = stack_space[slot]],
                    TraceWrite(TraceRead(rw_trace, slot), height, stack_space[slot]))
    PROVE  IInv'
<1>1. height \in Slots /\ charged \in Int
  BY Requirements DEF IInv
<1>2. /\ stack_space[slot] \in Word
      /\ TraceRead(rw_trace, slot) \in Seq(Operation)
  BY TraceReadType DEF IInv, TypeOK
<1>3. TraceWrite(TraceRead(rw_trace, slot), height, stack_space[slot]) \in Seq(Operation)
  BY <1>1, <1>2, TraceWriteType
<1>4. [stack_space EXCEPT ![height] = stack_space[slot]] \in Space
  BY <1>2 DEF IInv, TypeOK, Space, Slots
<1> QED  BY <1>1, <1>3, <1>4, ContinueKeeps

\* Exchanging the top with a slot of the stack keeps the invariant, wherever in
\* the stack the second write is traced.
LEMMA SwapKeeps ==
    ASSUME IInv, phase = "dispatch", check_requirements = "EVMC_SUCCESS",
           NEW position \in Nat, NEW top \in Slots, NEW slot \in Slots, NEW traced \in Slots,
           NEW space, space = [stack_space EXCEPT ![top] = stack_space[slot],
                                                  ![slot] = stack_space[top]],
           Continue(position, charged, space,
               TraceWrite(TraceWrite(TraceRead(TraceRead(rw_trace, slot), top),
                                     top, space[top]),
                          traced, space[traced]))
    PROVE  IInv'
<1>1. charged \in Int
  BY Requirements DEF IInv
<1>2. stack_space[slot] \in Word /\ stack_space[top] \in Word
  BY TraceReadType DEF IInv, TypeOK
<1>3. space \in Space
  BY <1>2 DEF IInv, TypeOK, Space, Slots
<1>4. space[top] \in Word /\ space[traced] \in Word
  BY <1>3 DEF Space
<1>5. TraceRead(TraceRead(rw_trace, slot), top) \in Seq(Operation)
  BY TraceReadType DEF IInv, TypeOK
<1>6. TraceWrite(TraceWrite(TraceRead(TraceRead(rw_trace, slot), top), top, space[top]),
                 traced, space[traced]) \in Seq(Operation)
  BY <1>4, <1>5, TraceWriteType
<1> QED  BY <1>1, <1>3, <1>6, ContinueKeeps

\* dup<0> and swap<0> keep the invariant although their index is not checked:
\* what they read outside the stack is some word, and what they write there is
\* not part of the stack.
LEMMA IndexedKeeps == IInv /\ (dup_indexed \/ swap_indexed) => IInv'
<1> SUFFICES ASSUME IInv, dup_indexed \/ swap_indexed PROVE IInv'
  OBVIOUS
<1>1. /\ phase = "dispatch" /\ check_requirements = "EVMC_SUCCESS"
      /\ opcode \in {OP_DUP, OP_SWAP}
  BY DEF dup_indexed, swap_indexed, Executing
<1>2. Slot(0) \in Slots /\ charged \in Int /\ height \in Int
  BY <1>1, Requirements, OperandCounts DEF IInv
<1>3. /\ TraceRead(rw_trace, Slot(0)) \in Seq(Operation)
      /\ stack_space[Slot(0)] \in Word /\ stack_space \in Space
      /\ pc + 1 \in Nat /\ Slot(0) \in Int
  BY <1>2, TraceReadType, LimitAssumption DEF IInv, TypeOK, Space, Slots
<1> DEFINE index == to_uint64(stack_space[Slot(0)])
<1>4. index \in Int /\ to_int(index) \in Int /\ to_uint16(index) \in Int
  BY <1>3, LimbType, IntType
<1> HIDE DEF index
<1>5. ASSUME NEW s, NEW v \in Word PROVE ReadSlot(s, v) \in Word
  BY <1>3 DEF ReadSlot, Space, Slots
<1>6. CASE dup_indexed
  <2> DEFINE slot == Slot(0) - to_int(index)
  <2>1. slot \in Int
    BY <1>3, <1>4
  <2>2. PICK stray \in Results :
            Continue(pc + 1, charged,
                [stack_space EXCEPT ![Slot(0)] = ReadSlot(slot, stray)],
                TraceWrite(TraceValue(TraceRead(rw_trace, Slot(0)), slot,
                                      ReadSlot(slot, stray)),
                           Slot(0), ReadSlot(slot, stray)))
    BY <1>6 DEF dup_indexed, index
  <2> HIDE DEF slot
  <2> DEFINE value == ReadSlot(slot, stray)
  <2>3. value \in Word
    BY <1>5, WordTypes
  <2> HIDE DEF value
  <2>4. [stack_space EXCEPT ![Slot(0)] = value] \in Space
    BY <1>3, <2>3 DEF Space
  <2>5. TraceWrite(TraceValue(TraceRead(rw_trace, Slot(0)), slot, value), Slot(0), value)
            \in Seq(Operation)
    BY <1>3, <2>1, <2>3, TraceType
  <2>6. Continue(pc + 1, charged, [stack_space EXCEPT ![Slot(0)] = value],
            TraceWrite(TraceValue(TraceRead(rw_trace, Slot(0)), slot, value),
                       Slot(0), value))
    BY <2>2 DEF value
  <2> QED  BY <1>1, <1>2, <1>3, <2>4, <2>5, <2>6, ContinueKeeps
<1>7. CASE swap_indexed
  <2> DEFINE top   == Slot(1)
             slot  == Slot(1) - to_uint16(index)
             cells == 0..StackLimit - 1 \cup {top, slot, slot + 1}
  <2>1. top \in Int /\ slot \in Int
    BY <1>2, <1>4 DEF Slot
  <2>2. PICK stray \in [{top, slot, slot + 1} -> Results] :
            LET before == [s \in cells |-> ReadSlot(s, stray[s])]
                after  == [before EXCEPT ![top]  = before[slot],
                                         ![slot] = before[top]]
            IN  Continue(pc + 1, charged, [s \in 0..StackLimit - 1 |-> after[s]],
                    TraceWrite(
                        TraceWrite(
                            TraceValue(
                                TraceValue(TraceRead(rw_trace, Slot(0)),
                                           slot, before[slot]),
                                top, before[top]),
                            top, after[top]),
                        slot + 1, after[slot + 1]))
    BY <1>7 DEF swap_indexed, index
  <2> DEFINE before == [s \in cells |-> ReadSlot(s, stray[s])]
             after  == [before EXCEPT ![top] = before[slot], ![slot] = before[top]]
  <2>3. before \in [cells -> Word]
    <3>1. ASSUME NEW s \in cells PROVE ReadSlot(s, stray[s]) \in Word
      <4>1. CASE s \in 0..StackLimit - 1
        BY <1>3, <4>1 DEF ReadSlot, Space, Slots
      <4>2. CASE s \in {top, slot, slot + 1}
        <5>1. stray[s] \in Word
          BY <4>2, WordTypes
        <5> QED  BY <1>5, <5>1
      <4> QED  BY <4>1, <4>2
    <3> QED  BY <3>1
  <2> HIDE DEF before
  <2>4. after \in [cells -> Word]
    BY <2>3
  <2>5. /\ top \in cells /\ slot \in cells /\ slot + 1 \in cells
        /\ \A s \in 0..StackLimit - 1 : s \in cells
    OBVIOUS
  <2> HIDE DEF cells, after, top, slot
  <2>6. /\ before[top] \in Word /\ before[slot] \in Word
        /\ after[top] \in Word /\ after[slot + 1] \in Word
        /\ [s \in 0..StackLimit - 1 |-> after[s]] \in Space
    BY <2>3, <2>4, <2>5 DEF Space, Slots
  <2>7. TraceValue(TraceValue(TraceRead(rw_trace, Slot(0)), slot, before[slot]),
                   top, before[top]) \in Seq(Operation)
    BY <1>3, <2>1, <2>6, TraceType
  <2>8. slot + 1 \in Int
    BY <2>1
  <2>9. TraceWrite(
            TraceWrite(
                TraceValue(TraceValue(TraceRead(rw_trace, Slot(0)), slot, before[slot]),
                           top, before[top]),
                top, after[top]),
            slot + 1, after[slot + 1]) \in Seq(Operation)
    BY <2>1, <2>6, <2>7, <2>8, TraceType
  <2>10. Continue(pc + 1, charged, [s \in 0..StackLimit - 1 |-> after[s]],
            TraceWrite(
                TraceWrite(
                    TraceValue(TraceValue(TraceRead(rw_trace, Slot(0)), slot, before[slot]),
                               top, before[top]),
                    top, after[top]),
                slot + 1, after[slot + 1]))
    BY <2>2 DEF before, after, top, slot, cells
  <2> QED  BY <1>1, <1>2, <1>3, <2>6, <2>9, <2>10, ContinueKeeps
<1> QED  BY <1>6, <1>7

\* The push, dup and swap handlers keep the invariant.
LEMMA ShuffleKeeps == IInv /\ Shuffle => IInv'
<1> SUFFICES ASSUME IInv, Shuffle PROVE IInv'
  OBVIOUS
<1>1. CASE push
  BY <1>1, PushOpKeeps
<1>2. CASE dup_indexed \/ swap_indexed
  BY <1>2, IndexedKeeps
<1>3. CASE push0 \/ dup \/ swap \/ dupn \/ swapn
  <2>1. phase = "dispatch" /\ check_requirements = "EVMC_SUCCESS"
    BY <1>3 DEF push0, dup, swap, dupn, swapn, Executing
  <2>2. /\ opcode \in Byte /\ charged \in Int
        /\ height \in Nat /\ height <= StackLimit /\ StackLimit \in Nat
        /\ rw_trace \in Seq(Operation)
        /\ pc + 1 \in Nat /\ pc + 2 \in Nat
    BY <2>1, Requirements, LimitAssumption DEF IInv, TypeOK
  <2>3. CASE push0
    <3>1. stack_height_change[opcode] = 1
      BY <2>2, <2>3, OperandCounts DEF push0, Executing
    <3> QED  BY <2>1, <2>2, <2>3, <3>1, PushKeeps, WordTypes DEF push0
  <2>4. CASE dup
    <3> DEFINE slot == height - (opcode - (OP_DUP1 - 1))
    <3>1. opcode \in DupOps
      BY <2>4 DEF dup, Executing
    <3>2. /\ stack_height_change[opcode] = 1
          /\ height >= opcode - (OP_DUP1 - 1)
      BY <2>1, <2>2, <3>1, OperandCounts, Requirements DEF IInv
    <3>3. slot \in Slots
      BY <2>2, <3>1, <3>2 DEF Slots, DupOps, OP_DUP1
    <3> QED  BY <2>1, <2>2, <2>4, <3>2, <3>3, DupKeeps DEF dup
  <2>5. CASE swap
    <3> DEFINE n == opcode - (OP_SWAP1 - 1)
    <3>1. opcode \in SwapOps
      BY <2>5 DEF swap, Executing
    <3>2. height >= n + 1
      BY <2>1, <2>2, <3>1, OperandCounts, Requirements DEF IInv
    <3>3. n \in 1..16
      BY <3>1 DEF SwapOps, OP_SWAP1
    <3> DEFINE space == [stack_space EXCEPT ![Slot(0)] = stack_space[Slot(n)],
                                            ![Slot(n)] = stack_space[Slot(0)]]
    <3>4. Continue(pc + 1, charged, space,
              TraceWrite(TraceWrite(TraceRead(TraceRead(rw_trace, Slot(n)), Slot(0)),
                                    Slot(0), space[Slot(0)]),
                         Slot(n) + 1, space[Slot(n) + 1]))
      BY <2>5 DEF swap
    <3> HIDE DEF n
    <3>5. Slot(0) \in Slots /\ Slot(n) \in Slots /\ Slot(n) + 1 \in Slots
      BY <2>2, <3>2, <3>3 DEF Slot, Slots
    <3> QED  BY <2>1, <2>2, <3>4, <3>5, SwapKeeps
  <2>6. CASE dupn
    <3> DEFINE n == padded_code(code, pc + 1) + 1
    <3>1. n \in Nat \ {0}
      <4>1. padded_code(code, pc + 1) \in 0..255
        BY <2>2, PaddedType DEF IInv, Byte
      <4> QED  BY <4>1
    <3>2. stack_height_change[opcode] = 1
      BY <2>2, <2>6, OperandCounts DEF dupn, Executing
    <3>3. \/ Halt("EVMC_STACK_UNDERFLOW", charged, rw_trace)
          \/ /\ height >= n
             /\ Continue(pc + 2, charged,
                    [stack_space EXCEPT ![height] = stack_space[height - n]],
                    TraceWrite(TraceRead(rw_trace, height - n), height,
                               stack_space[height - n]))
      BY <2>6 DEF dupn
    <3> HIDE DEF n
    <3>4. height >= n => height - n \in Slots
      BY <2>2, <3>1 DEF Slots
    <3> QED  BY <2>1, <2>2, <3>2, <3>3, <3>4, HaltKeeps, DupKeeps DEF StatusCode
  <2>7. CASE swapn
    <3> DEFINE n     == padded_code(code, pc + 1) + 1
               space == [stack_space EXCEPT ![Slot(0)] = stack_space[Slot(n)],
                                            ![Slot(n)] = stack_space[Slot(0)]]
    <3>1. n \in Nat \ {0}
      <4>1. padded_code(code, pc + 1) \in 0..255
        BY <2>2, PaddedType DEF IInv, Byte
      <4> QED  BY <4>1
    <3>2. \/ Halt("EVMC_STACK_UNDERFLOW", charged, rw_trace)
          \/ /\ height > n
             /\ Continue(pc + 2, charged, space,
                    TraceWrite(TraceWrite(TraceRead(TraceRead(rw_trace, Slot(n)), Slot(0)),
                                          Slot(0), space[Slot(0)]),
                               Slot(n), space[Slot(n)]))
      BY <2>7 DEF swapn
    <3> HIDE DEF n
    <3>3. height > n => Slot(0) \in Slots /\ Slot(n) \in Slots
      BY <2>2, <3>1 DEF Slot, Slots
    <3> QED  BY <2>1, <2>2, <3>2, <3>3, HaltKeeps, SwapKeeps DEF StatusCode
  <2> QED  BY <1>3, <2>3, <2>4, <2>5, <2>6, <2>7
<1> QED  BY <1>1, <1>2, <1>3 DEF Shuffle

\* The invariant holds when a frame starts.
LEMMA InitInv == Init => IInv
<1> SUFFICES ASSUME Init PROVE IInv
  OBVIOUS
<1>1. code \in Seq(Byte)
  BY ProgramAssumption DEF Init
<1>2. stack_space \in [0..StackLimit - 1 -> Word]
  BY WordTypes DEF Init
<1> QED  BY <1>1, <1>2, GasAssumption, LimitAssumption
         DEF Init, IInv, TypeOK, StackInBounds, StatusCode

\* Every step of a frame keeps the invariant.
LEMMA StepInv == IInv /\ [Next]_vars => IInv'
<1> SUFFICES ASSUME IInv, [Next]_vars PROVE IInv'
  OBVIOUS
<1>1. CASE Analyze
  BY <1>1, AnalyzeKeeps
<1>2. CASE RequirementsFail \/ NoSuchCase
  BY <1>2, FailKeeps
<1>3. CASE Operate
  BY <1>3, OperateKeeps
<1>4. CASE Consult
  BY <1>4, ConsultKeeps
<1>5. CASE Steer
  BY <1>5, SteerKeeps
<1>6. CASE Shuffle
  BY <1>6, ShuffleKeeps
<1>7. CASE UNCHANGED vars
  BY <1>7 DEF vars, IInv, TypeOK, StackInBounds
<1> QED  BY <1>1, <1>2, <1>3, <1>4, <1>5, <1>6, <1>7 DEF Next, Dispatch, Returned

\* IInv is an inductive invariant of the frame.
THEOREM Invariance == Spec => []IInv
BY InitInv, StepInv, PTL DEF Spec

\* The state of dispatch() and ExecutionState keeps its types, for every code,
\* stack limit and gas.
THEOREM TypeCorrect == Spec => []TypeOK
<1>1. IInv => TypeOK
  BY DEF IInv
<1> QED  BY <1>1, Invariance, PTL

\* stack_top never leaves m_stack_space: the overflow and underflow checks of
\* check_requirements are enough for every handler and every program.
THEOREM StackSafe == Spec => []StackInBounds
<1>1. IInv => StackInBounds
  BY DEF IInv
<1> QED  BY <1>1, Invariance, PTL

-----------------------------------------------------------------------------
(* The trace of a frame.                                                   *)

\* The trace t explains its reads: each has the value last written to its slot.
Coherent(t) ==
    \A n \in 1..Len(t) :
        ~ t[n].is_write => LastWritten(t, n, t[n].address, t[n].value)

\* It also tells what the first h slots of the stack hold.
Explained(t, space, h) ==
    /\ t \in Seq(Operation)
    /\ Coherent(t)
    /\ \A slot \in 0..h - 1 : LastWritten(t, Len(t) + 1, slot, space[slot])

\* What was last written before some row stays so when rows are appended.
LEMMA EarlierWrite ==
    ASSUME NEW t \in Seq(Operation), NEW o \in Operation, NEW n \in 1..Len(t) + 1,
           NEW slot, NEW value, LastWritten(t, n, slot, value)
    PROVE  LastWritten(Append(t, o), n, slot, value)
<1>1. Len(t) \in Nat /\ \A k \in 1..Len(t) : Append(t, o)[k] = t[k]
  OBVIOUS
<1>2. \A j \in 1..n - 1 : j \in 1..Len(t) /\ \A k \in j + 1..n - 1 : k \in 1..Len(t)
  BY <1>1
<1> QED  BY <1>1, <1>2 DEF LastWritten

\* A read, or a write of another slot, does not change what was last written.
LEMMA OtherWrite ==
    ASSUME NEW t \in Seq(Operation), NEW o \in Operation, NEW slot, NEW value,
           LastWritten(t, Len(t) + 1, slot, value), ~ (o.is_write /\ o.address = slot)
    PROVE  LastWritten(Append(t, o), Len(t) + 2, slot, value)
<1> DEFINE u == Append(t, o)
<1>1. Len(t) \in Nat /\ (\A k \in 1..Len(t) : u[k] = t[k]) /\ u[Len(t) + 1] = o
  OBVIOUS
<1> HIDE DEF u
<1>2. (Len(t) + 1) - 1 = Len(t) /\ (Len(t) + 2) - 1 = Len(t) + 1
  BY <1>1
<1>3. PICK j \in 1..Len(t) :
          /\ t[j].is_write /\ t[j].address = slot /\ t[j].value = value
          /\ \A k \in j + 1..Len(t) : ~ (t[k].is_write /\ t[k].address = slot)
  BY <1>2 DEF LastWritten
<1>4. \A k \in j + 1..Len(t) + 1 : ~ (u[k].is_write /\ u[k].address = slot)
  <2>1. \A k \in j + 1..Len(t) + 1 : (k \in j + 1..Len(t) /\ k \in 1..Len(t)) \/ k = Len(t) + 1
    BY <1>1
  <2> QED  BY <1>1, <1>3, <2>1
<1>5. j \in 1..Len(t) + 1 /\ u[j].is_write /\ u[j].address = slot /\ u[j].value = value
  BY <1>1, <1>3
<1>6. LastWritten(u, Len(t) + 2, slot, value)
  BY <1>2, <1>4, <1>5 DEF LastWritten
<1> QED  BY <1>6 DEF u

\* A write is the last one of its slot.
LEMMA NewWrite ==
    ASSUME NEW t \in Seq(Operation), NEW o \in Operation, o.is_write
    PROVE  LastWritten(Append(t, o), Len(t) + 2, o.address, o.value)
<1>1. Len(t) \in Nat /\ Append(t, o)[Len(t) + 1] = o
  OBVIOUS
<1>2. (Len(t) + 2) - 1 = Len(t) + 1 /\ Len(t) + 1 \in 1..Len(t) + 1
      /\ \A k \in (Len(t) + 1) + 1..Len(t) + 1 : FALSE
  BY <1>1
<1> QED  BY <1>1, <1>2 DEF LastWritten

\* Appending a write, or a read of what was last written, keeps a trace coherent.
LEMMA CoherentAppend ==
    ASSUME NEW t \in Seq(Operation), NEW o \in Operation, Coherent(t),
           ~ o.is_write => LastWritten(t, Len(t) + 1, o.address, o.value)
    PROVE  Coherent(Append(t, o))
<1> DEFINE u == Append(t, o)
<1>1. /\ Len(t) \in Nat /\ Len(u) = Len(t) + 1
      /\ (\A k \in 1..Len(t) : u[k] = t[k]) /\ u[Len(t) + 1] = o
  OBVIOUS
<1> HIDE DEF u
<1>2. ASSUME NEW n \in 1..Len(t), ~ u[n].is_write
      PROVE  LastWritten(u, n, u[n].address, u[n].value)
  <2>1. n \in 1..Len(t) + 1
    BY <1>1
  <2>2. LastWritten(t, n, t[n].address, t[n].value)
    BY <1>1, <1>2 DEF Coherent
  <2> QED  BY <1>1, <2>1, <2>2, EarlierWrite DEF u
<1>3. ~ o.is_write => LastWritten(u, Len(t) + 1, o.address, o.value)
  <2>1. Len(t) + 1 \in 1..Len(t) + 1
    BY <1>1
  <2> QED  BY <2>1, EarlierWrite DEF u
<1>4. \A n \in 1..Len(t) + 1 : n \in 1..Len(t) \/ n = Len(t) + 1
  BY <1>1
<1>5. Coherent(u)
  BY <1>1, <1>2, <1>3, <1>4 DEF Coherent
<1> QED  BY <1>5 DEF u

\* The operation that stack_operation makes of a slot carries the slot itself as its
\* address: the stack is small enough for uint16_t.
LEMMA SlotAddress ==
    ASSUME NEW slot \in 0..StackLimit, NEW n \in Nat, NEW value \in Word
    PROVE  /\ read_operation(slot, n, value) \in Operation
           /\ write_operation(slot, n, value) \in Operation
           /\ read_operation(slot, n, value).address = slot
           /\ write_operation(slot, n, value).address = slot
           /\ read_operation(slot, n, value).value = value
           /\ write_operation(slot, n, value).value = value
           /\ ~ read_operation(slot, n, value).is_write
           /\ write_operation(slot, n, value).is_write
<1>1. slot \in Int /\ to_uint16(slot) = slot
  BY LimitAssumption DEF to_uint16, Uint16Mod
<1>2. /\ read_operation(slot, n, value) \in Operation
      /\ write_operation(slot, n, value) \in Operation
  BY <1>1, OperationType
<1> QED  BY <1>1, <1>2 DEF read_operation, write_operation

\* Tracing a read of a live slot keeps the trace explained.
LEMMA ReadTells ==
    ASSUME NEW h \in 0..StackLimit, NEW space \in Space, NEW t, Explained(t, space, h),
           NEW slot \in 0..h - 1
    PROVE  Explained(TraceValue(t, slot, space[slot]), space, h)
<1> DEFINE o == read_operation(slot, Len(t), space[slot])
<1>1. t \in Seq(Operation) /\ Coherent(t) /\ Len(t) \in Nat
  BY DEF Explained
<1>2. slot \in 0..StackLimit /\ slot \in Slots
  BY LimitAssumption DEF Slots
<1>3. o \in Operation /\ o.address = slot /\ o.value = space[slot] /\ ~ o.is_write
  BY <1>1, <1>2, SlotAddress DEF Space
<1> HIDE DEF o
<1>4. Coherent(Append(t, o))
  BY <1>1, <1>3, CoherentAppend DEF Explained
<1>5. \A s \in 0..h - 1 : LastWritten(Append(t, o), Len(t) + 2, s, space[s])
  BY <1>1, <1>3, OtherWrite DEF Explained
<1>6. Append(t, o) \in Seq(Operation) /\ Len(Append(t, o)) + 1 = Len(t) + 2
  BY <1>1, <1>3
<1>7. Explained(Append(t, o), space, h)
  BY <1>4, <1>5, <1>6 DEF Explained
<1> QED  BY <1>7 DEF TraceValue, o

\* Tracing the value a slot is given keeps the trace explained, for a stack that
\* holds nothing else that is new.
LEMMA WriteTells ==
    ASSUME NEW h \in 0..StackLimit, NEW space, NEW t, Explained(t, space, h),
           NEW slot \in Slots, NEW value \in Word, NEW space2, NEW k \in 0..StackLimit,
           \A s \in 0..k - 1 : IF s = slot THEN space2[s] = value
                                           ELSE s < h /\ space2[s] = space[s]
    PROVE  Explained(TraceWrite(t, slot, value), space2, k)
<1> DEFINE o == write_operation(slot, Len(t), value)
<1>1. t \in Seq(Operation) /\ Coherent(t) /\ Len(t) \in Nat
  BY DEF Explained
<1>2. slot \in 0..StackLimit
  BY LimitAssumption DEF Slots
<1>3. o \in Operation /\ o.address = slot /\ o.value = value /\ o.is_write
  BY <1>1, <1>2, SlotAddress
<1> HIDE DEF o
<1>4. Coherent(Append(t, o))
  BY <1>1, <1>3, CoherentAppend
<1>5. ASSUME NEW s \in 0..k - 1 PROVE LastWritten(Append(t, o), Len(t) + 2, s, space2[s])
  <2>1. CASE s = slot
    BY <1>1, <1>3, <2>1, NewWrite
  <2>2. CASE s # slot
    <3>1. s \in 0..h - 1 /\ space2[s] = space[s]
      BY <2>2
    <3> QED  BY <1>1, <1>3, <2>2, <3>1, OtherWrite DEF Explained
  <2> QED  BY <2>1, <2>2
<1>6. Append(t, o) \in Seq(Operation) /\ Len(Append(t, o)) + 1 = Len(t) + 2
  BY <1>1, <1>3
<1>7. Explained(Append(t, o), space2, k)
  BY <1>4, <1>5, <1>6 DEF Explained
<1> QED  BY <1>7 DEF TraceWrite, o

\* What the trace tells of a stack it tells of a lower one.
LEMMA PopTells ==
    ASSUME NEW h \in Int, NEW space, NEW t, Explained(t, space, h), NEW k \in Int, k <= h
    PROVE  Explained(t, space, k)
<1>1. \A s \in 0..k - 1 : s \in 0..h - 1
  OBVIOUS
<1> QED  BY <1>1 DEF Explained

\* The trace so far tells what the stack holds.
TraceInv == Explained(rw_trace, stack_space, height)

\* The rows of the traits table for the changes handlers make to the height.
LEMMA HeightChanges ==
    ASSUME NEW op \in Byte
    PROVE  /\ op \in ArithOps \cup CompareOps \cup BitwiseOps \cup ShiftOps
                     \cup {ByteOp, OP_EXP, SignextendOp, OP_JUMP, PopOp} =>
                  stack_height_change[op] = -1
           /\ op \in {OP_JUMPI, OP_TSTORE, AddmodOp, OP_MULMOD} => stack_height_change[op] = -2
           /\ op = OP_LOG1 => stack_height_change[op] = -3 /\ stack_height_required[op] = 3
           /\ op \in LookupOps \cup AccountOps \cup SwapOps
                     \cup {IszeroOp, NotOp, OP_JUMPDEST, OP_SWAPN} =>
                  stack_height_change[op] = 0
           /\ op = PopOp => stack_height_required[op] = 1
BY SMTT(60) DEF stack_height_required, stack_height_change, Byte,
       LookupOps, AccountOps, MloadOps, MstoreOps, IszeroOp, NotOp, PopOp, OP_JUMP,
       OP_DUP, OP_SWAP, ArithOps, CompareOps, BitwiseOps, ShiftOps, OP_EXP,
       SignextendOp, ByteOp, OP_JUMPI, OP_TSTORE, CopyOps, AddmodOp, OP_MULMOD,
       OP_LOG1, DupOps, SwapOps, OP_DUP1, OP_SWAP1, EnvironmentOps, PushOps, OP_PUSH1,
       OP_PUSH32, CodesizeOp, OP_PC, OP_GAS, OP_PUSH0, OP_DUPN, OP_JUMPDEST, OP_SWAPN

\* A handler that goes on tells, if what it traced tells of the stack it leaves.
LEMMA ContinueTells ==
    ASSUME NEW position, NEW gas_left, NEW space, NEW trace,
           Explained(trace, space, height + stack_height_change[opcode]),
           Continue(position, gas_left, space, trace)
    PROVE  TraceInv'
BY DEF TraceInv, Continue, Explained

\* A handler that ends the frame leaves the stack as it is.
LEMMA HaltTells ==
    ASSUME NEW s, NEW gas_left, NEW trace, Explained(trace, stack_space, height),
           Halt(s, gas_left, trace)
    PROVE  TraceInv'
BY DEF TraceInv, Halt, Explained

\* Handlers of two operands.
LEMMA BinaryTells ==
    ASSUME IInv, TraceInv, check_requirements = "EVMC_SUCCESS",
           stack_height_required[opcode] = 2
    PROVE  /\ Explained(BinaryReads, stack_space, height)
           /\ height \in Nat /\ height >= 2
           /\ stack_height_change[opcode] = -1 =>
                  \A r \in Word : \A g : BinaryResult(r, g) => TraceInv'
<1>1. height \in 2..StackLimit /\ stack_space \in Space /\ StackLimit \in Nat
  BY Requirements, LimitAssumption DEF IInv, TypeOK, Space, Slots
<1>2. height \in 0..StackLimit /\ Slot(0) \in 0..height - 1 /\ Slot(1) \in 0..height - 1
  BY <1>1 DEF Slot
<1>3. Explained(BinaryReads, stack_space, height)
  BY <1>1, <1>2, ReadTells DEF BinaryReads, TraceRead, TraceInv
<1>4. ASSUME NEW r \in Word, NEW g, BinaryResult(r, g), stack_height_change[opcode] = -1
      PROVE  TraceInv'
  <2> DEFINE space == [stack_space EXCEPT ![Slot(1)] = r]
  <2>1. height - 1 \in 0..StackLimit /\ Slot(1) \in Slots
    BY <1>1 DEF Slot, Slots
  <2>2. \A s \in 0..(height - 1) - 1 : IF s = Slot(1) THEN space[s] = r
                                       ELSE s < height /\ space[s] = stack_space[s]
    BY <1>1, <2>1 DEF Space, Slots
  <2> HIDE DEF space
  <2>3. Explained(TraceWrite(BinaryReads, Slot(1), r), space, height - 1)
    BY <1>2, <1>3, <2>1, <2>2, WriteTells
  <2>4. height + stack_height_change[opcode] = height - 1
    BY <1>1, <1>4
  <2> QED  BY <1>4, <2>3, <2>4, ContinueTells DEF BinaryResult, space
<1> QED  BY <1>1, <1>3, <1>4

\* Handlers of one operand.
LEMMA UnaryTells ==
    ASSUME IInv, TraceInv, check_requirements = "EVMC_SUCCESS",
           stack_height_required[opcode] = 1
    PROVE  /\ Explained(TraceRead(rw_trace, Slot(0)), stack_space, height)
           /\ height \in Nat /\ height >= 1
           /\ stack_height_change[opcode] = 0 =>
                  \A r \in Word : \A g : UnaryResult(r, g) => TraceInv'
<1>1. height \in 1..StackLimit /\ stack_space \in Space /\ StackLimit \in Nat
  BY Requirements, LimitAssumption DEF IInv, TypeOK, Space, Slots
<1>2. height \in 0..StackLimit /\ Slot(0) \in 0..height - 1
  BY <1>1 DEF Slot
<1>3. Explained(TraceRead(rw_trace, Slot(0)), stack_space, height)
  BY <1>1, <1>2, ReadTells DEF TraceRead, TraceInv
<1>4. ASSUME NEW r \in Word, NEW g, UnaryResult(r, g), stack_height_change[opcode] = 0
      PROVE  TraceInv'
  <2> DEFINE space == [stack_space EXCEPT ![Slot(0)] = r]
  <2>1. Slot(0) \in Slots
    BY <1>1 DEF Slot, Slots
  <2>2. \A s \in 0..height - 1 : IF s = Slot(0) THEN space[s] = r
                                 ELSE s < height /\ space[s] = stack_space[s]
    BY <1>1, <2>1 DEF Space, Slots
  <2> HIDE DEF space
  <2>3. Explained(TraceWrite(TraceRead(rw_trace, Slot(0)), Slot(0), r), space, height)
    BY <1>2, <1>3, <2>1, <2>2, WriteTells
  <2>4. height + stack_height_change[opcode] = height
    BY <1>1, <1>4
  <2> QED  BY <1>4, <2>3, <2>4, ContinueTells DEF UnaryResult, space
<1> QED  BY <1>1, <1>3, <1>4

\* Handlers that push a word.
LEMMA PushTells ==
    ASSUME IInv, check_requirements = "EVMC_SUCCESS", stack_height_change[opcode] = 1,
           NEW t, Explained(t, stack_space, height), NEW r \in Word, NEW position, NEW g,
           Continue(position, g, [stack_space EXCEPT ![height] = r], TraceWrite(t, height, r))
    PROVE  TraceInv'
<1> DEFINE space == [stack_space EXCEPT ![height] = r]
<1>1. height \in Slots /\ stack_space \in Space /\ StackLimit \in Nat
  BY Requirements, LimitAssumption DEF IInv, TypeOK, Space, Slots
<1>2. height \in 0..StackLimit /\ height + 1 \in 0..StackLimit
  BY <1>1 DEF Slots
<1>3. \A s \in 0..(height + 1) - 1 : IF s = height THEN space[s] = r
                                     ELSE s < height /\ space[s] = stack_space[s]
  BY <1>1, <1>2 DEF Space, Slots
<1> HIDE DEF space
<1>4. Explained(TraceWrite(t, height, r), space, height + 1)
  BY <1>1, <1>2, <1>3, WriteTells
<1> QED  BY <1>4, ContinueTells DEF space

\* The instructions whose trace is not what they do: mulmod traces the top it leaves,
\* dup<0> and swap<0> use an index nobody checked, swap<N> traces a slot too high, and
\* push<Len> traces Len / 32 + Len % 32 writes.
Misreported ==
    {OP_MULMOD, OP_DUP, OP_SWAP} \cup SwapOps \cup (PushOps \ {OP_PUSH1, OP_PUSH32})

\* addmod.
LEMMA AddmodTells ==
    ASSUME IInv, TraceInv, addmod
    PROVE  TraceInv'
<1>1. check_requirements = "EVMC_SUCCESS" /\ opcode = AddmodOp
  BY DEF addmod, Executing
<1>2. stack_height_required[opcode] = 3 /\ stack_height_change[opcode] = -2
  BY <1>1, OpcodeType, OperandCounts, HeightChanges DEF IInv
<1>3. height \in 3..StackLimit /\ stack_space \in Space /\ StackLimit \in Nat
  BY <1>1, <1>2, Requirements, LimitAssumption DEF IInv, TypeOK, Space, Slots
<1>4. /\ height \in 0..StackLimit /\ Slot(0) \in 0..height - 1 /\ Slot(1) \in 0..height - 1
      /\ Slot(2) \in 0..height - 1 /\ Slot(2) \in Slots /\ Slot(2) = height - 3
      /\ height - 2 \in 0..StackLimit
  BY <1>3 DEF Slot, Slots
<1>5. Explained(TraceRead(rw_trace, Slot(2)), stack_space, height)
  BY <1>3, <1>4, ReadTells DEF TraceRead, TraceInv
<1>6. Explained(TraceRead(TraceRead(rw_trace, Slot(2)), Slot(1)), stack_space, height)
  BY <1>3, <1>4, <1>5, ReadTells DEF TraceRead
<1>7. Explained(TernaryReads, stack_space, height)
  BY <1>3, <1>4, <1>6, ReadTells DEF TernaryReads, TraceRead
<1>8. PICK r \in Results : Continue(pc + 1, charged, [stack_space EXCEPT ![Slot(2)] = r],
                                    TraceWrite(TernaryReads, Slot(2), r))
  BY DEF addmod
<1> DEFINE space == [stack_space EXCEPT ![Slot(2)] = r]
<1>9. r \in Word
  BY WordTypes
<1>10. \A s \in 0..(height - 2) - 1 : IF s = Slot(2) THEN space[s] = r
                                      ELSE s < height /\ space[s] = stack_space[s]
  BY <1>3, <1>4 DEF Space, Slots
<1> HIDE DEF space
<1>11. Explained(TraceWrite(TernaryReads, Slot(2), r), space, height - 2)
  BY <1>4, <1>7, <1>9, <1>10, WriteTells
<1>12. height + stack_height_change[opcode] = height - 2
  BY <1>2, <1>3
<1> QED  BY <1>8, <1>11, <1>12, ContinueTells DEF space

\* The arithmetic, comparison and bit handlers but mulmod.
LEMMA OperateTells ==
    ASSUME IInv, TraceInv, Operate, opcode \notin Misreported
    PROVE  TraceInv'
<1>1. opcode \in Byte
  BY OpcodeType DEF IInv
<1>2. CASE addmod
  BY <1>2, AddmodTells
<1>3. CASE mulmod
  BY <1>3 DEF mulmod, Executing, Misreported
<1>4. CASE Arith \/ signextend \/ Compare \/ Bitwise \/ ByteAndShift
  <2>1. /\ check_requirements = "EVMC_SUCCESS" /\ stack_height_required[opcode] = 2
        /\ stack_height_change[opcode] = -1
    BY <1>1, <1>4, OperandCounts, HeightChanges
       DEF Arith, signextend, Compare, Bitwise, ByteAndShift, Executing
  <2>2. \E r \in Word : BinaryResult(r, charged)
    BY <1>4, WordTypes DEF Arith, signextend, Compare, Bitwise, ByteAndShift
  <2> QED  BY <2>1, <2>2, BinaryTells
<1>5. CASE exp
  <2>1. /\ check_requirements = "EVMC_SUCCESS" /\ stack_height_required[opcode] = 2
        /\ stack_height_change[opcode] = -1
    BY <1>1, <1>5, OperandCounts, HeightChanges DEF exp, Executing
  <2>2. PICK n \in 0..WordBytes :
            LET gas_left == charged - n * (IF Rev >= SPURIOUS_DRAGON THEN 50 ELSE 10)
            IN  \/ Halt("EVMC_OUT_OF_GAS", gas_left, BinaryReads)
                \/ \E r \in Results : BinaryResult(r, gas_left)
    BY <1>5 DEF exp
  <2> QED  BY <2>1, <2>2, BinaryTells, HaltTells, WordTypes
<1>6. CASE iszero \/ not_
  <2>1. /\ check_requirements = "EVMC_SUCCESS" /\ stack_height_required[opcode] = 1
        /\ stack_height_change[opcode] = 0
    BY <1>1, <1>6, OperandCounts, HeightChanges DEF iszero, not_, Executing
  <2>2. \E r \in Word : UnaryResult(r, charged)
    BY <1>6, WordTypes DEF iszero, not_
  <2> QED  BY <2>1, <2>2, UnaryTells
<1> QED  BY <1>2, <1>3, <1>4, <1>5, <1>6 DEF Operate

\* The handlers that ask the message, the transaction or the host.
LEMMA ConsultTells ==
    ASSUME IInv, TraceInv, Consult
    PROVE  TraceInv'
<1>1. opcode \in Byte
  BY OpcodeType DEF IInv
<1>2. CASE Environment \/ codesize
  <2>1. check_requirements = "EVMC_SUCCESS" /\ stack_height_change[opcode] = 1
    BY <1>1, <1>2, OperandCounts DEF Environment, codesize, Executing
  <2>2. Len(code) \in Int
    BY DEF IInv, TypeOK
  <2>3. \E r \in Word : PushResult(r, pc + 1)
    BY <1>2, <2>2, WordTypes DEF Environment, codesize
  <2> QED  BY <2>1, <2>3, PushTells DEF PushResult, TraceInv
<1>3. CASE Lookup
  <2>1. /\ check_requirements = "EVMC_SUCCESS" /\ stack_height_required[opcode] = 1
        /\ stack_height_change[opcode] = 0
    BY <1>1, <1>3, OperandCounts, HeightChanges DEF Lookup, Executing
  <2> QED  BY <1>3, <2>1, WordTypes, UnaryTells DEF Lookup
<1>4. CASE AccountLookup
  <2>1. /\ check_requirements = "EVMC_SUCCESS" /\ stack_height_required[opcode] = 1
        /\ stack_height_change[opcode] = 0
    BY <1>1, <1>4, OperandCounts, HeightChanges DEF AccountLookup, Executing
  <2>2. PICK gas_left :
            \/ Halt("EVMC_OUT_OF_GAS", gas_left, TraceRead(rw_trace, Slot(0)))
            \/ \E r \in Results : UnaryResult(r, gas_left)
    BY <1>4 DEF AccountLookup
  <2> QED  BY <2>1, <2>2, WordTypes, UnaryTells, HaltTells
<1>5. CASE tstore
  <2>1. /\ check_requirements = "EVMC_SUCCESS" /\ stack_height_required[opcode] = 2
        /\ stack_height_change[opcode] = -2
    BY <1>1, <1>5, OperandCounts, HeightChanges DEF tstore, Executing
  <2>2. /\ Explained(BinaryReads, stack_space, height)
        /\ Explained(BinaryReads, stack_space, height + stack_height_change[opcode])
    BY <2>1, BinaryTells, PopTells
  <2>3. \/ Halt("EVMC_STATIC_MODE_VIOLATION", 0, rw_trace)
        \/ Continue(pc + 1, charged, stack_space, BinaryReads)
    BY <1>5 DEF tstore
  <2> QED  BY <2>2, <2>3, HaltTells, ContinueTells DEF TraceInv
<1> QED  BY <1>2, <1>3, <1>4, <1>5 DEF Consult

\* The handlers that move the program counter.
LEMMA SteerTells ==
    ASSUME IInv, TraceInv, Steer
    PROVE  TraceInv'
<1>1. opcode \in Byte /\ height \in Int
  BY OpcodeType DEF IInv, TypeOK
<1>2. CASE Stop
  BY <1>2, HaltTells DEF Stop, TraceInv
<1>3. CASE jump
  <2>1. /\ check_requirements = "EVMC_SUCCESS" /\ stack_height_required[opcode] = 1
        /\ stack_height_change[opcode] = -1
    BY <1>1, <1>3, OperandCounts, HeightChanges DEF jump, Executing
  <2> DEFINE trace == TraceRead(rw_trace, Slot(0))
  <2>2. /\ Explained(trace, stack_space, height)
        /\ Explained(trace, stack_space, height + stack_height_change[opcode])
    BY <2>1, UnaryTells, PopTells
  <2> HIDE DEF trace
  <2>3. jump_impl(stack_space[Slot(0)], trace)
    BY <1>3 DEF jump, trace
  <2> QED  BY <2>2, <2>3, HaltTells, ContinueTells DEF jump_impl
<1>4. CASE jumpi
  <2>1. /\ check_requirements = "EVMC_SUCCESS" /\ stack_height_required[opcode] = 2
        /\ stack_height_change[opcode] = -2
    BY <1>1, <1>4, OperandCounts, HeightChanges DEF jumpi, Executing
  <2>2. /\ Explained(BinaryReads, stack_space, height)
        /\ Explained(BinaryReads, stack_space, height + stack_height_change[opcode])
    BY <2>1, BinaryTells, PopTells
  <2>3. \/ jump_impl(stack_space[Slot(0)], BinaryReads)
        \/ Continue(pc + 1, charged, stack_space, BinaryReads)
    BY <1>4 DEF jumpi
  <2> QED  BY <2>2, <2>3, HaltTells, ContinueTells DEF jump_impl
<1>5. CASE pc_ \/ gas_
  <2>1. check_requirements = "EVMC_SUCCESS" /\ stack_height_change[opcode] = 1
    BY <1>1, <1>5, OperandCounts DEF pc_, gas_, Executing
  <2>2. charged \in Int /\ pc \in Int
    BY <2>1, Requirements DEF IInv, TypeOK
  <2>3. \E r \in Word : PushResult(r, pc + 1)
    BY <1>5, <2>2, WordTypes DEF pc_, gas_
  <2> QED  BY <2>1, <2>3, PushTells DEF PushResult, TraceInv
<1>6. CASE PopJumpdest \/ log
  <2>1. Continue(pc + 1, charged, stack_space, rw_trace)
    BY <1>6 DEF PopJumpdest, log
  <2>2. stack_height_change[opcode] \in {-1, 0, -3}
    BY <1>1, <1>6, HeightChanges DEF PopJumpdest, log, Executing
  <2>3. Explained(rw_trace, stack_space, height + stack_height_change[opcode])
    <3>1. height + stack_height_change[opcode] \in Int /\ height + stack_height_change[opcode] <= height
      BY <1>1, <2>2
    <3> QED  BY <1>1, <3>1, PopTells DEF TraceInv
  <2> QED  BY <2>1, <2>3, ContinueTells
<1> QED  BY <1>2, <1>3, <1>4, <1>5, <1>6 DEF Steer

\* PUSH1 and PUSH32 trace the one write they make.
LEMMA PushOnce ==
    ASSUME IInv, push, opcode \in {OP_PUSH1, OP_PUSH32}
    PROVE  /\ check_requirements = "EVMC_SUCCESS" /\ stack_height_change[opcode] = 1
           /\ \E r \in Word : \E position :
                  Continue(position, charged, [stack_space EXCEPT ![height] = r],
                           TraceWrite(rw_trace, height, r))
<1> DEFINE len   == opcode - (OP_PUSH1 - 1)
           words == (len \div WordBytes) + (len % WordBytes)
           r     == PushData(pc, len)
           space == [stack_space EXCEPT ![height] = r]
<1>1. check_requirements = "EVMC_SUCCESS" /\ opcode \in {OP_PUSH1, OP_PUSH32}
  BY DEF push, Executing
<1>2. len \in Nat /\ words = 1
  BY <1>1 DEF OP_PUSH1, OP_PUSH32, WordBytes
<1>3. stack_height_change[opcode] = 1
  BY <1>1, OpcodeType, OperandCounts DEF IInv, push, Executing
<1>4. height \in Slots /\ stack_space \in Space /\ StackLimit \in Nat /\ height \in Nat
  BY <1>1, <1>3, Requirements, LimitAssumption DEF IInv, TypeOK, Space, Slots
<1>5. PICK stray :
          Continue(pc + len + 1, charged, space,
              rw_trace \o
              [i \in 1..words |->
                  LET slot == height + 1 - i
                  IN  write_operation(slot, Len(rw_trace) + i - 1,
                          IF slot >= 0 THEN space[slot] ELSE stray[slot])])
  BY DEF push
<1>6. r \in Word
  BY <1>2, PushDataType DEF IInv, TypeOK
<1>7. space[height] = r
  BY <1>4 DEF Space
<1> HIDE DEF len, r, space
<1> DEFINE row(i) == LET slot == height + 1 - i
                     IN  write_operation(slot, Len(rw_trace) + i - 1,
                             IF slot >= 0 THEN space[slot] ELSE stray[slot])
<1>8. row(1) = write_operation(height, Len(rw_trace), r)
  <2>1. height + 1 - 1 = height /\ height >= 0 /\ Len(rw_trace) + 1 - 1 = Len(rw_trace)
    <3>1. Len(rw_trace) \in Nat
      BY DEF IInv, TypeOK
    <3> QED  BY <1>4, <3>1
  <2> QED  BY <1>7, <2>1
<1>9. row(1) \in Operation
  <2>1. height \in 0..StackLimit
    BY <1>4 DEF Slots
  <2>2. Len(rw_trace) \in Nat
    BY DEF IInv, TypeOK
  <2> QED  BY <1>6, <1>8, <2>1, <2>2, SlotAddress
<1> HIDE DEF row
<1>10. rw_trace \o [i \in 1..1 |-> row(i)] = TraceWrite(rw_trace, height, r)
  <2>1. rw_trace \in Seq(Operation)
    BY DEF IInv, TypeOK
  <2>2. [i \in 1..1 |-> row(i)] = <<row(1)>>
    OBVIOUS
  <2>3. rw_trace \o <<row(1)>> = Append(rw_trace, row(1))
    BY <1>9, <2>1
  <2> QED  BY <1>8, <2>2, <2>3 DEF TraceWrite
<1>11. Continue(pc + len + 1, charged, space, TraceWrite(rw_trace, height, r))
  BY <1>2, <1>5, <1>10 DEF row
<1> QED  BY <1>1, <1>3, <1>6, <1>11 DEF space

\* The push handlers that report what they do.
LEMMA PushOpTells ==
    ASSUME IInv, TraceInv, push, opcode \notin Misreported
    PROVE  TraceInv'
<1>1. opcode \in {OP_PUSH1, OP_PUSH32}
  BY DEF push, Executing, Misreported
<1> QED  BY <1>1, PushOnce, PushTells DEF TraceInv

\* dup<N> and dupn copy a live slot above the top.
LEMMA DupTells ==
    ASSUME IInv, TraceInv, check_requirements = "EVMC_SUCCESS",
           stack_height_change[opcode] = 1, NEW position, NEW slot \in 0..height - 1,
           Continue(position, charged, [stack_space EXCEPT ![height] = stack_space[slot]],
                    TraceWrite(TraceRead(rw_trace, slot), height, stack_space[slot]))
    PROVE  TraceInv'
<1>1. height \in 0..StackLimit /\ stack_space \in Space /\ slot \in Slots
  BY Requirements, LimitAssumption DEF IInv, TypeOK, Space, Slots
<1>2. Explained(TraceRead(rw_trace, slot), stack_space, height)
  BY <1>1, ReadTells DEF TraceRead, TraceInv
<1>3. stack_space[slot] \in Word
  BY <1>1 DEF Space
<1> DEFINE r == stack_space[slot]
           t == TraceRead(rw_trace, slot)
<1>4. Continue(position, charged, [stack_space EXCEPT ![height] = r],
               TraceWrite(t, height, r))
  OBVIOUS
<1> HIDE DEF r, t
<1> QED  BY <1>2, <1>3, <1>4, PushTells DEF r, t

\* Tracing the two writes of an exchange keeps the trace explained.
LEMMA ExchangeTells ==
    ASSUME NEW h \in 0..StackLimit, NEW old \in Space, NEW t, Explained(t, old, h),
           NEW a \in Slots, NEW b \in Slots, a # b,
           NEW after, after[a] = old[b], after[b] = old[a],
           \A s \in Slots : s # a /\ s # b => after[s] = old[s]
    PROVE  Explained(TraceWrite(TraceWrite(t, a, after[a]), b, after[b]), after, h)
<1> DEFINE between == [old EXCEPT ![a] = after[a]]
           u       == TraceWrite(t, a, after[a])
<1>1. after[a] \in Word /\ after[b] \in Word
  BY DEF Space
<1>2. \A s \in 0..h - 1 : s \in Slots /\ s < h
  BY LimitAssumption DEF Slots
<1>3. /\ \A s \in Slots : s # a /\ s # b => after[s] = old[s]
      /\ between[a] = after[a]
      /\ \A s \in Slots : s # a => between[s] = old[s]
  BY DEF Space
<1> HIDE DEF between
<1>4. \A s \in 0..h - 1 : IF s = a THEN between[s] = after[a]
                         ELSE s < h /\ between[s] = old[s]
  BY <1>2, <1>3
<1>5. Explained(u, between, h)
  BY <1>1, <1>4, WriteTells
<1> HIDE DEF u
<1>6. \A s \in 0..h - 1 : IF s = b THEN after[s] = after[b]
                         ELSE s < h /\ after[s] = between[s]
  BY <1>2, <1>3
<1>7. Explained(TraceWrite(u, b, after[b]), after, h)
  BY <1>1, <1>5, <1>6, WriteTells
<1> QED  BY <1>7 DEF u

\* swapn exchanges the top with a live slot below it.
LEMMA SwapTells ==
    ASSUME IInv, TraceInv, NEW position, NEW slot \in 0..height - 2,
           NEW after, after[Slot(0)] = stack_space[slot], after[slot] = stack_space[Slot(0)],
           \A s \in Slots : s # Slot(0) /\ s # slot => after[s] = stack_space[s],
           stack_height_change[opcode] = 0,
           Continue(position, charged, after,
               TraceWrite(
                   TraceWrite(TraceRead(TraceRead(rw_trace, slot), Slot(0)),
                              Slot(0), after[Slot(0)]),
                   slot, after[slot]))
    PROVE  TraceInv'
<1> DEFINE t == TraceRead(TraceRead(rw_trace, slot), Slot(0))
<1>1. /\ height \in 0..StackLimit /\ stack_space \in Space /\ height \in Int
      /\ StackLimit \in Nat
  BY LimitAssumption DEF IInv, TypeOK, StackInBounds, Space, Slots
<1>2. /\ Slot(0) \in 0..height - 1 /\ slot \in 0..height - 1 /\ Slot(0) # slot
      /\ Slot(0) \in Slots /\ slot \in Slots
  BY <1>1 DEF Slot, Slots
<1>3. Explained(t, stack_space, height)
  BY <1>1, <1>2, ReadTells DEF TraceRead, TraceInv
<1>4. height + stack_height_change[opcode] = height
  BY <1>1
<1>5. Continue(position, charged, after,
               TraceWrite(TraceWrite(t, Slot(0), after[Slot(0)]), slot, after[slot]))
  OBVIOUS
<1> HIDE DEF t
<1>6. Explained(TraceWrite(TraceWrite(t, Slot(0), after[Slot(0)]), slot, after[slot]),
                after, height)
  BY <1>1, <1>2, <1>3, ExchangeTells
<1> QED  BY <1>4, <1>5, <1>6, ContinueTells

\* The push, duplicate and swap handlers that report what they do.
LEMMA ShuffleTells ==
    ASSUME IInv, TraceInv, Shuffle, opcode \notin Misreported
    PROVE  TraceInv'
<1>1. opcode \in Byte /\ height \in Int /\ pc \in Nat /\ height >= 0
  BY OpcodeType, LimitAssumption DEF IInv, TypeOK, StackInBounds
<1>2. CASE push0
  <2>1. check_requirements = "EVMC_SUCCESS" /\ stack_height_change[opcode] = 1
    BY <1>1, <1>2, OperandCounts DEF push0, Executing
  <2> QED  BY <1>2, <2>1, WordTypes, PushTells DEF push0, PushResult, TraceInv
<1>3. CASE push
  BY <1>3, PushOpTells
<1>4. CASE dup
  <2>1. /\ check_requirements = "EVMC_SUCCESS" /\ stack_height_change[opcode] = 1
        /\ stack_height_required[opcode] = opcode - (OP_DUP1 - 1)
        /\ opcode \in DupOps
    BY <1>1, <1>4, OperandCounts DEF dup, Executing
  <2>2. height - (opcode - (OP_DUP1 - 1)) \in 0..height - 1
    <3>1. height >= opcode - (OP_DUP1 - 1)
      BY <2>1, Requirements DEF IInv
    <3> QED  BY <1>1, <2>1, <3>1 DEF DupOps, OP_DUP1
  <2> QED  BY <1>4, <2>1, <2>2, DupTells DEF dup
<1>5. CASE dupn
  <2> DEFINE n == padded_code(code, pc + 1) + 1
  <2>1. check_requirements = "EVMC_SUCCESS" /\ stack_height_change[opcode] = 1
    BY <1>1, <1>5, OperandCounts DEF dupn, Executing
  <2>2. n \in Nat /\ n >= 1
    BY <1>1, PaddedType DEF IInv, Byte
  <2>3. \/ Halt("EVMC_STACK_UNDERFLOW", charged, rw_trace)
        \/ /\ height >= n
           /\ Continue(pc + 2, charged,
                  [stack_space EXCEPT ![height] = stack_space[height - n]],
                  TraceWrite(TraceRead(rw_trace, height - n), height,
                             stack_space[height - n]))
    BY <1>5 DEF dupn
  <2> HIDE DEF n
  <2>4. height >= n => height - n \in 0..height - 1
    BY <1>1, <2>2
  <2> QED  BY <2>1, <2>3, <2>4, DupTells, HaltTells DEF TraceInv
<1>6. CASE swapn
  <2> DEFINE n     == padded_code(code, pc + 1) + 1
             space == [stack_space EXCEPT ![Slot(0)] = stack_space[Slot(n)],
                                          ![Slot(n)] = stack_space[Slot(0)]]
  <2>1. stack_height_change[opcode] = 0
    BY <1>1, <1>6, HeightChanges DEF swapn, Executing
  <2>2. n \in Nat /\ n >= 1
    BY <1>1, PaddedType DEF IInv, Byte
  <2>3. \/ Halt("EVMC_STACK_UNDERFLOW", charged, rw_trace)
        \/ /\ height > n
           /\ Continue(pc + 2, charged, space,
                  TraceWrite(
                      TraceWrite(TraceRead(TraceRead(rw_trace, Slot(n)), Slot(0)),
                                 Slot(0), space[Slot(0)]),
                      Slot(n), space[Slot(n)]))
    BY <1>6 DEF swapn
  <2> HIDE DEF n
  <2>4. height > n => Slot(n) \in 0..height - 2 /\ Slot(n) \in Slots /\ Slot(0) \in Slots
    BY <1>1, <2>2, LimitAssumption DEF Slot, Slots, IInv, StackInBounds
  <2>5. height > n => /\ space[Slot(0)] = stack_space[Slot(n)]
                      /\ space[Slot(n)] = stack_space[Slot(0)]
                      /\ \A s \in Slots : s # Slot(0) /\ s # Slot(n) =>
                                             space[s] = stack_space[s]
    BY <2>4 DEF IInv, TypeOK, Slots
  <2> HIDE DEF space
  <2> QED  BY <2>1, <2>3, <2>4, <2>5, SwapTells, HaltTells DEF TraceInv
<1>7. CASE dup_indexed \/ swap \/ swap_indexed
  BY <1>7 DEF dup_indexed, swap, swap_indexed, Executing, Misreported
<1> QED  BY <1>2, <1>3, <1>4, <1>5, <1>6, <1>7 DEF Shuffle

\* A frame starts with an empty stack and nothing traced.
LEMMA InitTells == Init => TraceInv
<1> SUFFICES ASSUME Init PROVE TraceInv
  OBVIOUS
<1>1. rw_trace = << >> /\ height = 0
  BY DEF Init
<1>2. Len(rw_trace) = 0 /\ rw_trace \in Seq(Operation)
  BY <1>1
<1>3. (\A n \in 1..0 : FALSE) /\ (\A s \in 0..0 - 1 : FALSE)
  OBVIOUS
<1> QED  BY <1>1, <1>2, <1>3 DEF TraceInv, Explained, Coherent

\* The handler about to run, if any, is not one of those.
Reporting == ~ Executing(Misreported)

\* Every other step keeps the trace explained.
LEMMA StepTells == IInv /\ TraceInv /\ Reporting /\ [Next]_vars => TraceInv'
<1> SUFFICES ASSUME IInv, TraceInv, Reporting, [Next]_vars PROVE TraceInv'
  OBVIOUS
<1>1. CASE Analyze
  BY <1>1 DEF Analyze, AnalyzeStep, AnalyzeDone, TraceInv
<1>2. CASE RequirementsFail \/ NoSuchCase
  BY <1>2, HaltTells DEF RequirementsFail, NoSuchCase, TraceInv
<1>3. ASSUME Operate \/ Shuffle PROVE opcode \notin Misreported
  <2>1. \E ops : Executing(ops)
    BY <1>3 DEF Operate, Arith, addmod, mulmod, exp, signextend, Compare, iszero, Bitwise,
           not_, ByteAndShift, Shuffle, push0, push, dup, dup_indexed, swap, swap_indexed,
           dupn, swapn
  <2> QED  BY <2>1 DEF Executing, Reporting
<1>4. CASE Operate
  BY <1>3, <1>4, OperateTells
<1>5. CASE Consult
  BY <1>5, ConsultTells
<1>6. CASE Steer
  BY <1>6, SteerTells
<1>7. CASE Shuffle
  BY <1>3, <1>7, ShuffleTells
<1>8. CASE UNCHANGED vars
  BY <1>8 DEF vars, TraceInv
<1> QED  BY <1>1, <1>2, <1>4, <1>5, <1>6, <1>7, <1>8 DEF Next, Dispatch, Returned

\* As long as no such handler runs, the trace explains its reads and the stack.
LEMMA TraceInvariance == Spec /\ []Reporting => []TraceInv
BY Invariance, InitTells, StepTells, PTL DEF Spec

\* Every stack read a frame traces has the value of the last traced write to its
\* address, for every code, stack limit and gas, as long as no handler of Misreported
\* runs: the memory argument of the RW circuit accepts the stack part of rw_trace.
THEOREM ReadsExplained == Spec /\ []Reporting => []TraceCoherent
<1>1. TraceInv => TraceCoherent
  BY DEF TraceInv, Explained, Coherent, TraceCoherent
<1> QED  BY <1>1, TraceInvariance, PTL

\* And the trace accounts for the stack: no other handler changes a live slot without
\* tracing a write of what it put there.
THEOREM StackExplained == Spec /\ []Reporting => []StackTraced
<1>1. TraceInv => StackTraced
  BY DEF TraceInv, Explained, StackTraced
<1> QED  BY <1>1, TraceInvariance, PTL

-----------------------------------------------------------------------------
(* What an instruction touches.                                            *)

\* The lowest slot of the operands the traits of the instruction declare.
Lowest == height - stack_height_required[opcode]

\* The trace t goes on from rw_trace with operations on declared slots, or on the slot
\* above the top.
Within(t) ==
    /\ t \in Seq(Operation)
    /\ Len(rw_trace) <= Len(t)
    /\ \A n \in Len(rw_trace) + 1..Len(t) : t[n].address \in Lowest..height

\* The step stays inside what the traits declare: the body of OperandsDeclared.
Declared ==
    phase = "dispatch" /\ phase' = "dispatch" =>
        LET lowest == height - stack_height_required[opcode]
        IN  /\ \A i \in Len(rw_trace) + 1..Len(rw_trace') :
                   rw_trace'[i].address \in lowest..height
            /\ \A slot \in 0..StackLimit - 1 :
                   stack_space'[slot] # stack_space[slot] =>
                       slot \in lowest..height' - 1

\* The operands declared are on the stack.
LEMMA LowestType ==
    ASSUME IInv, check_requirements = "EVMC_SUCCESS"
    PROVE  /\ height \in 0..StackLimit /\ height \in Nat /\ StackLimit \in Nat
           /\ stack_height_required[opcode] \in Nat /\ opcode \in Byte
           /\ Lowest \in Nat /\ Lowest <= height
           /\ stack_space \in Space
<1>1. /\ opcode \in Byte /\ height \in Nat /\ height <= StackLimit
      /\ height >= stack_height_required[opcode]
  BY Requirements DEF IInv
<1>2. stack_height_required[opcode] \in Nat
  BY <1>1, HeightTraits
<1>3. StackLimit \in Nat
  BY LimitAssumption
<1> QED  BY <1>1, <1>2, <1>3 DEF Lowest, IInv, TypeOK, Space, Slots

\* Appending one more operation on such a slot.
LEMMA WithinAppend ==
    ASSUME IInv, check_requirements = "EVMC_SUCCESS", NEW t, Within(t),
           NEW slot \in Lowest..height, NEW value \in Word
    PROVE  Within(TraceValue(t, slot, value)) /\ Within(TraceWrite(t, slot, value))
<1>1. t \in Seq(Operation) /\ Len(t) \in Nat /\ Len(rw_trace) \in Nat
  BY DEF Within, IInv, TypeOK
<1>2. slot \in 0..StackLimit
  BY LowestType
<1>3. ASSUME NEW o \in Operation, o.address = slot PROVE Within(Append(t, o))
  <2>1. /\ Append(t, o) \in Seq(Operation) /\ Len(Append(t, o)) = Len(t) + 1
        /\ (\A k \in 1..Len(t) : Append(t, o)[k] = t[k])
        /\ Append(t, o)[Len(t) + 1] = o
    BY <1>1
  <2> DEFINE u == Append(t, o)
  <2> HIDE DEF u
  <2>2. ASSUME NEW n \in Len(rw_trace) + 1..Len(t) + 1
        PROVE  u[n].address \in Lowest..height
    <3>1. CASE n = Len(t) + 1
      BY <1>3, <2>1, <3>1 DEF u
    <3>2. CASE n # Len(t) + 1
      <4>1. n \in Len(rw_trace) + 1..Len(t) /\ n \in 1..Len(t)
        BY <1>1, <3>2
      <4> QED  BY <2>1, <4>1 DEF u, Within
    <3> QED  BY <3>1, <3>2
  <2>3. u \in Seq(Operation) /\ Len(u) = Len(t) + 1 /\ Len(rw_trace) <= Len(t) + 1
    BY <1>1, <2>1 DEF u, Within
  <2>4. Within(u)
    BY <2>2, <2>3 DEF Within
  <2> QED  BY <2>4 DEF u
<1> QED  BY <1>1, <1>2, <1>3, SlotAddress DEF TraceValue, TraceWrite

\* Appending a read of an operand.
LEMMA WithinRead ==
    ASSUME IInv, check_requirements = "EVMC_SUCCESS", NEW t, Within(t),
           NEW slot \in Lowest..height - 1
    PROVE  Within(TraceRead(t, slot))
<1>1. slot \in Lowest..height /\ slot \in Slots
  BY LowestType DEF Slots
<1>2. stack_space[slot] \in Word
  BY <1>1, LowestType DEF Space
<1> QED  BY <1>1, <1>2, WithinAppend DEF TraceRead

\* Nothing appended yet.
LEMMA WithinStart == IInv => Within(rw_trace)
<1> SUFFICES ASSUME IInv PROVE Within(rw_trace)
  OBVIOUS
<1>1. rw_trace \in Seq(Operation)
  BY DEF IInv, TypeOK
<1>2. Len(rw_trace) \in Nat
  BY <1>1
<1> QED  BY <1>1, <1>2 DEF Within

\* A handler that goes on stays inside, if its trace and what it changes do.
LEMMA ContinueDeclares ==
    ASSUME NEW position, NEW gas_left, NEW space, NEW trace, Within(trace),
           \A s \in Slots : space[s] # stack_space[s] =>
                              s \in Lowest..(height + stack_height_change[opcode]) - 1,
           Continue(position, gas_left, space, trace)
    PROVE  Declared
BY DEF Declared, Within, Continue, Slots, Lowest

\* A handler that ends the frame declares nothing.
LEMMA HaltDeclares ==
    ASSUME NEW s, NEW gas_left, NEW trace, Halt(s, gas_left, trace)
    PROVE  Declared
BY DEF Declared, Halt

\* Handlers of two operands.
LEMMA BinaryDeclares ==
    ASSUME IInv, check_requirements = "EVMC_SUCCESS", stack_height_required[opcode] = 2
    PROVE  /\ Within(BinaryReads)
           /\ stack_height_change[opcode] = -1 =>
                  \A r \in Word : \A g : BinaryResult(r, g) => Declared
<1>1. /\ height \in Nat /\ height >= 2 /\ Lowest = height - 2 /\ stack_space \in Space
      /\ Slot(1) = height - 2 /\ Slot(0) = height - 1
  BY LowestType DEF Lowest, Slot
<1>2. /\ Slot(0) \in Lowest..height - 1 /\ Slot(1) \in Lowest..height - 1
      /\ Slot(1) \in Lowest..height
  BY <1>1
<1>3. Within(BinaryReads)
  BY <1>2, WithinStart, WithinRead DEF BinaryReads
<1>4. ASSUME NEW r \in Word, NEW g, BinaryResult(r, g), stack_height_change[opcode] = -1
      PROVE  Declared
  <2> DEFINE space == [stack_space EXCEPT ![Slot(1)] = r]
             trace == TraceWrite(BinaryReads, Slot(1), r)
  <2>1. Within(trace)
    BY <1>2, <1>3, WithinAppend
  <2>2. \A s \in Slots : space[s] # stack_space[s] =>
                             s \in Lowest..(height + stack_height_change[opcode]) - 1
    <3>1. \A s \in Slots : space[s] # stack_space[s] => s = Slot(1)
      BY <1>1 DEF Space
    <3>2. Slot(1) \in Lowest..(height + stack_height_change[opcode]) - 1
      BY <1>1, <1>4
    <3> QED  BY <3>1, <3>2
  <2>3. Continue(pc + 1, g, space, trace)
    BY <1>4 DEF BinaryResult
  <2> HIDE DEF space, trace
  <2> QED  BY <2>1, <2>2, <2>3, ContinueDeclares
<1> QED  BY <1>3, <1>4

\* Handlers of one operand.
LEMMA UnaryDeclares ==
    ASSUME IInv, check_requirements = "EVMC_SUCCESS", stack_height_required[opcode] = 1
    PROVE  /\ Within(TraceRead(rw_trace, Slot(0)))
           /\ stack_height_change[opcode] = 0 =>
                  \A r \in Word : \A g : UnaryResult(r, g) => Declared
<1>1. /\ height \in Nat /\ height >= 1 /\ Lowest = height - 1 /\ stack_space \in Space
      /\ Slot(0) = height - 1
  BY LowestType DEF Lowest, Slot
<1>2. Slot(0) \in Lowest..height - 1 /\ Slot(0) \in Lowest..height
  BY <1>1
<1>3. Within(TraceRead(rw_trace, Slot(0)))
  BY <1>2, WithinStart, WithinRead
<1>4. ASSUME NEW r \in Word, NEW g, UnaryResult(r, g), stack_height_change[opcode] = 0
      PROVE  Declared
  <2> DEFINE space == [stack_space EXCEPT ![Slot(0)] = r]
             trace == TraceWrite(TraceRead(rw_trace, Slot(0)), Slot(0), r)
  <2>1. Within(trace)
    BY <1>2, <1>3, WithinAppend
  <2>2. \A s \in Slots : space[s] # stack_space[s] =>
                             s \in Lowest..(height + stack_height_change[opcode]) - 1
    <3>1. \A s \in Slots : space[s] # stack_space[s] => s = Slot(0)
      BY <1>1 DEF Space
    <3>2. Slot(0) \in Lowest..(height + stack_height_change[opcode]) - 1
      BY <1>1, <1>4
    <3> QED  BY <3>1, <3>2
  <2>3. Continue(pc + 1, g, space, trace)
    BY <1>4 DEF UnaryResult
  <2> HIDE DEF space, trace
  <2> QED  BY <2>1, <2>2, <2>3, ContinueDeclares
<1> QED  BY <1>3, <1>4

\* Handlers that push a word.
LEMMA PushDeclares ==
    ASSUME IInv, check_requirements = "EVMC_SUCCESS", stack_height_change[opcode] = 1,
           NEW t, Within(t), NEW r \in Word, NEW position, NEW g,
           Continue(position, g, [stack_space EXCEPT ![height] = r], TraceWrite(t, height, r))
    PROVE  Declared
<1> DEFINE space == [stack_space EXCEPT ![height] = r]
           trace == TraceWrite(t, height, r)
<1>1. height \in Nat /\ Lowest \in Nat /\ Lowest <= height /\ stack_space \in Space
  BY LowestType
<1>2. Within(trace)
  BY <1>1, WithinAppend
<1>3. \A s \in Slots : space[s] # stack_space[s] =>
                           s \in Lowest..(height + stack_height_change[opcode]) - 1
  <2>1. \A s \in Slots : space[s] # stack_space[s] => s = height
    BY <1>1 DEF Space
  <2> QED  BY <1>1, <2>1
<1>4. Continue(position, g, space, trace)
  OBVIOUS
<1> HIDE DEF space, trace
<1> QED  BY <1>2, <1>3, <1>4, ContinueDeclares

\* addmod and mulmod, wherever among their operands the result is traced.
LEMMA TernaryDeclares ==
    ASSUME IInv, addmod \/ mulmod
    PROVE  Declared
<1>1. check_requirements = "EVMC_SUCCESS" /\ opcode \in {AddmodOp, OP_MULMOD}
  BY DEF addmod, mulmod, Executing
<1>2. stack_height_required[opcode] = 3 /\ stack_height_change[opcode] = -2
  BY <1>1, OpcodeType, OperandCounts, HeightChanges DEF IInv
<1>3. /\ height \in Nat /\ height >= 3 /\ Lowest = height - 3 /\ stack_space \in Space
      /\ Slot(2) = height - 3 /\ Slot(1) = height - 2 /\ Slot(0) = height - 1
  BY <1>1, <1>2, LowestType DEF Lowest, Slot
<1>4. /\ Slot(0) \in Lowest..height - 1 /\ Slot(1) \in Lowest..height - 1
      /\ Slot(2) \in Lowest..height - 1 /\ Slot(0) \in Lowest..height
      /\ Slot(2) \in Lowest..height
  BY <1>3
<1>5. Within(TernaryReads)
  <2>1. Within(TraceRead(rw_trace, Slot(2)))
    BY <1>1, <1>4, WithinStart, WithinRead
  <2>2. Within(TraceRead(TraceRead(rw_trace, Slot(2)), Slot(1)))
    BY <1>1, <1>4, <2>1, WithinRead
  <2> QED  BY <1>1, <1>4, <2>2, WithinRead DEF TernaryReads
<1>6. PICK r \in Word, slot \in {Slot(0), Slot(2)}, value \in Word :
          Continue(pc + 1, charged, [stack_space EXCEPT ![Slot(2)] = r],
                   TraceWrite(TernaryReads, slot, value))
  <2>1. stack_space[Slot(0)] \in Word
    <3>1. Slot(0) \in Slots
      BY <1>1, <1>3, LowestType DEF Slots
    <3> QED  BY <1>3, <3>1 DEF Space
  <2> QED  BY <2>1, WordTypes DEF addmod, mulmod
<1> DEFINE space == [stack_space EXCEPT ![Slot(2)] = r]
           trace == TraceWrite(TernaryReads, slot, value)
<1>7. Within(trace)
  BY <1>1, <1>4, <1>5, WithinAppend
<1>8. \A s \in Slots : space[s] # stack_space[s] =>
                           s \in Lowest..(height + stack_height_change[opcode]) - 1
  <2>1. \A s \in Slots : space[s] # stack_space[s] => s = Slot(2)
    BY <1>3 DEF Space
  <2>2. Slot(2) \in Lowest..(height + stack_height_change[opcode]) - 1
    BY <1>2, <1>3
  <2> QED  BY <2>1, <2>2
<1>9. Continue(pc + 1, charged, space, trace)
  BY <1>6
<1> HIDE DEF space, trace
<1> QED  BY <1>7, <1>8, <1>9, ContinueDeclares

\* Handlers that leave the stack cells alone.
LEMMA KeepDeclares ==
    ASSUME NEW position, NEW gas_left, NEW trace, Within(trace),
           Continue(position, gas_left, stack_space, trace)
    PROVE  Declared
BY ContinueDeclares

\* The arithmetic, comparison and bit handlers.
LEMMA OperateDeclares ==
    ASSUME IInv, Operate
    PROVE  Declared
<1>1. opcode \in Byte
  BY OpcodeType DEF IInv
<1>2. CASE addmod \/ mulmod
  BY <1>2, TernaryDeclares
<1>3. CASE Arith \/ signextend \/ Compare \/ Bitwise \/ ByteAndShift
  <2>1. /\ check_requirements = "EVMC_SUCCESS" /\ stack_height_required[opcode] = 2
        /\ stack_height_change[opcode] = -1
    BY <1>1, <1>3, OperandCounts, HeightChanges
       DEF Arith, signextend, Compare, Bitwise, ByteAndShift, Executing
  <2>2. \E r \in Word : BinaryResult(r, charged)
    BY <1>3, WordTypes DEF Arith, signextend, Compare, Bitwise, ByteAndShift
  <2> QED  BY <2>1, <2>2, BinaryDeclares
<1>4. CASE exp
  <2>1. /\ check_requirements = "EVMC_SUCCESS" /\ stack_height_required[opcode] = 2
        /\ stack_height_change[opcode] = -1
    BY <1>1, <1>4, OperandCounts, HeightChanges DEF exp, Executing
  <2>2. PICK n \in 0..WordBytes :
            LET gas_left == charged - n * (IF Rev >= SPURIOUS_DRAGON THEN 50 ELSE 10)
            IN  \/ Halt("EVMC_OUT_OF_GAS", gas_left, BinaryReads)
                \/ \E r \in Results : BinaryResult(r, gas_left)
    BY <1>4 DEF exp
  <2> QED  BY <2>1, <2>2, BinaryDeclares, HaltDeclares, WordTypes
<1>5. CASE iszero \/ not_
  <2>1. /\ check_requirements = "EVMC_SUCCESS" /\ stack_height_required[opcode] = 1
        /\ stack_height_change[opcode] = 0
    BY <1>1, <1>5, OperandCounts, HeightChanges DEF iszero, not_, Executing
  <2>2. \E r \in Word : UnaryResult(r, charged)
    BY <1>5, WordTypes DEF iszero, not_
  <2> QED  BY <2>1, <2>2, UnaryDeclares
<1> QED  BY <1>2, <1>3, <1>4, <1>5 DEF Operate

\* The handlers that ask the message, the transaction or the host.
LEMMA ConsultDeclares ==
    ASSUME IInv, Consult
    PROVE  Declared
<1>1. opcode \in Byte
  BY OpcodeType DEF IInv
<1>2. CASE Environment \/ codesize
  <2>1. check_requirements = "EVMC_SUCCESS" /\ stack_height_change[opcode] = 1
    BY <1>1, <1>2, OperandCounts DEF Environment, codesize, Executing
  <2>2. Len(code) \in Int
    BY DEF IInv, TypeOK
  <2>3. \E r \in Word : PushResult(r, pc + 1)
    BY <1>2, <2>2, WordTypes DEF Environment, codesize
  <2> QED  BY <2>1, <2>3, PushDeclares, WithinStart DEF PushResult
<1>3. CASE Lookup
  <2>1. /\ check_requirements = "EVMC_SUCCESS" /\ stack_height_required[opcode] = 1
        /\ stack_height_change[opcode] = 0
    BY <1>1, <1>3, OperandCounts, HeightChanges DEF Lookup, Executing
  <2> QED  BY <1>3, <2>1, WordTypes, UnaryDeclares DEF Lookup
<1>4. CASE AccountLookup
  <2>1. /\ check_requirements = "EVMC_SUCCESS" /\ stack_height_required[opcode] = 1
        /\ stack_height_change[opcode] = 0
    BY <1>1, <1>4, OperandCounts, HeightChanges DEF AccountLookup, Executing
  <2>2. PICK gas_left :
            \/ Halt("EVMC_OUT_OF_GAS", gas_left, TraceRead(rw_trace, Slot(0)))
            \/ \E r \in Results : UnaryResult(r, gas_left)
    BY <1>4 DEF AccountLookup
  <2> QED  BY <2>1, <2>2, WordTypes, UnaryDeclares, HaltDeclares
<1>5. CASE tstore
  <2>1. check_requirements = "EVMC_SUCCESS" /\ stack_height_required[opcode] = 2
    BY <1>1, <1>5, OperandCounts DEF tstore, Executing
  <2>2. \/ Halt("EVMC_STATIC_MODE_VIOLATION", 0, rw_trace)
        \/ Continue(pc + 1, charged, stack_space, BinaryReads)
    BY <1>5 DEF tstore
  <2> QED  BY <2>1, <2>2, BinaryDeclares, HaltDeclares, KeepDeclares
<1> QED  BY <1>2, <1>3, <1>4, <1>5 DEF Consult

\* The handlers that move the program counter.
LEMMA SteerDeclares ==
    ASSUME IInv, Steer
    PROVE  Declared
<1>1. opcode \in Byte
  BY OpcodeType DEF IInv
<1>2. CASE Stop
  BY <1>2, HaltDeclares DEF Stop
<1>3. ASSUME NEW dst, NEW trace, Within(trace), jump_impl(dst, trace) PROVE Declared
  BY <1>3, HaltDeclares, KeepDeclares DEF jump_impl
<1>4. CASE jump
  <2>1. check_requirements = "EVMC_SUCCESS" /\ stack_height_required[opcode] = 1
    BY <1>1, <1>4, OperandCounts DEF jump, Executing
  <2> QED  BY <1>3, <1>4, <2>1, UnaryDeclares DEF jump
<1>5. CASE jumpi
  <2>1. check_requirements = "EVMC_SUCCESS" /\ stack_height_required[opcode] = 2
    BY <1>1, <1>5, OperandCounts DEF jumpi, Executing
  <2>2. \/ jump_impl(stack_space[Slot(0)], BinaryReads)
        \/ Continue(pc + 1, charged, stack_space, BinaryReads)
    BY <1>5 DEF jumpi
  <2> QED  BY <1>3, <2>1, <2>2, BinaryDeclares, KeepDeclares
<1>6. CASE pc_ \/ gas_
  <2>1. check_requirements = "EVMC_SUCCESS" /\ stack_height_change[opcode] = 1
    BY <1>1, <1>6, OperandCounts DEF pc_, gas_, Executing
  <2>2. charged \in Int /\ pc \in Int
    BY <2>1, Requirements DEF IInv, TypeOK
  <2>3. \E r \in Word : PushResult(r, pc + 1)
    BY <1>6, <2>2, WordTypes DEF pc_, gas_
  <2> QED  BY <2>1, <2>3, PushDeclares, WithinStart DEF PushResult
<1>7. CASE PopJumpdest \/ log
  BY <1>7, WithinStart, KeepDeclares DEF PopJumpdest, log
<1> QED  BY <1>2, <1>4, <1>5, <1>6, <1>7 DEF Steer

\* The instructions whose handlers reach for slots their traits do not declare: the
\* indexed DUP and SWAP, DUPN and SWAPN declare none of the slots their index names,
\* and push<Len> traces Len / 32 + Len % 32 slots.
Undeclared ==
    {OP_DUP, OP_SWAP, OP_DUPN, OP_SWAPN} \cup (PushOps \ {OP_PUSH1, OP_PUSH32})

\* dup<N>.
LEMMA DupDeclares == IInv /\ dup => Declared
<1> SUFFICES ASSUME IInv, dup PROVE Declared
  OBVIOUS
<1> DEFINE slot == height - (opcode - (OP_DUP1 - 1))
<1>1. check_requirements = "EVMC_SUCCESS" /\ opcode \in DupOps
  BY DEF dup, Executing
<1>2. /\ stack_height_change[opcode] = 1
      /\ stack_height_required[opcode] = opcode - (OP_DUP1 - 1)
  BY <1>1, OpcodeType, OperandCounts DEF IInv
<1>3. slot \in Lowest..height - 1 /\ slot \in Slots
  BY <1>1, <1>2, LowestType DEF Lowest, DupOps, OP_DUP1, Slots
<1>4. Continue(pc + 1, charged, [stack_space EXCEPT ![height] = stack_space[slot]],
               TraceWrite(TraceRead(rw_trace, slot), height, stack_space[slot]))
  BY DEF dup
<1> HIDE DEF slot
<1>5. stack_space[slot] \in Word
  BY <1>1, <1>3, LowestType DEF Space
<1>6. Within(TraceRead(rw_trace, slot))
  BY <1>1, <1>3, WithinStart, WithinRead
<1> QED  BY <1>1, <1>2, <1>4, <1>5, <1>6, PushDeclares

\* swap<N>: the slot it traces too high is still one of its operands.
LEMMA SwapDeclares == IInv /\ swap => Declared
<1> SUFFICES ASSUME IInv, swap PROVE Declared
  OBVIOUS
<1> DEFINE n     == opcode - (OP_SWAP1 - 1)
           top   == Slot(0)
           slot  == Slot(n)
           space == [stack_space EXCEPT ![top] = stack_space[slot],
                                        ![slot] = stack_space[top]]
<1>1. check_requirements = "EVMC_SUCCESS" /\ opcode \in SwapOps
  BY DEF swap, Executing
<1>2. stack_height_change[opcode] = 0 /\ stack_height_required[opcode] = n + 1
  BY <1>1, OpcodeType, OperandCounts, HeightChanges DEF IInv
<1>3. n \in Nat /\ n >= 1
  BY <1>1 DEF SwapOps, OP_SWAP1
<1>4. Continue(pc + 1, charged, space,
               TraceWrite(TraceWrite(TraceRead(TraceRead(rw_trace, slot), top),
                                     top, space[top]),
                          slot + 1, space[slot + 1]))
  BY DEF swap
<1> HIDE DEF n
<1>5. /\ height \in Nat /\ Lowest = slot /\ slot \in Lowest..height - 1
      /\ top \in Lowest..height - 1 /\ top \in Lowest..height
      /\ slot + 1 \in Lowest..height - 1 /\ slot + 1 \in Lowest..height
      /\ top \in Slots /\ slot \in Slots /\ slot + 1 \in Slots
  BY <1>1, <1>2, <1>3, LowestType DEF Lowest, Slot, Slots
<1> HIDE DEF top, slot
<1>6. space \in Space
  BY <1>1, <1>5, LowestType DEF Space
<1>7. space[top] \in Word /\ space[slot + 1] \in Word
  BY <1>5, <1>6 DEF Space
<1>8. \A s \in Slots : space[s] # stack_space[s] => s = top \/ s = slot
  BY <1>1, LowestType DEF Space
<1> HIDE DEF space
<1>9. Within(TraceRead(TraceRead(rw_trace, slot), top))
  <2>1. Within(TraceRead(rw_trace, slot))
    BY <1>1, <1>5, WithinStart, WithinRead
  <2> QED  BY <1>1, <1>5, <2>1, WithinRead
<1>10. Within(TraceWrite(TraceRead(TraceRead(rw_trace, slot), top), top, space[top]))
  BY <1>1, <1>5, <1>7, <1>9, WithinAppend
<1> DEFINE trace == TraceWrite(TraceWrite(TraceRead(TraceRead(rw_trace, slot), top),
                                          top, space[top]),
                               slot + 1, space[slot + 1])
<1>11. Within(trace)
  BY <1>1, <1>5, <1>7, <1>10, WithinAppend
<1>12. \A s \in Slots : space[s] # stack_space[s] =>
                            s \in Lowest..(height + stack_height_change[opcode]) - 1
  <2>1. height + stack_height_change[opcode] = height
    BY <1>2, <1>5
  <2> QED  BY <1>5, <1>8, <2>1
<1>13. Continue(pc + 1, charged, space, trace)
  BY <1>4
<1> HIDE DEF trace
<1> QED  BY <1>11, <1>12, <1>13, ContinueDeclares

\* The push, duplicate and swap handlers that declare what they touch.
LEMMA ShuffleDeclares ==
    ASSUME IInv, Shuffle, opcode \notin Undeclared
    PROVE  Declared
<1>1. CASE push0
  <2>1. check_requirements = "EVMC_SUCCESS" /\ stack_height_change[opcode] = 1
    BY <1>1, OpcodeType, OperandCounts DEF push0, Executing, IInv
  <2> QED  BY <1>1, <2>1, WordTypes, WithinStart, PushDeclares DEF push0, PushResult
<1>2. CASE push
  <2>1. opcode \in {OP_PUSH1, OP_PUSH32}
    BY <1>2 DEF push, Executing, Undeclared
  <2> QED  BY <1>2, <2>1, PushOnce, WithinStart, PushDeclares
<1>3. CASE dup \/ swap
  BY <1>3, DupDeclares, SwapDeclares
<1>4. CASE dup_indexed \/ swap_indexed \/ dupn \/ swapn
  BY <1>4 DEF dup_indexed, swap_indexed, dupn, swapn, Executing, Undeclared
<1> QED  BY <1>1, <1>2, <1>3, <1>4 DEF Shuffle

\* The handler about to run, if any, is not one of those.
Declaring == ~ Executing(Undeclared)

\* Each instruction traces only operands its traits declare and the slot its result
\* goes to, and changes only what is on the stack it leaves, unless its handler is one
\* of Undeclared: check_requirements checks all that the others touch.
THEOREM TraitsTrusted == Spec /\ []Declaring => OperandsDeclared
<1>1. IInv /\ Declaring /\ [Next]_vars =>
          [phase = "dispatch" /\ phase' = "dispatch" =>
               LET lowest == height - stack_height_required[opcode]
               IN  /\ \A i \in Len(rw_trace) + 1..Len(rw_trace') :
                          rw_trace'[i].address \in lowest..height
                   /\ \A slot \in 0..StackLimit - 1 :
                          stack_space'[slot] # stack_space[slot] =>
                              slot \in lowest..height' - 1]_vars
  <2> SUFFICES ASSUME IInv, Declaring, Next PROVE Declared
    BY DEF Declared
  <2>1. CASE Analyze
    BY <2>1 DEF Analyze, AnalyzeStep, AnalyzeDone, Declared
  <2>2. CASE RequirementsFail \/ NoSuchCase
    BY <2>2, HaltDeclares DEF RequirementsFail, NoSuchCase
  <2>3. CASE Operate
    BY <2>3, OperateDeclares
  <2>4. CASE Consult
    BY <2>4, ConsultDeclares
  <2>5. CASE Steer
    BY <2>5, SteerDeclares
  <2>6. CASE Shuffle
    <3>1. \E ops : Executing(ops)
      BY <2>6 DEF Shuffle, push0, push, dup, dup_indexed, swap, swap_indexed, dupn, swapn
    <3>2. opcode \notin Undeclared
      BY <3>1 DEF Executing, Declaring
    <3> QED  BY <2>6, <3>2, ShuffleDeclares
  <2>7. CASE Returned
    BY <2>7 DEF Returned, Declared
  <2> QED  BY <2>1, <2>2, <2>3, <2>4, <2>5, <2>6, <2>7 DEF Next, Dispatch
<1> QED  BY <1>1, Invariance, PTL DEF Spec, OperandsDeclared

=============================================================================
