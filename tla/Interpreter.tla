---------------------------- MODULE Interpreter ----------------------------
(***************************************************************************)
(* One frame of the interpreter: analyze() builds the jump destination map *)
(* of a legacy code, then dispatch() runs it, one instruction per step.    *)
(* The instructions modelled here are the ones that work on the stack, the *)
(* program counter and the gas alone; each appends to rw_trace the stack   *)
(* reads and writes the RW circuit will be assigned.                       *)
(*                                                                         *)
(* The stack is the array stack_space with a height (stack_top minus the   *)
(* bottom pointer): slots above the height keep what was popped, as in the *)
(* code.  The index of a slot is the address a traced operation carries.   *)
(*                                                                         *)
(* A word is a function from byte index (0 is the least significant byte)  *)
(* to bytes.  What an arithmetic instruction or the host computes is some  *)
(* word of Results; which one does not matter to this module.              *)
(***************************************************************************)
EXTENDS EvmCode

CONSTANTS
    Rev,         \* evmc_revision of the frame
    StackLimit,  \* StackSpace::limit, 1024 in the code
    LimbBytes,   \* bytes of a uint64_t limb of a word, 8 in the code
    IntMod,      \* number of values of the C++ int, 2^32 in the code
    Programs,    \* the codes a frame may be asked to run
    GasLimits,   \* the values msg->gas may have
    Results      \* the words the ALU, the host and stray memory may yield

WordBytes == 32
Word      == [0..WordBytes - 1 -> Byte]

\* Opcodes whose handler also works on memory, storage or other frames.
OtherOps == {32, 60, 84, 85, 240, 241, 242, 243, 244, 245, 250, 253, 255}
            \cup (CopyOps \ {235}) \cup MloadOps \cup MstoreOps

ASSUME RevAssumption     == Rev \in Revision
ASSUME LimitAssumption   == StackLimit \in Nat \ {0} /\ StackLimit <= 1024
ASSUME LimbAssumption    == LimbBytes \in 1..8
ASSUME PlaceValues       == \A k \in 0..LimbBytes : 256 ^ k \in Nat \ {0}
ASSUME IntAssumption     == IntMod \in Nat \ {0}
ASSUME GasAssumption     == GasLimits \subseteq Nat
ASSUME ResultsAssumption == Results \subseteq Word /\ Results # {}
ASSUME ProgramAssumption ==
    \A c \in Programs :
        /\ c \in Seq(Byte \ OtherOps)
        /\ ~ is_eof_container(c)

VARIABLES
    code,          \* the code of the frame, fixed
    static_mode,   \* in_static_mode(), fixed
    phase,         \* "analyze", "dispatch" or "done"
    scan,          \* the loop variable i of analyze_jumpdests
    jumpdest_map,  \* the positions whose bit is set in jumpdest_map
    pc,            \* position.code_it, as an offset in the padded code
    stack_space,   \* m_stack_space
    height,        \* position.stack_top - stack_bottom
    gas,           \* the gas variable of dispatch
    status,        \* state.status
    rw_trace       \* state.rw_trace

analysis == <<scan, jumpdest_map>>
fixed    == <<code, static_mode>>
vars     == <<code, static_mode, phase, scan, jumpdest_map, pc, stack_space,
              height, gas, status, rw_trace>>

-----------------------------------------------------------------------------
(* Words.                                                                  *)

ZeroWord    == [k \in 0..WordBytes - 1 |-> 0]
BoolWord(b) == IF b THEN [ZeroWord EXCEPT ![0] = 1] ELSE ZeroWord

\* Mutant of WordOf: the first byte is not reduced.
WordOf_unreduced(n) == [ZeroWord EXCEPT ![0] = n]

\* zkevm_word(uint64_t): the limbs above the first are zero.
WordOf(n) ==
    [k \in 0..WordBytes - 1 |->
        IF k < LimbBytes THEN (n \div 256 ^ k) % 256 ELSE 0]

\* to_uint64(): the least significant limb, the others are dropped.
to_uint64(w) ==
    LET part(k) == IF k < LimbBytes THEN w[k] * 256 ^ k ELSE 0
    IN  part(0) + part(1) + part(2) + part(3) + part(4) + part(5) + part(6) + part(7)

\* The conversion of a uint64_t to int, and to uint16_t.
to_int(n) ==
    LET m == n % IntMod IN IF 2 * m >= IntMod THEN m - IntMod ELSE m
Uint16Mod    == 65536
to_uint16(n) == n % Uint16Mod

\* operator< and slt of intx.
less(x, y) ==
    \E k \in 0..WordBytes - 1 :
        x[k] < y[k] /\ \A m \in k + 1..WordBytes - 1 : x[m] = y[m]
slt(x, y) ==
    LET negative(w) == w[WordBytes - 1] >= 128
    IN  IF negative(x) = negative(y) THEN less(x, y) ELSE negative(x)

\* n = count_significant_bytes(w).
SignificantBytes(w, n) ==
    /\ \A k \in n..WordBytes - 1 : w[k] = 0
    /\ n > 0 => w[n - 1] # 0

-----------------------------------------------------------------------------
(* The trace.                                                              *)

STACK_OP == 1

\* stack_operation(call_id, address, rw_id, is_write, value) for a read and for
\* a write; the address parameter is a uint16_t.
read_operation(address, rw_id, value) ==
    [op |-> STACK_OP, address |-> to_uint16(address), rw_id |-> rw_id,
     is_write |-> FALSE, value |-> value]
write_operation(address, rw_id, value) ==
    [op |-> STACK_OP, address |-> to_uint16(address), rw_id |-> rw_id,
     is_write |-> TRUE, value |-> value]

\* The slot of stack[k], which is stack.size() - 1 - k.
Slot(k) == height - 1 - k

\* rw_trace.push_back(...) with rw_trace.size() as rw_id.
TraceValue(trace, slot, value) ==
    Append(trace, read_operation(slot, Len(trace), value))
TraceRead(trace, slot) == TraceValue(trace, slot, stack_space[slot])
TraceWrite(trace, slot, value) ==
    Append(trace, write_operation(slot, Len(trace), value))

\* A slot outside the array: reading it yields whatever memory is there.
ReadSlot(slot, stray) ==
    IF slot \in 0..StackLimit - 1 THEN stack_space[slot] ELSE stray

-----------------------------------------------------------------------------
(* analyze().                                                              *)

int8(b) == IF b > 127 THEN b - 256 ELSE b

\* Mutant of AnalyzeStep: the comparison with OP_PUSH1 is unsigned.
AnalyzeStep_unsigned ==
    /\ phase = "analyze"
    /\ scan < Len(code)
    /\ LET op == code[scan + 1]
       IN  IF op >= OP_PUSH1
           THEN /\ scan' = scan + (op - (OP_PUSH1 - 1)) + 1
                /\ UNCHANGED jumpdest_map
           ELSE /\ scan' = scan + 1
                /\ jumpdest_map' = IF op = OP_JUMPDEST THEN jumpdest_map \cup {scan}
                                                       ELSE jumpdest_map
    /\ UNCHANGED <<fixed, phase, pc, stack_space, height, gas, status, rw_trace>>

\* Mutant of AnalyzeStep: the loop variable only moves over push data.
AnalyzeStep_stuck ==
    /\ phase = "analyze"
    /\ scan < Len(code)
    /\ scan' = IF int8(code[scan + 1]) >= OP_PUSH1
               THEN scan + code[scan + 1] - (OP_PUSH1 - 1) ELSE scan
    /\ UNCHANGED <<fixed, phase, jumpdest_map, pc, stack_space, height, gas,
                   status, rw_trace>>

\* One iteration of the loop of analyze_jumpdests.
AnalyzeStep ==
    /\ phase = "analyze"
    /\ scan < Len(code)
    /\ LET op == code[scan + 1]
       IN  IF int8(op) >= OP_PUSH1
           THEN /\ scan' = scan + (op - (OP_PUSH1 - 1)) + 1
                /\ UNCHANGED jumpdest_map
           ELSE /\ scan' = scan + 1
                /\ jumpdest_map' = IF op = OP_JUMPDEST THEN jumpdest_map \cup {scan}
                                                       ELSE jumpdest_map
    /\ UNCHANGED <<fixed, phase, pc, stack_space, height, gas, status, rw_trace>>

\* The loop ends and evaluate() enters dispatch().
AnalyzeDone ==
    /\ phase = "analyze"
    /\ scan >= Len(code)
    /\ phase' = "dispatch"
    /\ UNCHANGED <<fixed, analysis, pc, stack_space, height, gas, status, rw_trace>>

-----------------------------------------------------------------------------
(* dispatch() and invoke().                                                *)

opcode     == padded_code(code, pc)
cost_table == base_cost[Rev]

\* Mutant of check_requirements: only pushes are checked for overflow.
check_requirements_push_overflow ==
    IF cost_table[opcode] < 0 /\ ~ has_const_gas_cost[opcode]
    THEN "EVMC_UNDEFINED_INSTRUCTION"
    ELSE IF opcode \in PushOps /\ height = StackLimit
    THEN "EVMC_STACK_OVERFLOW"
    ELSE IF height < stack_height_required[opcode]
    THEN "EVMC_STACK_UNDERFLOW"
    ELSE IF gas - cost_table[opcode] < 0
    THEN "EVMC_OUT_OF_GAS"
    ELSE "EVMC_SUCCESS"

\* The order of the checks is the code's: definedness, overflow, underflow, gas.
check_requirements ==
    IF cost_table[opcode] < 0 /\ ~ has_const_gas_cost[opcode]
    THEN "EVMC_UNDEFINED_INSTRUCTION"
    ELSE IF stack_height_change[opcode] > 0 /\ height = StackLimit
    THEN "EVMC_STACK_OVERFLOW"
    ELSE IF height < stack_height_required[opcode]
    THEN "EVMC_STACK_UNDERFLOW"
    ELSE IF gas - cost_table[opcode] < 0
    THEN "EVMC_OUT_OF_GAS"
    ELSE "EVMC_SUCCESS"

\* gas after check_requirements charged the base cost.
charged == gas - cost_table[opcode]

\* The instruction at pc is one of ops and has passed check_requirements.
Executing(ops) ==
    /\ phase = "dispatch"
    /\ opcode \in ops
    /\ check_requirements = "EVMC_SUCCESS"

\* The handler returned a position: invoke() moves the stack top by the
\* declared change and the loop goes on.
Continue(position, gas_left, space, trace) ==
    /\ pc' = position
    /\ gas' = gas_left
    /\ stack_space' = space
    /\ height' = height + stack_height_change[opcode]
    /\ rw_trace' = trace
    /\ UNCHANGED <<fixed, phase, analysis, status>>

\* The handler returned nullptr: dispatch() returns, position is not updated.
Halt(code_of_failure, gas_left, trace) ==
    /\ phase' = "done"
    /\ status' = code_of_failure
    /\ gas' = gas_left
    /\ rw_trace' = trace
    /\ UNCHANGED <<fixed, analysis, pc, stack_space, height>>

\* check_requirements fails.  Only its last check has changed the gas.
RequirementsFail ==
    /\ phase = "dispatch"
    /\ check_requirements # "EVMC_SUCCESS"
    /\ Halt(check_requirements,
            IF check_requirements = "EVMC_OUT_OF_GAS" THEN charged ELSE gas,
            rw_trace)

\* The default case of the switch.
NoSuchCase ==
    /\ Executing(Byte \ MappedOps)
    /\ Halt("EVMC_UNDEFINED_INSTRUCTION", charged, rw_trace)

-----------------------------------------------------------------------------
(* Handlers that replace operands by a result.                             *)

\* Read stack[1] and stack[0], pop one, write the new top.
BinaryReads == TraceRead(TraceRead(rw_trace, Slot(1)), Slot(0))
BinaryResult(r, gas_left) ==
    Continue(pc + 1, gas_left, [stack_space EXCEPT ![Slot(1)] = r],
             TraceWrite(BinaryReads, Slot(1), r))

UnaryResult(r, gas_left) ==
    Continue(pc + 1, gas_left, [stack_space EXCEPT ![Slot(0)] = r],
             TraceWrite(TraceRead(rw_trace, Slot(0)), Slot(0), r))

PushResult(r, position) ==
    Continue(position, charged, [stack_space EXCEPT ![height] = r],
             TraceWrite(rw_trace, height, r))

\* stop, invalid.
Stop ==
    /\ Executing({OP_STOP, OP_INVALID})
    /\ Halt(IF opcode = OP_STOP THEN "EVMC_SUCCESS" ELSE "EVMC_INVALID_INSTRUCTION",
            charged, rw_trace)

\* add, mul, sub, div, sdiv, mod, smod.
Arith ==
    /\ Executing(ArithOps)
    /\ \E r \in Results : BinaryResult(r, charged)

TernaryReads ==
    TraceRead(TraceRead(TraceRead(rw_trace, Slot(2)), Slot(1)), Slot(0))

\* Mutants of addmod: the write traced is the one mulmod traces; the result is
\* stored without popping the operands.
addmod_as_mulmod ==
    /\ Executing({AddmodOp})
    /\ \E r \in Results :
           Continue(pc + 1, charged, [stack_space EXCEPT ![Slot(2)] = r],
                    TraceWrite(TernaryReads, Slot(0), stack_space[Slot(0)]))
addmod_unpopped ==
    /\ Executing({AddmodOp})
    /\ \E r \in Results :
           Continue(pc + 1, charged, [stack_space EXCEPT ![Slot(0)] = r],
                    TraceWrite(TernaryReads, Slot(0), r))

addmod ==
    /\ Executing({AddmodOp})
    /\ \E r \in Results :
           Continue(pc + 1, charged, [stack_space EXCEPT ![Slot(2)] = r],
                    TraceWrite(TernaryReads, Slot(2), r))

\* The handler does not pop: the operation it traces as a write is the old top
\* with its old value, while the result goes to stack[2].
mulmod ==
    /\ Executing({OP_MULMOD})
    /\ \E r \in Results :
           Continue(pc + 1, charged, [stack_space EXCEPT ![Slot(2)] = r],
                    TraceWrite(TernaryReads, Slot(0), stack_space[Slot(0)]))

\* The cost of the exponent is charged after the reads are traced.
exp ==
    /\ Executing({OP_EXP})
    /\ \E n \in 0..WordBytes :
           /\ SignificantBytes(stack_space[Slot(1)], n)
           /\ LET gas_left == charged - n * (IF Rev >= SPURIOUS_DRAGON THEN 50 ELSE 10)
              IN  \/ /\ gas_left < 0
                     /\ Halt("EVMC_OUT_OF_GAS", gas_left, BinaryReads)
                  \/ /\ gas_left >= 0
                     /\ \E r \in Results : BinaryResult(r, gas_left)

signextend ==
    /\ Executing({SignextendOp})
    /\ \E r \in Results : BinaryResult(r, charged)

\* lt, gt, slt, sgt, eq with x = stack[0] and y = stack[1].
Compare ==
    LET x == stack_space[Slot(0)]
        y == stack_space[Slot(1)]
    IN  /\ Executing(CompareOps)
        /\ BinaryResult(BoolWord(CASE opcode = 16 -> less(x, y)
                                   [] opcode = 17 -> less(y, x)
                                   [] opcode = 18 -> slt(x, y)
                                   [] opcode = 19 -> slt(y, x)
                                   [] OTHER       -> x = y), charged)

\* Mutant of iszero: the result is not traced.
iszero_untraced ==
    /\ Executing({IszeroOp})
    /\ Continue(pc + 1, charged,
           [stack_space EXCEPT ![Slot(0)] =
               BoolWord(stack_space[Slot(0)] = ZeroWord)],
           TraceRead(rw_trace, Slot(0)))

iszero ==
    /\ Executing({IszeroOp})
    /\ UnaryResult(BoolWord(stack_space[Slot(0)] = ZeroWord), charged)

\* and_, or_, xor_.
Bitwise ==
    /\ Executing(BitwiseOps)
    /\ \E r \in Results : BinaryResult(r, charged)

not_ ==
    /\ Executing({NotOp})
    /\ \E r \in Results : UnaryResult(r, charged)

\* byte, shl, shr, sar.
ByteAndShift ==
    /\ Executing({ByteOp} \cup ShiftOps)
    /\ \E r \in Results : BinaryResult(r, charged)

-----------------------------------------------------------------------------
(* Handlers that ask the message, the transaction context or the host.     *)

additional_cold_account_access_cost == 2600 - 100

\* address, origin, caller, callvalue, calldatasize, gasprice, returndatasize,
\* coinbase .. selfbalance, basefee, blobbasefee, msize.
Environment ==
    /\ Executing(EnvironmentOps)
    /\ \E r \in Results : PushResult(r, pc + 1)

\* calldataload, blockhash, blobhash, tload.
Lookup ==
    /\ Executing(LookupOps)
    /\ \E r \in Results : UnaryResult(r, charged)

\* balance, extcodesize, extcodehash: a cold account is charged between the
\* read and the write of the top.
AccountLookup ==
    /\ Executing(AccountOps)
    /\ \E cold \in BOOLEAN :
           LET gas_left == IF Rev >= BERLIN /\ cold
                           THEN charged - additional_cold_account_access_cost
                           ELSE charged
           IN  \/ /\ gas_left < 0
                  /\ Halt("EVMC_OUT_OF_GAS", gas_left, TraceRead(rw_trace, Slot(0)))
               \/ /\ gas_left >= 0
                  /\ \E r \in Results : UnaryResult(r, gas_left)

codesize ==
    /\ Executing({CodesizeOp})
    /\ PushResult(WordOf(Len(code)), pc + 1)

tstore ==
    /\ Executing({OP_TSTORE})
    /\ \/ /\ static_mode
          /\ Halt("EVMC_STATIC_MODE_VIOLATION", 0, rw_trace)
       \/ /\ ~ static_mode
          /\ Continue(pc + 1, charged, stack_space, BinaryReads)

-----------------------------------------------------------------------------
(* Handlers that move the program counter.                                 *)

\* Mutants of jump_impl: the bit of the target is not tested; the jump is free.
jump_impl_anywhere(dst, trace) ==
    \/ /\ to_uint64(dst) < Len(code)
       /\ Continue(to_uint64(dst), charged, stack_space, trace)
    \/ /\ to_uint64(dst) >= Len(code)
       /\ Halt("EVMC_BAD_JUMP_DESTINATION", charged, trace)
jump_impl_free(dst, trace) ==
    \/ /\ to_uint64(dst) \in jumpdest_map
       /\ Continue(to_uint64(dst), gas, stack_space, trace)
    \/ /\ to_uint64(dst) \notin jumpdest_map
       /\ Halt("EVMC_BAD_JUMP_DESTINATION", charged, trace)

\* jump_impl: with the reads already traced, go to dst if its bit is set.
jump_impl(dst, trace) ==
    \/ /\ to_uint64(dst) \in jumpdest_map
       /\ Continue(to_uint64(dst), charged, stack_space, trace)
    \/ /\ to_uint64(dst) \notin jumpdest_map
       /\ Halt("EVMC_BAD_JUMP_DESTINATION", charged, trace)

jump ==
    /\ Executing({OP_JUMP})
    /\ jump_impl(stack_space[Slot(0)], TraceRead(rw_trace, Slot(0)))

jumpi ==
    /\ Executing({OP_JUMPI})
    /\ \/ /\ to_uint64(stack_space[Slot(1)]) > 0
          /\ jump_impl(stack_space[Slot(0)], BinaryReads)
       \/ /\ ~ (to_uint64(stack_space[Slot(1)]) > 0)
          /\ Continue(pc + 1, charged, stack_space, BinaryReads)

pc_ ==
    /\ Executing({OP_PC})
    /\ PushResult(WordOf(pc), pc + 1)

\* The gas handler pushes the gas left after its own cost.
gas_ ==
    /\ Executing({OP_GAS})
    /\ PushResult(WordOf(charged), pc + 1)

\* pop, jumpdest: nothing is traced.
PopJumpdest ==
    /\ Executing({PopOp, OP_JUMPDEST})
    /\ Continue(pc + 1, charged, stack_space, rw_trace)

\* log (LOG1 alone is mapped): pops three items, traces nothing.
log ==
    /\ Executing({OP_LOG1})
    /\ Continue(pc + 1, charged, stack_space, rw_trace)

-----------------------------------------------------------------------------
(* Handlers that push, duplicate and swap.                                 *)

push0 ==
    /\ Executing({OP_PUSH0})
    /\ PushResult(ZeroWord, pc + 1)

\* The Len bytes after position p, most significant first.
PushData(p, len) ==
    [k \in 0..WordBytes - 1 |->
        IF k < len THEN padded_code(code, p + len - k) ELSE 0]

\* push<Len>: the number of writes traced is Len / 32 + Len % 32, from the new
\* top downwards.
push ==
    /\ Executing(PushOps)
    /\ LET len       == opcode - (OP_PUSH1 - 1)
           num_words == (len \div WordBytes) + (len % WordBytes)
           space     == [stack_space EXCEPT ![height] = PushData(pc, len)]
       IN  \E stray \in [(height + 1 - num_words)..(-1) -> Results] :
               Continue(pc + len + 1, charged, space,
                   rw_trace \o
                   [i \in 1..num_words |->
                       LET slot == height + 1 - i
                       IN  write_operation(slot, Len(rw_trace) + i - 1,
                               IF slot >= 0 THEN space[slot] ELSE stray[slot])])

\* dup<N>, N > 0.
dup ==
    /\ Executing(DupOps)
    /\ LET slot == height - (opcode - (OP_DUP1 - 1))
       IN  Continue(pc + 1, charged,
                    [stack_space EXCEPT ![height] = stack_space[slot]],
                    TraceWrite(TraceRead(rw_trace, slot), height, stack_space[slot]))

\* dup<0>: the index is popped, then used whatever its value is.
dup_indexed ==
    /\ Executing({OP_DUP})
    /\ LET slot == Slot(0) - to_int(to_uint64(stack_space[Slot(0)]))
       IN  \E stray \in Results :
               LET value == ReadSlot(slot, stray)
               IN  Continue(pc + 1, charged,
                       [stack_space EXCEPT ![Slot(0)] = value],
                       TraceWrite(TraceValue(TraceRead(rw_trace, Slot(0)), slot, value),
                                  Slot(0), value))

\* swap<N>, N > 0: the second write is traced one slot above the one written.
swap ==
    /\ Executing(SwapOps)
    /\ LET n     == opcode - (OP_SWAP1 - 1)
           space == [stack_space EXCEPT ![Slot(0)] = stack_space[Slot(n)],
                                        ![Slot(n)] = stack_space[Slot(0)]]
       IN  Continue(pc + 1, charged, space,
               TraceWrite(
                   TraceWrite(TraceRead(TraceRead(rw_trace, Slot(n)), Slot(0)),
                              Slot(0), space[Slot(0)]),
                   Slot(n) + 1, space[Slot(n) + 1]))

\* swap<0>: the same after popping an index, which may reach outside the array.
swap_indexed ==
    /\ Executing({OP_SWAP})
    /\ LET top   == Slot(1)
           slot  == Slot(1) - to_uint16(to_uint64(stack_space[Slot(0)]))
           cells == 0..StackLimit - 1 \cup {top, slot, slot + 1}
       IN  \E stray \in [{top, slot, slot + 1} -> Results] :
               LET before == [s \in cells |-> ReadSlot(s, stray[s])]
                   after  == [before EXCEPT ![top]  = before[slot],
                                            ![slot] = before[top]]
               IN  Continue(pc + 1, charged,
                       [s \in 0..StackLimit - 1 |-> after[s]],
                       TraceWrite(
                           TraceWrite(
                               TraceValue(
                                   TraceValue(TraceRead(rw_trace, Slot(0)),
                                              slot, before[slot]),
                                   top, before[top]),
                               top, after[top]),
                           slot + 1, after[slot + 1]))

dupn ==
    /\ Executing({OP_DUPN})
    /\ LET n == padded_code(code, pc + 1) + 1
       IN  \/ /\ height < n
              /\ Halt("EVMC_STACK_UNDERFLOW", charged, rw_trace)
           \/ /\ height >= n
              /\ Continue(pc + 2, charged,
                     [stack_space EXCEPT ![height] = stack_space[height - n]],
                     TraceWrite(TraceRead(rw_trace, height - n), height,
                                stack_space[height - n]))

swapn ==
    /\ Executing({OP_SWAPN})
    /\ LET n     == padded_code(code, pc + 1) + 1
           space == [stack_space EXCEPT ![Slot(0)] = stack_space[Slot(n)],
                                        ![Slot(n)] = stack_space[Slot(0)]]
       IN  \/ /\ height <= n
              /\ Halt("EVMC_STACK_UNDERFLOW", charged, rw_trace)
           \/ /\ height > n
              /\ Continue(pc + 2, charged, space,
                     TraceWrite(
                         TraceWrite(TraceRead(TraceRead(rw_trace, Slot(n)), Slot(0)),
                                    Slot(0), space[Slot(0)]),
                         Slot(n), space[Slot(n)]))

-----------------------------------------------------------------------------
(* The frame.                                                              *)

Init ==
    /\ code \in Programs
    /\ static_mode \in BOOLEAN
    /\ phase = "analyze"
    /\ scan = 0
    /\ jumpdest_map = {}
    /\ pc = 0
    /\ stack_space = [s \in 0..StackLimit - 1 |-> ZeroWord]
    /\ height = 0
    /\ gas \in GasLimits
    /\ status = "EVMC_SUCCESS"
    /\ rw_trace = << >>

Analyze == AnalyzeStep \/ AnalyzeDone

Operate == \/ Arith \/ addmod \/ mulmod \/ exp \/ signextend \/ Compare
           \/ iszero \/ Bitwise \/ not_ \/ ByteAndShift

Consult == Environment \/ Lookup \/ AccountLookup \/ codesize \/ tstore

Steer == Stop \/ jump \/ jumpi \/ pc_ \/ gas_ \/ PopJumpdest \/ log

Shuffle == \/ push0 \/ push \/ dup \/ dup_indexed \/ swap \/ swap_indexed
           \/ dupn \/ swapn

\* One iteration of the loop of dispatch().
Dispatch == RequirementsFail \/ NoSuchCase \/ Operate \/ Consult \/ Steer \/ Shuffle

\* The frame has returned to evaluate().
Returned == phase = "done" /\ UNCHANGED vars

Next == Analyze \/ Dispatch \/ Returned

Spec == Init /\ [][Next]_vars

\* The interpreter is a sequential loop: while it can take a step it does.
FairSpec == Spec /\ WF_vars(Analyze \/ Dispatch)

-----------------------------------------------------------------------------
(* Properties.                                                             *)

StatusCode == {"EVMC_SUCCESS", "EVMC_UNDEFINED_INSTRUCTION",
               "EVMC_INVALID_INSTRUCTION", "EVMC_STACK_OVERFLOW",
               "EVMC_STACK_UNDERFLOW", "EVMC_OUT_OF_GAS",
               "EVMC_BAD_JUMP_DESTINATION", "EVMC_STATIC_MODE_VIOLATION"}

Operation == [op : {STACK_OP}, address : 0..Uint16Mod - 1, rw_id : Nat,
              is_write : BOOLEAN, value : Word]

\* The frame's state has the types of dispatch() and ExecutionState: words stay
\* 32 bytes wide, traced addresses are uint16_t, the bitmap covers the code.
TypeOK ==
    /\ code \in Seq(Byte)
    /\ static_mode \in BOOLEAN
    /\ phase \in {"analyze", "dispatch", "done"}
    /\ scan \in Nat
    /\ jumpdest_map \in SUBSET (0..Len(code) - 1)
    /\ pc \in Nat
    /\ stack_space \in [0..StackLimit - 1 -> Word]
    /\ height \in Int
    /\ gas \in Int
    /\ status \in StatusCode
    /\ rw_trace \in Seq(Operation)

\* Whatever the program, stack_top stays between the bottom pointer and the end
\* of m_stack_space: the two checks of check_requirements are enough for every
\* height change that invoke() applies.
StackInBounds == height \in 0..StackLimit

\* The bitmap analyze_jumpdests leaves has exactly the JUMPDEST bytes that are
\* instructions, none that lie in the immediate data of an instruction.
JumpdestMapExact ==
    phase # "analyze" =>
        jumpdest_map = {p \in 0..Len(code) - 1 :
                            code[p + 1] = OP_JUMPDEST /\ IsInstruction(Rev, code, p)}

\* dispatch() only ever executes instructions, never immediate data, however
\* jumps and pushes moved the code iterator.
ExecutesInstructions ==
    phase = "dispatch" /\ pc < Len(code) => IsInstruction(Rev, code, pc)

\* The opcode and the immediate data read at pc are inside the padded buffer.
CodeReadsPadded ==
    phase = "dispatch" => pc + immediate_size[opcode] < Len(code) + CodePadding

\* The last write to the slot in the trace before row n wrote this value.
LastWritten(trace, n, slot, value) ==
    \E j \in 1..n - 1 :
        /\ trace[j].is_write /\ trace[j].address = slot /\ trace[j].value = value
        /\ \A k \in j + 1..n - 1 : ~ (trace[k].is_write /\ trace[k].address = slot)

\* Every traced stack read returns what the last traced write to its address
\* wrote: the memory argument the RW circuit makes about rw_trace.
TraceCoherent ==
    \A i \in 1..Len(rw_trace) :
        ~ rw_trace[i].is_write =>
            LastWritten(rw_trace, i, rw_trace[i].address, rw_trace[i].value)

\* No handler changes a live stack slot without tracing it: the last traced
\* write to the slot holds its value.
StackTraced ==
    \A slot \in 0..height - 1 :
        LastWritten(rw_trace, Len(rw_trace) + 1, slot, stack_space[slot])

\* assert(address < 1024) of stack_operation.
StackAddressAssert ==
    \A i \in 1..Len(rw_trace) : rw_trace[i].address < StackLimit

\* An instruction only traces operands its traits declare and the slot its
\* result goes to, and what it changes is on the stack it leaves: the tables of
\* traits, which check_requirements trusts, agree with the handlers.
OperandsDeclared ==
    [][phase = "dispatch" /\ phase' = "dispatch" =>
           LET lowest == height - stack_height_required[opcode]
           IN  /\ \A i \in Len(rw_trace) + 1..Len(rw_trace') :
                      rw_trace'[i].address \in lowest..height
               /\ \A slot \in 0..StackLimit - 1 :
                      stack_space'[slot] # stack_space[slot] =>
                          slot \in lowest..height' - 1]_vars

\* Every iteration of dispatch() returns, spends gas or moves forward in the
\* code; so a loop of the program runs out of gas.
Advances ==
    [][phase = "dispatch" =>
           phase' = "done" \/ gas' < gas \/ (gas' = gas /\ pc' > pc)]_vars

\* The frame returns ("Guaranteed to terminate" in dispatch()).
Terminates == <>(phase = "done")

=============================================================================
