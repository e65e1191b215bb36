----------------------------- MODULE CodeProofs -----------------------------
(***************************************************************************)
(* What the walks over the code have in common, for every code: analyze()  *)
(* marks exactly the jump destinations that are instructions, dispatch()   *)
(* executes instructions only and never reads outside the padded buffer,   *)
(* and every iteration of its loop makes progress.  For codes that never   *)
(* execute an instruction whose trace is wrong, the trace explains itself. *)
(***************************************************************************)
EXTENDS InterpreterProofs, WalkProofs

\* An iteration of dispatch() changes neither the code nor its analysis, and
\* leaves the iterator where it is when it returns.
LEMMA Returns ==
    Dispatch => /\ phase = "dispatch"
                /\ UNCHANGED <<code, scan, jumpdest_map>>
                /\ phase' = "dispatch" \/ (phase' = "done" /\ pc' = pc)
<1> DEFINE Effect == /\ phase = "dispatch"
                     /\ UNCHANGED <<code, scan, jumpdest_map>>
                     /\ phase' = "dispatch" \/ (phase' = "done" /\ pc' = pc)
<1>1. RequirementsFail \/ NoSuchCase => Effect
  BY DEF RequirementsFail, NoSuchCase, Executing, Halt, fixed, analysis
<1>2. Operate => Effect
  BY DEF Operate, Arith, addmod, mulmod, exp, signextend, Compare, iszero, Bitwise, not_,
         ByteAndShift, BinaryResult, UnaryResult, Executing, Continue, Halt, fixed, analysis
<1>3. Consult => Effect
  BY DEF Consult, Environment, Lookup, AccountLookup, codesize, tstore, UnaryResult,
         PushResult, Executing, Continue, Halt, fixed, analysis
<1>4. Steer => Effect
  BY DEF Steer, Stop, jump, jumpi, jump_impl, pc_, gas_, PopJumpdest, log, PushResult,
         Executing, Continue, Halt, fixed, analysis
<1>5. Shuffle => Effect
  BY DEF Shuffle, push0, push, dup, dup_indexed, swap, swap_indexed, dupn, swapn,
         PushResult, Executing, Continue, Halt, fixed, analysis
<1> QED  BY <1>1, <1>2, <1>3, <1>4, <1>5 DEF Dispatch

\* Unless it returns, an iteration goes to a marked jump destination or to the
\* byte after the immediate data its traits declare; it never continues past a
\* STOP.
LEMMA Moves ==
    IInv /\ Dispatch =>
        \/ phase' = "done"
        \/ /\ phase = "dispatch" /\ check_requirements = "EVMC_SUCCESS"
           /\ opcode # OP_STOP
           /\ pc' \in jumpdest_map \/ pc' = pc + 1 + immediate_size[opcode]
<1> SUFFICES ASSUME IInv, Dispatch, phase' # "done"
             PROVE  /\ phase = "dispatch" /\ check_requirements = "EVMC_SUCCESS"
                    /\ opcode # OP_STOP
                    /\ pc' \in jumpdest_map \/ pc' = pc + 1 + immediate_size[opcode]
  OBVIOUS
<1>1. opcode \in Byte /\ pc \in Nat
  BY OpcodeType DEF IInv, TypeOK
<1>2. ~ RequirementsFail /\ ~ NoSuchCase /\ ~ Stop
  BY DEF RequirementsFail, NoSuchCase, Stop, Halt
<1>3. CASE Operate
  <2>1. /\ phase = "dispatch" /\ check_requirements = "EVMC_SUCCESS"
        /\ opcode \in ArithOps \cup CompareOps \cup BitwiseOps \cup ShiftOps
                      \cup {AddmodOp, OP_MULMOD, OP_EXP, SignextendOp, IszeroOp,
                            NotOp, ByteOp}
    BY <1>3 DEF Operate, Arith, addmod, mulmod, exp, signextend, Compare, iszero,
                Bitwise, not_, ByteAndShift, Executing
  <2>2. pc' = pc + 1
    BY <1>3 DEF Operate, Arith, addmod, mulmod, exp, signextend, Compare, iszero,
                Bitwise, not_, ByteAndShift, BinaryResult, UnaryResult, Continue, Halt
  <2>3. opcode # OP_STOP
    BY <2>1 DEF ArithOps, CompareOps, BitwiseOps, ShiftOps, AddmodOp, OP_MULMOD, OP_EXP,
                SignextendOp, IszeroOp, NotOp, ByteOp, OP_STOP
  <2> QED  BY <1>1, <2>1, <2>2, <2>3, ImmediateSizes
<1>4. CASE Consult
  <2>1. /\ phase = "dispatch" /\ check_requirements = "EVMC_SUCCESS"
        /\ opcode \in LookupOps \cup AccountOps \cup EnvironmentOps
                      \cup {CodesizeOp, OP_TSTORE}
    BY <1>4 DEF Consult, Environment, Lookup, AccountLookup, codesize, tstore, Executing
  <2>2. pc' = pc + 1
    BY <1>4 DEF Consult, Environment, Lookup, AccountLookup, codesize, tstore,
                UnaryResult, PushResult, Continue, Halt
  <2>3. opcode # OP_STOP
    BY <2>1 DEF LookupOps, AccountOps, EnvironmentOps, CodesizeOp, OP_TSTORE, OP_STOP
  <2> QED  BY <1>1, <2>1, <2>2, <2>3, ImmediateSizes
<1>5. CASE Steer
  <2>1. /\ phase = "dispatch" /\ check_requirements = "EVMC_SUCCESS"
        /\ opcode \in {OP_JUMP, OP_JUMPI, OP_PC, OP_GAS, PopOp, OP_JUMPDEST, OP_LOG1}
    BY <1>2, <1>5 DEF Steer, jump, jumpi, pc_, gas_, PopJumpdest, log, Executing
  <2>2. pc' \in jumpdest_map \/ pc' = pc + 1
    BY <1>2, <1>5 DEF Steer, jump, jumpi, jump_impl, pc_, gas_, PopJumpdest, log,
                      PushResult, Continue, Halt
  <2>3. opcode # OP_STOP
    BY <2>1 DEF OP_JUMP, OP_JUMPI, OP_PC, OP_GAS, PopOp, OP_JUMPDEST, OP_LOG1, OP_STOP
  <2> QED  BY <1>1, <2>1, <2>2, <2>3, ImmediateSizes
<1>6. CASE Shuffle
  <2>1. phase = "dispatch" /\ check_requirements = "EVMC_SUCCESS"
    BY <1>6 DEF Shuffle, push0, push, dup, dup_indexed, swap, swap_indexed, dupn, swapn,
                Executing
  <2>2. CASE push
    <3>1. opcode \in PushOps /\ pc' = pc + (opcode - (OP_PUSH1 - 1)) + 1
      BY <2>2 DEF push, Executing, Continue
    <3>2. opcode # OP_STOP
      BY <3>1 DEF PushOps, OP_PUSH1, OP_PUSH32, OP_STOP
    <3>3. /\ immediate_size[opcode] = opcode - (OP_PUSH1 - 1)
          /\ immediate_size[opcode] \in 0..32
      BY <1>1, <3>1, ImmediateSizes, Zenon
    <3>4. pc' = pc + immediate_size[opcode] + 1
      BY <3>1, <3>3, Zenon
    <3>5. pc' = pc + 1 + immediate_size[opcode]
      BY <1>1, <3>3, <3>4
    <3> QED  BY <2>1, <3>2, <3>5
  <2>3. CASE dupn \/ swapn
    <3>1. opcode \in {OP_DUPN, OP_SWAPN} /\ pc' = pc + 2
      BY <2>3 DEF dupn, swapn, Executing, Continue, Halt
    <3>2. opcode # OP_STOP
      BY <3>1 DEF OP_DUPN, OP_SWAPN, OP_STOP
    <3> QED  BY <1>1, <2>1, <3>1, <3>2, ImmediateSizes
  <2>4. CASE push0 \/ dup \/ dup_indexed \/ swap \/ swap_indexed
    <3>1. opcode \in DupOps \cup SwapOps \cup {OP_PUSH0, OP_DUP, OP_SWAP}
      BY <2>4 DEF push0, dup, dup_indexed, swap, swap_indexed, Executing
    <3>2. pc' = pc + 1
      BY <2>4 DEF push0, dup, dup_indexed, swap, swap_indexed, PushResult, Continue
    <3>3. opcode # OP_STOP
      BY <3>1 DEF DupOps, SwapOps, OP_DUP1, OP_SWAP1, OP_PUSH0, OP_DUP, OP_SWAP, OP_STOP
    <3> QED  BY <1>1, <2>1, <3>1, <3>2, <3>3, ImmediateSizes
  <2> QED  BY <1>6, <2>2, <2>3, <2>4 DEF Shuffle
<1> QED  BY <1>2, <1>3, <1>4, <1>5, <1>6 DEF Dispatch

-----------------------------------------------------------------------------
(* The padded buffer.                                                      *)

\* The code iterator is at most at the last byte of the padding.
PcInv == pc <= Len(code) + 32

\* Every step keeps the iterator in the padded buffer: past the code it only
\* meets STOP.
LEMMA StepPc == IInv /\ PcInv /\ [Next]_vars => PcInv'
<1> SUFFICES ASSUME IInv, PcInv, [Next]_vars PROVE PcInv'
  OBVIOUS
<1>1. /\ pc \in Nat /\ Len(code) \in Nat /\ opcode \in Byte
      /\ jumpdest_map \in SUBSET (0..Len(code) - 1)
  BY OpcodeType DEF IInv, TypeOK
<1>2. CASE Analyze \/ UNCHANGED vars
  BY <1>2 DEF Analyze, AnalyzeStep, AnalyzeDone, PcInv, vars, fixed
<1>3. CASE Dispatch
  <2>1. code' = code
    BY <1>3, Returns
  <2>2. CASE phase' = "done"
    BY <1>3, <2>1, <2>2, Returns DEF PcInv
  <2>3. CASE phase' # "done"
    <3>1. /\ opcode # OP_STOP
          /\ pc' \in jumpdest_map \/ pc' = pc + 1 + immediate_size[opcode]
      BY <1>3, <2>3, Moves
    <3>2. pc < Len(code)
      BY <1>1, <3>1 DEF opcode, padded_code
    <3>3. immediate_size[opcode] \in 0..32
      BY <1>1, ImmediateSizes
    <3> DEFINE n == immediate_size[opcode]
    <3> HIDE DEF n
    <3>4. CASE pc' \in jumpdest_map
      <4>1. pc' \in 0..Len(code) - 1
        BY <1>1, <3>4
      <4> QED  BY <1>1, <2>1, <4>1 DEF PcInv
    <3>5. CASE pc' = pc + 1 + n
      <4>1. n \in 0..32
        BY <3>3 DEF n
      <4>2. pc' <= Len(code) + 32
        BY <1>1, <3>2, <3>5, <4>1
      <4> QED  BY <2>1, <4>2 DEF PcInv
    <3> QED  BY <3>1, <3>4, <3>5 DEF n
  <2> QED  BY <2>2, <2>3
<1> QED  BY <1>2, <1>3 DEF Next, Returned

\* pad_code pads enough: dispatch() never reads an opcode or immediate data
\* outside the padded buffer, whatever the code.
THEOREM CodeReadsSafe == Spec => []CodeReadsPadded
<1>1. Init => PcInv
  <2>1. Init => Len(code) \in Nat /\ pc = 0
    BY ProgramAssumption DEF Init
  <2> QED  BY <2>1 DEF PcInv
<1>2. IInv /\ PcInv => CodeReadsPadded
  <2> SUFFICES ASSUME IInv, PcInv
               PROVE  pc + immediate_size[opcode] < Len(code) + CodePadding
    BY DEF CodeReadsPadded
  <2> DEFINE n == immediate_size[opcode]
  <2>1. pc \in Nat /\ Len(code) \in Nat /\ n \in 0..32
    BY OpcodeType, ImmediateSizes DEF IInv, TypeOK
  <2>2. immediate_size[OP_STOP] = 0
    BY DEF immediate_size, OP_STOP, Byte, PushOps, OP_PUSH1, OP_PUSH32, OP_DUPN, OP_SWAPN
  <2>3. pc < Len(code) \/ opcode = OP_STOP
    BY DEF opcode, padded_code
  <2>4. pc < Len(code) \/ n = 0
    BY <2>2, <2>3
  <2> HIDE DEF n
  <2>5. pc + n < Len(code) + 33
    BY <2>1, <2>4 DEF PcInv
  <2> QED  BY <2>5 DEF CodePadding, n
<1> QED  BY <1>1, <1>2, StepPc, Invariance, PTL DEF Spec

-----------------------------------------------------------------------------
(* The jump destination map, before PRAGUE.                                *)

\* The jump destinations among the instructions before s.
Destinations(c, s) == {p \in Instructions(Rev, c) : p < s /\ c[p + 1] = OP_JUMPDEST}

\* The invariant of the scan: the bytes before the loop variable are walked, the
\* map holds the destinations among them, and the scan precedes the execution.
ScanInv ==
    /\ Walked(Rev, code, scan)
    /\ jumpdest_map = Destinations(code, scan)
    /\ phase = "analyze" => pc = 0
    /\ phase # "analyze" => scan >= Len(code)

\* The invariant of the scan holds before analyze_jumpdests starts.
LEMMA ScanStart == Init => ScanInv
<1> SUFFICES ASSUME Init PROVE ScanInv
  OBVIOUS
<1>1. code \in Seq(Byte)
  BY ProgramAssumption DEF Init
<1>2. Destinations(code, 0) = {}
  BY <1>1, InstructionFacts, RevAssumption DEF Destinations
<1> QED  BY <1>1, <1>2, WalkStart, RevAssumption DEF Init, ScanInv

\* An iteration of analyze_jumpdests keeps the invariant of the scan.
LEMMA ScanStep ==
    ASSUME Rev # PRAGUE, IInv, ScanInv, AnalyzeStep
    PROVE  ScanInv'
<1> DEFINE op == code[scan + 1]
<1>1. code \in Seq(Byte) /\ scan \in Nat /\ scan < Len(code) /\ Len(code) \in Nat
  BY DEF IInv, TypeOK, AnalyzeStep
<1>2. op \in Byte
  BY <1>1
<1>3. /\ Walked(Rev, code, scan + SizeAt(Rev, code, scan))
      /\ \A p \in Instructions(Rev, code) : p < scan + SizeAt(Rev, code, scan) => p <= scan
  BY <1>1, WalkStep, RevAssumption DEF ScanInv
<1>4. scan \in Instructions(Rev, code)
  BY <1>1 DEF ScanInv, Walked
<1>5. SizeAt(Rev, code, scan) = IF op \in PushOps THEN op - (OP_PUSH1 - 1) + 1 ELSE 1
  BY <1>2, LegacySizes, RevAssumption DEF SizeAt
<1>6. int8(op) >= OP_PUSH1 <=> op \in PushOps
  BY <1>2 DEF int8, OP_PUSH1, PushOps, OP_PUSH32, Byte
<1>7. scan' = scan + SizeAt(Rev, code, scan)
  <2>1. scan' = IF op \in PushOps THEN scan + (op - (OP_PUSH1 - 1)) + 1 ELSE scan + 1
    BY <1>6 DEF AnalyzeStep
  <2> HIDE DEF op
  <2>2. op \in Int
    BY <1>2 DEF Byte
  <2>3. CASE op \in PushOps
    BY <1>1, <1>5, <2>1, <2>2, <2>3 DEF OP_PUSH1
  <2>4. CASE op \notin PushOps
    BY <1>1, <1>5, <2>1, <2>4
  <2> QED  BY <2>3, <2>4
<1>8. jumpdest_map' = IF op = OP_JUMPDEST THEN jumpdest_map \cup {scan} ELSE jumpdest_map
  <2>1. op \in PushOps => op # OP_JUMPDEST
    BY DEF PushOps, OP_PUSH1, OP_PUSH32, OP_JUMPDEST
  <2> QED  BY <1>6, <2>1 DEF AnalyzeStep
<1>9. Destinations(code, scan') =
          IF op = OP_JUMPDEST THEN Destinations(code, scan) \cup {scan}
                              ELSE Destinations(code, scan)
  <2>1. ASSUME NEW p \in Instructions(Rev, code)
        PROVE  p < scan' <=> (p < scan \/ p = scan)
    <3>1. p \in Nat /\ SizeAt(Rev, code, scan) \in Nat /\ SizeAt(Rev, code, scan) > 0
      BY <1>1, <1>4, InstructionFacts, RevAssumption
    <3>2. p < scan' => p <= scan
      BY <1>3, <1>7
    <3> QED  BY <1>1, <1>7, <3>1, <3>2
  <2> QED  BY <1>4, <2>1 DEF Destinations
<1>10. UNCHANGED <<code, phase, pc>> /\ phase = "analyze"
  BY DEF AnalyzeStep, fixed
<1> QED  BY <1>3, <1>7, <1>8, <1>9, <1>10 DEF ScanInv

\* Every step keeps the invariant of the scan.
LEMMA StepScan == Rev # PRAGUE /\ IInv /\ ScanInv /\ [Next]_vars => ScanInv'
<1> SUFFICES ASSUME Rev # PRAGUE, IInv, ScanInv, [Next]_vars PROVE ScanInv'
  OBVIOUS
<1>1. CASE AnalyzeStep
  BY <1>1, ScanStep
<1>2. CASE AnalyzeDone
  BY <1>2 DEF AnalyzeDone, ScanInv, fixed, analysis
<1>3. CASE Dispatch
  <2>1. /\ phase = "dispatch" /\ phase' # "analyze"
        /\ code' = code /\ scan' = scan /\ jumpdest_map' = jumpdest_map
    BY <1>3, Returns
  <2> QED  BY <2>1 DEF ScanInv
<1>4. CASE UNCHANGED vars
  BY <1>4 DEF vars, ScanInv
<1> QED  BY <1>1, <1>2, <1>3, <1>4 DEF Next, Analyze, Returned

\* When the scan has ended, its invariant says that the map is exact.
LEMMA ScanExact == IInv /\ ScanInv => JumpdestMapExact
<1> SUFFICES ASSUME IInv, ScanInv, phase # "analyze"
             PROVE  jumpdest_map = {p \in 0..Len(code) - 1 :
                        code[p + 1] = OP_JUMPDEST /\ IsInstruction(Rev, code, p)}
  BY DEF JumpdestMapExact
<1>1. scan \in Nat /\ Len(code) \in Nat /\ scan >= Len(code)
  BY DEF IInv, TypeOK, ScanInv
<1>2. \A p \in 0..Len(code) - 1 : p < scan
  BY <1>1
<1> QED  BY <1>2 DEF ScanInv, Destinations, Instructions

\* Before PRAGUE, analyze_jumpdests marks exactly the JUMPDEST bytes that are
\* instructions, for every code.  (At PRAGUE it does not, see run dupn.)
THEOREM JumpdestMapCorrect == Rev # PRAGUE => (Spec => []JumpdestMapExact)
<1> SUFFICES ASSUME Rev # PRAGUE PROVE Spec => []JumpdestMapExact
  OBVIOUS
<1>1. IInv /\ ScanInv /\ [Next]_vars => ScanInv'
  BY StepScan
<1> QED  BY <1>1, ScanStart, ScanExact, Invariance, PTL DEF Spec

-----------------------------------------------------------------------------
(* What dispatch() executes, before PRAGUE.                                *)

\* The invariant of the execution: it rests on the map being exact.
ExecInv == ScanInv /\ ExecutesInstructions

\* An instruction that passes check_requirements has the size its traits say.
LEMMA ExecutedSize ==
    ASSUME IInv, check_requirements = "EVMC_SUCCESS"
    PROVE  InstructionSize(Rev, opcode) = 1 + immediate_size[opcode]
<1>1. opcode \in Byte
  BY OpcodeType DEF IInv
<1>2. CASE immediate_size[opcode] = 0
  BY <1>2 DEF InstructionSize
<1>3. CASE immediate_size[opcode] # 0
  <2>1. CASE opcode \in PushOps
    <3>1. base_cost[Rev][opcode] = 3
      BY <1>1, <1>3, <2>1, ImmediateCosts, RevAssumption
    <3> QED  BY <3>1 DEF InstructionSize
  <2>2. CASE opcode \notin PushOps
    <3>1. ~ has_const_gas_cost[opcode]
      BY <1>1, <1>3, <2>2, ImmediateCosts, RevAssumption
    <3>2. ~ (base_cost[Rev][opcode] < 0)
      BY <3>1 DEF check_requirements, cost_table
    <3> QED  BY <3>2 DEF InstructionSize
  <2> QED  BY <2>1, <2>2
<1> QED  BY <1>2, <1>3

\* Every step keeps the iterator on an instruction.
LEMMA StepExec == Rev # PRAGUE /\ IInv /\ ExecInv /\ [Next]_vars => ExecInv'
<1> SUFFICES ASSUME Rev # PRAGUE, IInv, ExecInv, [Next]_vars
             PROVE  ExecutesInstructions'
  BY StepScan DEF ExecInv
<1>1. code \in Seq(Byte) /\ pc \in Nat /\ Len(code) \in Nat
  BY DEF IInv, TypeOK
<1>2. CASE AnalyzeStep
  BY <1>2 DEF AnalyzeStep, ExecutesInstructions
<1>3. CASE AnalyzeDone
  <2>1. pc' = 0 /\ code' = code
    BY <1>3 DEF AnalyzeDone, ExecInv, ScanInv, fixed
  <2>2. 0 < Len(code) => IsInstruction(Rev, code, 0)
    BY <1>1, FirstInstruction, RevAssumption DEF Instructions
  <2> QED  BY <2>1, <2>2 DEF ExecutesInstructions
<1>4. CASE Dispatch
  <2>1. phase = "dispatch" /\ code' = code
    BY <1>4, Returns
  <2> SUFFICES ASSUME phase' = "dispatch", pc' < Len(code)
               PROVE  pc' \in Instructions(Rev, code)
    BY <2>1 DEF ExecutesInstructions, Instructions
  <2>2. /\ check_requirements = "EVMC_SUCCESS"
        /\ pc' \in jumpdest_map \/ pc' = pc + 1 + immediate_size[opcode]
    BY <1>4, Moves
  <2>3. CASE pc' \in jumpdest_map
    BY <2>3 DEF ExecInv, ScanInv, Destinations
  <2>4. CASE pc' = pc + 1 + immediate_size[opcode]
    <3> DEFINE n == immediate_size[opcode]
    <3>1. n \in 0..32
      BY OpcodeType, ImmediateSizes DEF IInv
    <3>2. pc' = pc + 1 + n
      BY <2>4
    <3> HIDE DEF n
    <3>3. pc' = pc + (1 + n) /\ pc < Len(code) /\ pc \in 0..Len(code) - 1
      BY <1>1, <3>1, <3>2
    <3>4. pc \in Instructions(Rev, code)
      BY <2>1, <3>3 DEF ExecInv, ExecutesInstructions, Instructions
    <3>5. opcode = code[pc + 1]
      BY <3>3 DEF opcode, padded_code
    <3>6. SizeAt(Rev, code, pc) = 1 + n
      BY <2>2, <3>5, ExecutedSize DEF SizeAt, n
    <3> QED  BY <1>1, <3>3, <3>4, <3>6, NextInstruction, RevAssumption
  <2> QED  BY <2>2, <2>3, <2>4
<1>5. CASE UNCHANGED vars
  BY <1>5 DEF vars, ExecInv, ExecutesInstructions
<1> QED  BY <1>2, <1>3, <1>4, <1>5 DEF Next, Analyze, Returned

\* Before PRAGUE, dispatch() never executes immediate data, for every code.
THEOREM OnlyInstructionsExecuted == Rev # PRAGUE => (Spec => []ExecutesInstructions)
<1> SUFFICES ASSUME Rev # PRAGUE PROVE Spec => []ExecutesInstructions
  OBVIOUS
<1>1. Init => ExecInv
  BY ScanStart DEF ExecInv, ExecutesInstructions, Init
<1>2. IInv /\ ExecInv /\ [Next]_vars => ExecInv'
  BY StepExec
<1>3. ExecInv => ExecutesInstructions
  BY DEF ExecInv
<1> QED  BY <1>1, <1>2, <1>3, Invariance, PTL DEF Spec

-----------------------------------------------------------------------------
(* Progress of the loop of dispatch().                                     *)

\* A mapped opcode with a constant cost has one in the FRONTIER table.
LEMMA MappedCosts ==
    ASSUME NEW op \in MappedOps, has_const_gas_cost[op]
    PROVE  op \in Byte /\ base_cost[Rev][op] \in Nat
<1>1. op \in Byte
  BY DEF MappedOps, Byte
<1>2. frontier_costs[op] # undefined
  <2>1. CASE op \in {61, 62, 250, 253, 27, 29, 63, 245, 70, 71, 72, 73, 94, 74, 92, 93, 244}
                     \cup 224..235
    <3>1. gas_costs[PRAGUE][op] \in Nat
      BY <1>1, <2>1 DEF gas_costs, Revision, FRONTIER, HOMESTEAD, TANGERINE_WHISTLE,
         BYZANTIUM, CONSTANTINOPLE, ISTANBUL, BERLIN, LONDON, CANCUN, PRAGUE, ShiftOps,
         OP_TSTORE, OP_DUPN, OP_SWAPN
    <3>2. gas_costs[PRAGUE][op] = frontier_costs[op]
      BY <1>1 DEF has_const_gas_cost, Revision, FRONTIER, PRAGUE
    <3> QED  BY <3>1, <3>2 DEF undefined
  <2>2. CASE op \notin {61, 62, 250, 253, 27, 29, 63, 245, 70, 71, 72, 73, 94, 74, 92, 93, 244}
                        \cup 224..235
    BY <1>1, <2>2 DEF MappedOps, frontier_costs, undefined, Byte, PushOps, OP_PUSH1, OP_PUSH32,
       OP_STOP, OP_LOG1, OP_INVALID, OP_JUMPDEST, EnvironmentOps, CodesizeOp, PopOp, OP_PC,
       OP_GAS, OP_PUSH0, IszeroOp, NotOp, ByteOp, OP_SWAP, OP_DUP, CompareOps, BitwiseOps,
       MloadOps, MstoreOps, DupOps, SwapOps, OP_DUP1, OP_SWAP1, SignextendOp, AddmodOp,
       OP_MULMOD, OP_JUMP, OP_EXP, OP_JUMPI, LogOps
  <2> QED  BY <2>1, <2>2
<1>3. frontier_costs[op] \in Nat
  <2>1. \/ frontier_costs[op] \in {0, 1, 2, 3, 5, 8, 10, 20, 30, 40, 50, 32000, undefined}
        \/ op \in LogOps /\ frontier_costs[op] = (op - 159) * 375
    BY <1>1 DEF frontier_costs
  <2> QED  BY <1>2, <2>1 DEF LogOps
<1> QED  BY <1>1, <1>3, RevAssumption DEF base_cost

\* Jumps are not free.
LEMMA JumpCosts ==
    ASSUME NEW op \in {OP_JUMP, OP_JUMPI}
    PROVE  base_cost[Rev][op] \in {8, 10}
<1>1. op \in Byte
  BY DEF OP_JUMP, OP_JUMPI, Byte
<1>2. frontier_costs[op] \in {8, 10}
  BY <1>1 DEF frontier_costs, undefined, Byte, PushOps, OP_PUSH1, OP_PUSH32,
     OP_STOP, OP_LOG1, OP_INVALID, OP_JUMPDEST, EnvironmentOps, CodesizeOp, PopOp, OP_PC,
     OP_GAS, OP_PUSH0, IszeroOp, NotOp, ByteOp, OP_SWAP, OP_DUP, CompareOps, BitwiseOps,
     MloadOps, MstoreOps, DupOps, SwapOps, OP_DUP1, OP_SWAP1, SignextendOp, AddmodOp,
     OP_MULMOD, OP_JUMP, OP_EXP, OP_JUMPI, LogOps
<1>3. ASSUME NEW rev \in Revision PROVE gas_costs[rev][op] = frontier_costs[op]
  BY <1>1 DEF gas_costs, ShiftOps, OP_TSTORE, OP_DUPN, OP_SWAPN, OP_JUMP, OP_JUMPI
<1>4. has_const_gas_cost[op]
  BY <1>1, <1>3 DEF has_const_gas_cost
<1> QED  BY <1>1, <1>2, <1>4, RevAssumption DEF base_cost

\* Unless it returns, an iteration runs a mapped opcode, leaves no more gas than
\* its base cost leaves, and moves forward if the opcode is not a jump.
LEMMA Spends ==
    IInv /\ Dispatch =>
        \/ phase' = "done"
        \/ /\ opcode \in MappedOps
           /\ gas' \in Int /\ charged \in Int /\ gas' <= charged
           /\ pc' > pc \/ opcode \in {OP_JUMP, OP_JUMPI}
<1> SUFFICES ASSUME IInv, Dispatch, phase' # "done"
             PROVE  /\ opcode \in MappedOps
                    /\ gas' \in Int /\ charged \in Int /\ gas' <= charged
                    /\ pc' > pc \/ opcode \in {OP_JUMP, OP_JUMPI}
  OBVIOUS
<1>1. opcode \in Byte /\ pc \in Nat /\ charged \in Int
  <2>1. opcode \in Byte
    BY OpcodeType DEF IInv
  <2> QED  BY <2>1, CostType DEF charged, cost_table, IInv, TypeOK
<1>2. ~ RequirementsFail /\ ~ NoSuchCase /\ ~ Stop
  BY DEF RequirementsFail, NoSuchCase, Stop, Halt
<1>3. CASE Operate
  <2>1. /\ pc' = pc + 1
        /\ opcode \in ArithOps \cup CompareOps \cup BitwiseOps \cup ShiftOps
                      \cup {AddmodOp, OP_MULMOD, OP_EXP, SignextendOp, IszeroOp,
                            NotOp, ByteOp}
    BY <1>3 DEF Operate, Arith, addmod, mulmod, exp, signextend, Compare, iszero, Bitwise,
                not_, ByteAndShift, BinaryResult, UnaryResult, Executing, Continue, Halt
  <2>2. opcode \in MappedOps
    BY <2>1 DEF MappedOps, ArithOps, CompareOps, BitwiseOps, ShiftOps, AddmodOp, OP_MULMOD,
                OP_EXP, SignextendOp, IszeroOp, NotOp, ByteOp
  <2>3. CASE exp
    <3>1. PICK n \in 0..WordBytes :
              gas' = charged - n * (IF Rev >= SPURIOUS_DRAGON THEN 50 ELSE 10)
      BY <2>3 DEF exp, BinaryResult, Continue, Halt
    <3>2. gas' = charged - n * 50 \/ gas' = charged - n * 10
      BY <3>1
    <3>3. n \in Nat
      BY DEF WordBytes
    <3>4. gas' \in Int /\ gas' <= charged
      BY <1>1, <3>2, <3>3
    <3> QED  BY <1>1, <2>1, <2>2, <3>4
  <2>4. CASE ~ exp
    <3>1. gas' = charged
      BY <1>3, <2>4 DEF Operate, Arith, addmod, mulmod, signextend, Compare, iszero, Bitwise,
                        not_, ByteAndShift, BinaryResult, UnaryResult, Continue
    <3> QED  BY <1>1, <2>1, <2>2, <3>1
  <2> QED  BY <2>3, <2>4
<1>4. CASE Consult
  <2>1. /\ pc' = pc + 1
        /\ opcode \in LookupOps \cup AccountOps \cup EnvironmentOps
                      \cup {CodesizeOp, OP_TSTORE}
    BY <1>4 DEF Consult, Environment, Lookup, AccountLookup, codesize, tstore, UnaryResult,
                PushResult, Executing, Continue, Halt
  <2>2. opcode \in MappedOps
    BY <2>1 DEF MappedOps, LookupOps, AccountOps, EnvironmentOps, CodesizeOp, OP_TSTORE
  <2>3. gas' \in {charged, charged - additional_cold_account_access_cost}
    BY <1>4 DEF Consult, Environment, Lookup, AccountLookup, codesize, tstore, UnaryResult,
                PushResult, Continue, Halt
  <2>4. gas' \in Int /\ gas' <= charged
    BY <1>1, <2>3 DEF additional_cold_account_access_cost
  <2> QED  BY <1>1, <2>1, <2>2, <2>4
<1>5. CASE Steer
  <2>1. /\ opcode \in {OP_JUMP, OP_JUMPI, OP_PC, OP_GAS, PopOp, OP_JUMPDEST, OP_LOG1}
        /\ gas' = charged
        /\ pc' = pc + 1 \/ opcode \in {OP_JUMP, OP_JUMPI}
    BY <1>2, <1>5 DEF Steer, jump, jumpi, jump_impl, pc_, gas_, PopJumpdest, log,
                      PushResult, Executing, Continue, Halt
  <2>2. opcode \in MappedOps
    BY <2>1 DEF MappedOps, OP_JUMP, OP_JUMPI, OP_PC, OP_GAS, PopOp, OP_JUMPDEST, OP_LOG1
  <2> QED  BY <1>1, <2>1, <2>2
<1>6. CASE Shuffle
  <2>1. /\ opcode \in PushOps \cup DupOps \cup SwapOps
                      \cup {OP_PUSH0, OP_DUP, OP_SWAP, OP_DUPN, OP_SWAPN}
        /\ gas' = charged
        /\ \/ pc' = pc + 1
           \/ pc' = pc + 2
           \/ opcode \in PushOps /\ pc' = pc + (opcode - (OP_PUSH1 - 1)) + 1
    BY <1>6 DEF Shuffle, push0, push, dup, dup_indexed, swap, swap_indexed, dupn, swapn,
                PushResult, Executing, Continue, Halt
  <2>2. opcode \in MappedOps
    BY <2>1 DEF MappedOps, PushOps, OP_PUSH1, OP_PUSH32, DupOps, SwapOps, OP_DUP1, OP_SWAP1,
                OP_PUSH0, OP_DUP, OP_SWAP, OP_DUPN, OP_SWAPN
  <2>3. pc' > pc
    BY <1>1, <2>1 DEF PushOps, OP_PUSH1, OP_PUSH32
  <2> QED  BY <1>1, <2>1, <2>2, <2>3
<1> QED  BY <1>2, <1>3, <1>4, <1>5, <1>6 DEF Dispatch

\* An iteration returns, spends gas or moves forward for the same gas.
LEMMA StepAdvances ==
    IInv /\ Dispatch =>
        phase' = "done" \/ gas' < gas \/ (gas' = gas /\ pc' > pc)
<1> SUFFICES ASSUME IInv, Dispatch, phase' # "done"
             PROVE  gas' < gas \/ (gas' = gas /\ pc' > pc)
  OBVIOUS
<1> DEFINE cost == base_cost[Rev][opcode]
<1>1. /\ opcode \in MappedOps /\ gas' \in Int /\ gas' <= charged
      /\ pc' > pc \/ opcode \in {OP_JUMP, OP_JUMPI}
  BY Spends
<1>2. opcode \in Byte /\ gas \in Int /\ cost \in Int /\ charged = gas - cost
  <2>1. opcode \in Byte
    BY OpcodeType DEF IInv
  <2> QED  BY <2>1, CostType DEF charged, cost_table, IInv, TypeOK
<1>3. cost >= 0
  <2>1. CASE has_const_gas_cost[opcode]
    BY <1>1, <2>1, MappedCosts
  <2>2. CASE ~ has_const_gas_cost[opcode]
    <3>1. ~ (cost < 0)
      BY <2>2, Moves DEF check_requirements, cost_table
    <3> QED  BY <1>2, <3>1
  <2> QED  BY <2>1, <2>2
<1>4. opcode \in {OP_JUMP, OP_JUMPI} => cost > 0
  BY JumpCosts
<1> HIDE DEF cost
<1> QED  BY <1>1, <1>2, <1>3, <1>4

\* Every iteration of dispatch() decreases (gas, bytes to the end of the padded
\* code) lexicographically or returns: with the bound of CodeReadsSafe, what makes
\* the loop terminate.
THEOREM LoopAdvances == Spec => Advances
<1>1. IInv /\ [Next]_vars =>
          [phase = "dispatch" =>
               phase' = "done" \/ gas' < gas \/ (gas' = gas /\ pc' > pc)]_vars
  BY StepAdvances DEF Next, Analyze, AnalyzeStep, AnalyzeDone, Returned
<1> QED  BY <1>1, Invariance, PTL DEF Spec, Advances

-----------------------------------------------------------------------------
(* The trace of a program.                                                 *)

\* No instruction of the programs is one of ops.  What lies in the immediate data of
\* an instruction may be any byte.
ProgramsAvoid(ops) ==
    \A c \in Programs : \A p \in 0..Len(c) - 1 :
        IsInstruction(Rev, c, p) => c[p + 1] \notin ops

\* While dispatch() executes instructions only, such programs do not execute one of
\* ops, and neither does the padding, which is STOP.
LEMMA NeverExecuted ==
    ASSUME NEW ops, OP_STOP \notin ops, ProgramsAvoid(ops)
    PROVE  IInv /\ ExecutesInstructions => ~ Executing(ops)
<1> SUFFICES ASSUME IInv, ExecutesInstructions, Executing(ops) PROVE FALSE
  OBVIOUS
<1>1. phase = "dispatch" /\ opcode \in ops
  BY DEF Executing
<1>2. pc \in Nat /\ code \in Programs /\ code \in Seq(Byte)
  BY DEF IInv, TypeOK
<1>3. CASE pc < Len(code)
  <2>1. pc \in 0..Len(code) - 1 /\ opcode = code[pc + 1]
    BY <1>2, <1>3 DEF opcode, padded_code
  <2>2. IsInstruction(Rev, code, pc)
    BY <1>1, <1>3 DEF ExecutesInstructions
  <2> QED  BY <1>1, <1>2, <2>1, <2>2 DEF ProgramsAvoid
<1>4. CASE ~ (pc < Len(code))
  BY <1>1, <1>4 DEF opcode, padded_code
<1> QED  BY <1>3, <1>4

\* Before PRAGUE, a program without MULMOD, the indexed DUP and SWAP, SWAP1 to SWAP16
\* and PUSH2 to PUSH31 has a trace whose stack reads are explained and which accounts
\* for its stack, whatever its jumps and data.
THEOREM ProgramsExplained ==
    ASSUME Rev # PRAGUE, ProgramsAvoid(Misreported)
    PROVE  Spec => [](TraceCoherent /\ StackTraced)
<1>1. OP_STOP \notin Misreported
  BY DEF Misreported, OP_STOP, OP_MULMOD, OP_DUP, OP_SWAP, SwapOps, OP_SWAP1,
         PushOps, OP_PUSH1, OP_PUSH32
<1>2. IInv /\ ExecutesInstructions => Reporting
  BY <1>1, NeverExecuted DEF Reporting
<1> QED  BY <1>2, Invariance, OnlyInstructionsExecuted, ReadsExplained, StackExplained, PTL

\* Before PRAGUE, the instructions of a program without the indexed DUP and SWAP,
\* DUPN, SWAPN and PUSH2 to PUSH31 touch only what their traits declare.
THEOREM ProgramsDeclared ==
    ASSUME Rev # PRAGUE, ProgramsAvoid(Undeclared)
    PROVE  Spec => OperandsDeclared
<1>1. OP_STOP \notin Undeclared
  BY DEF Undeclared, OP_STOP, OP_DUP, OP_SWAP, OP_DUPN, OP_SWAPN,
         PushOps, OP_PUSH1, OP_PUSH32
<1>2. IInv /\ ExecutesInstructions => Declaring
  BY <1>1, NeverExecuted DEF Declaring
<1> QED  BY <1>2, Invariance, OnlyInstructionsExecuted, TraitsTrusted, PTL

=============================================================================
