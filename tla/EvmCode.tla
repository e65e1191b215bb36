------------------------------ MODULE EvmCode ------------------------------
(***************************************************************************)
(* Bytecode as the interpreter sees it: the opcodes, the per-revision      *)
(* table of base gas costs, the table of instruction traits, the padded    *)
(* code buffer and what an instruction boundary is.  Everything here is    *)
(* a table or a function of the code; the machines that use it are in      *)
(* the other modules.                                                      *)
(*                                                                         *)
(* A code is a sequence of bytes.  Positions are the offsets of the C++    *)
(* code, so position 0 is the byte code[1] of the sequence.                *)
(***************************************************************************)
EXTENDS Integers, Sequences

Byte == 0..255

-----------------------------------------------------------------------------
(* EVM revisions (evmc_revision) that a table below distinguishes.         *)

FRONTIER          == 0
HOMESTEAD         == 1
TANGERINE_WHISTLE == 2
SPURIOUS_DRAGON   == 3
BYZANTIUM         == 4
CONSTANTINOPLE    == 5
ISTANBUL          == 7
BERLIN            == 8
LONDON            == 9
SHANGHAI          == 11
CANCUN            == 12
PRAGUE            == 13
Revision          == FRONTIER..PRAGUE

-----------------------------------------------------------------------------
(* Opcodes.  Contiguous opcodes with the same handler shape are ranges.    *)

OP_STOP       == 0
OP_MULMOD     == 9
OP_EXP        == 10
OP_JUMP       == 86
OP_JUMPI      == 87
OP_PC         == 88
OP_GAS        == 90
OP_JUMPDEST   == 91
OP_TSTORE     == 93
OP_PUSH0      == 95
OP_PUSH1      == 96
OP_PUSH32     == 127
OP_DUP1       == 128
OP_SWAP1      == 144
OP_LOG1       == 161
OP_SWAP       == 166
OP_DUP        == 167
OP_DUPN       == 230
OP_SWAPN      == 231
OP_INVALID    == 254

PushOps       == OP_PUSH1..OP_PUSH32
DupOps        == OP_DUP1..143
SwapOps       == OP_SWAP1..159
LogOps        == 160..164

ArithOps      == 1..7                 \* ADD MUL SUB DIV SDIV MOD SMOD
CompareOps    == 16..20               \* LT GT SLT SGT EQ
BitwiseOps    == 22..24               \* AND OR XOR
ShiftOps      == 27..29               \* SHL SHR SAR
AddmodOp      == 8
SignextendOp  == 11
IszeroOp      == 21
NotOp         == 25
ByteOp        == 26
CodesizeOp    == 56
PopOp         == 80

\* ADDRESS ORIGIN CALLER CALLVALUE CALLDATASIZE GASPRICE RETURNDATASIZE
\* COINBASE..SELFBALANCE BASEFEE BLOBBASEFEE MSIZE: push a word that comes
\* from the message, the transaction context, the host or the memory size.
EnvironmentOps == {48, 50, 51, 52, 54, 58, 61, 72, 74, 89} \cup 65..71

\* CALLDATALOAD BLOCKHASH BLOBHASH TLOAD: replace the top by a word looked up.
LookupOps      == {53, 64, 73, 92}

\* BALANCE EXTCODESIZE EXTCODEHASH: the same, with an account access charge.
AccountOps     == {49, 59, 63}

\* Ternary copies: CALLDATACOPY CODECOPY RETURNDATACOPY MCOPY DATACOPY.
CopyOps        == {55, 57, 62, 94, 235}

MloadOps       == {81} \cup 192..195  \* MLOAD, MLOAD8..MLOAD64
MstoreOps      == {82, 83} \cup 176..178

\* RJUMP RJUMPI RJUMPV CALLF RETF JUMPF DATALOAD DATALOADN DATASIZE DATACOPY,
\* which legacy_cost_tables undefine at PRAGUE.
EofOnlyOps     == 224..229 \cup 232..235

-----------------------------------------------------------------------------
(* Base gas costs.                                                         *)

undefined == -1

\* instr::gas_costs[FRONTIER]: the costs of the first revision.
frontier_costs == [op \in Byte |->
    CASE op \in {OP_STOP, 85, OP_LOG1, 243, OP_INVALID, 255}  -> 0
      [] op = OP_JUMPDEST                                     -> 1
      [] op \in (EnvironmentOps \ {61, 70, 71, 72, 74})
               \cup {CodesizeOp, PopOp, OP_PC, OP_GAS, OP_PUSH0} -> 2
      [] op \in {1, 3, IszeroOp, NotOp, ByteOp, 28, 53, 55, 57, 165,
                 OP_SWAP, OP_DUP}
               \cup CompareOps \cup BitwiseOps \cup MloadOps \cup MstoreOps
               \cup PushOps \cup DupOps \cup SwapOps          -> 3
      [] op \in {2} \cup 4..7 \cup {SignextendOp}             -> 5
      [] op \in {AddmodOp, OP_MULMOD, OP_JUMP}                -> 8
      [] op \in {OP_EXP, OP_JUMPI}                            -> 10
      [] op \in {49, 59, 60, 64}                              -> 20
      [] op = 32                                              -> 30
      [] op \in {241, 242}                                    -> 40
      [] op = 84                                              -> 50
      [] op \in LogOps \ {OP_LOG1}                            -> (op - 159) * 375
      [] op = 240                                             -> 32000
      [] OTHER                                                -> undefined]

\* instr::gas_costs[rev]: each revision copies the one before and overrides.
gas_costs == [rev \in Revision |-> [op \in Byte |->
    CASE op = 49 /\ rev >= TANGERINE_WHISTLE ->
             IF rev >= BERLIN THEN 100 ELSE IF rev >= ISTANBUL THEN 700 ELSE 400
      [] op \in {59, 60, 241, 242} /\ rev >= TANGERINE_WHISTLE ->
             IF rev >= BERLIN THEN 100 ELSE 700
      [] op = 84 /\ rev >= TANGERINE_WHISTLE ->
             IF rev >= BERLIN THEN 100 ELSE IF rev >= ISTANBUL THEN 800 ELSE 200
      [] op = 255 /\ rev >= TANGERINE_WHISTLE -> 5000
      [] op = 244 /\ rev >= HOMESTEAD ->
             IF rev >= BERLIN THEN 100
             ELSE IF rev >= TANGERINE_WHISTLE THEN 700 ELSE 40
      [] op = 61 /\ rev >= BYZANTIUM -> 2
      [] op = 62 /\ rev >= BYZANTIUM -> 3
      [] op = 250 /\ rev >= BYZANTIUM -> IF rev >= BERLIN THEN 100 ELSE 700
      [] op = 253 /\ rev >= BYZANTIUM -> 0
      [] op \in ShiftOps /\ rev >= CONSTANTINOPLE -> 3
      [] op = 63 /\ rev >= CONSTANTINOPLE ->
             IF rev >= BERLIN THEN 100 ELSE IF rev >= ISTANBUL THEN 700 ELSE 400
      [] op = 245 /\ rev >= CONSTANTINOPLE -> 32000
      [] op = 70 /\ rev >= ISTANBUL -> 2
      [] op = 71 /\ rev >= ISTANBUL -> 5
      [] op = 72 /\ rev >= LONDON -> 2
      [] op \in {73, 94} /\ rev >= CANCUN -> 3
      [] op = 74 /\ rev >= CANCUN -> 2
      [] op \in {92, OP_TSTORE} /\ rev >= CANCUN -> 100
      [] op \in {OP_DUPN, OP_SWAPN, 228, 233, 235} /\ rev >= PRAGUE -> 3
      [] op \in {224, 234} /\ rev >= PRAGUE -> 2
      [] op \in {225, 226, 232} /\ rev >= PRAGUE -> 4
      [] op \in {227, 229} /\ rev >= PRAGUE -> 5
      [] OTHER -> frontier_costs[op]]]

\* get_baseline_cost_table(rev, 0): the table used for legacy (non-EOF) code.
legacy_cost_tables == [rev \in Revision |-> [op \in Byte |->
    IF rev = PRAGUE /\ op \in EofOnlyOps THEN undefined
                                         ELSE gas_costs[rev][op]]]

\* instr::has_const_gas_cost.
has_const_gas_cost == [op \in Byte |->
    \A rev \in Revision : gas_costs[rev][op] = frontier_costs[op]]

\* The cost check_requirements charges: constant costs come from the FRONTIER
\* row, the others from the table of the revision.
base_cost == [rev \in Revision |-> [op \in Byte |->
    IF has_const_gas_cost[op] THEN frontier_costs[op]
                              ELSE legacy_cost_tables[rev][op]]]

-----------------------------------------------------------------------------
(* Instruction traits.                                                     *)

\* traits[op].stack_height_required.
stack_height_required == [op \in Byte |->
    CASE op \in LookupOps \cup AccountOps \cup MloadOps
               \cup {IszeroOp, NotOp, PopOp, 84, OP_JUMP, OP_DUP, OP_SWAP,
                     225, 226, 232, 255}                      -> 1
      [] op \in ArithOps \cup CompareOps \cup BitwiseOps \cup ShiftOps
               \cup MstoreOps
               \cup {OP_EXP, SignextendOp, ByteOp, 32, 85, OP_JUMPI,
                     OP_TSTORE, 160, 243, 253}                -> 2
      [] op \in CopyOps \cup {AddmodOp, OP_MULMOD, OP_LOG1, 240} -> 3
      [] op \in {60, 162, 245}                                -> 4
      [] op = 163                                             -> 5
      [] op \in {164, 244, 250}                               -> 6
      [] op \in {241, 242}                                    -> 7
      [] op \in DupOps                                        -> op - 127
      [] op \in SwapOps                                       -> op - 142
      [] OTHER                                                -> 0]

\* traits[op].stack_height_change.
stack_height_change == [op \in Byte |->
    CASE op \in EnvironmentOps \cup PushOps \cup DupOps
               \cup {CodesizeOp, OP_PC, OP_GAS, OP_PUSH0, OP_DUPN, 233, 234}
                                                              -> 1
      [] op \in ArithOps \cup CompareOps \cup BitwiseOps \cup ShiftOps
               \cup {OP_EXP, SignextendOp, ByteOp, 32, PopOp, OP_JUMP,
                     OP_SWAP, 225, 226, 255}                  -> -1
      [] op \in MstoreOps \cup {AddmodOp, OP_MULMOD, 85, OP_JUMPI, OP_TSTORE,
                                160, 240, 243, 253}           -> -2
      [] op \in CopyOps \cup {OP_LOG1, 245}                   -> -3
      [] op \in {60, 162}                                     -> -4
      [] op \in {163, 244, 250}                               -> -5
      [] op \in {164, 241, 242}                               -> -6
      [] OTHER                                                -> 0]

\* traits[op].immediate_size.
immediate_size == [op \in Byte |->
    CASE op \in PushOps                                       -> op - 95
      [] op \in {226, OP_DUPN, OP_SWAPN}                      -> 1
      [] op \in {224, 225, 227, 229, 233}                     -> 2
      [] OTHER                                                -> 0]

\* MAP_OPCODES: the opcodes the switch of invoke() has a case for.  The others
\* (among them LOG0, LOG2..LOG4 and PRINTF, which have a cost) hit default.
MappedOps ==
    0..11 \cup 16..29 \cup {32} \cup 48..74 \cup 80..159 \cup {161, 166, 167}
    \cup 176..178 \cup 192..195 \cup 224..235 \cup 240..245
    \cup {250, 253, 254, 255}

-----------------------------------------------------------------------------
(* The code buffer.                                                        *)

\* Mutant of CodePadding: no byte for the STOP.
CodePadding_no_stop == 32

\* pad_code: 32 bytes for the missing data of a PUSH32 and one for a STOP.
CodePadding == 32 + 1

\* padded_code[p], for p in 0..Len(code) + CodePadding - 1.
padded_code(code, p) == IF p < Len(code) THEN code[p + 1] ELSE OP_STOP

\* is_eof_container: the EOF magic 0xEF00 that sends analyze() to analyze_eof1.
is_eof_container(code) == Len(code) >= 2 /\ code[1] = 239 /\ code[2] = 0

-----------------------------------------------------------------------------
(***************************************************************************)
(* The reference for everything that walks code: the instruction           *)
(* boundaries of a code at a revision.  An instruction of legacy code is   *)
(* its opcode followed by the immediate its traits declare, if the opcode  *)
(* is defined at that revision.                                            *)
(***************************************************************************)

InstructionSize(rev, op) ==
    IF base_cost[rev][op] < 0 THEN 1 ELSE 1 + immediate_size[op]

\* A set of positions of the code that holds the first one and, with every
\* position, the next instruction if that is still in the code.
ClosedUnderNext(rev, code, S) ==
    /\ Len(code) > 0 => 0 \in S
    /\ \A p \in S : LET q == p + InstructionSize(rev, code[p + 1])
                    IN  q < Len(code) => q \in S

\* The instructions are the positions in every closed set, that is, the
\* least closed set.
IsInstruction(rev, code, p) ==
    \A S \in SUBSET (0..Len(code) - 1) :
        ClosedUnderNext(rev, code, S) => p \in S

=============================================================================
