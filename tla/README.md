# evm-assigner in TLA+

`evm-assigner` is an EVM interpreter (a port of evmone's baseline interpreter on
`zkevm_word`) that, while it runs a contract, collects the stack, memory and
storage accesses of every frame and fills two tables of a zkEVM circuit from
them: the RW table and the bytecode table. This directory holds TLA+ models of
the interpreter, of its calls and host, of EOF validation and of the two
assignments, TLC configurations that check them on small instances, and TLAPS
proofs of what matters most for instances of every size.

Paths below are relative to `src/lib/assigner/`.

## 1. Inventory

| Component | State | Operations | Source |
|---|---|---|---|
| Code analysis | `jumpdest_map`, padded code | `analyze`, `analyze_legacy`, `analyze_jumpdests`, `pad_code` | `evmone/baseline.cpp` |
| Opcode tables | constants | `gas_costs`, `traits`, `has_const_gas_cost`, the switch of `dispatch` | `evmone/instructions_traits.hpp`, `instructions_xmacro.hpp` |
| Dispatch loop | code iterator, stack pointer, gas | `check_requirements`, `invoke`, `dispatch` | `evmone/baseline.hpp`, `baseline.cpp` |
| Stack, control and gas instructions | stack, gas, `rw_trace` | the handlers `add` ... `swapn` | `evmone/instructions.hpp` |
| Memory instructions | `Memory`, gas, output, `rw_trace` | `check_memory`, `grow_memory`, `Memory::grow`, `mload`, `mstore`, `keccak256`, copies, `return_impl` | `evmone/instructions.hpp`, `execution_state.hpp` |
| Calls, creation, storage | host accounts, nested frames | `call_impl`, `create_impl`, `selfdestruct`, `sload`, `sstore` | `evmone/instructions.hpp` |
| Evaluation | one `ExecutionState` per frame | `assigner::evaluate` | `include/assigner.hpp` |
| RW assignment | `rw_table` | `rw_operation`, `operator<`, `process_rw_operations` | `include/rw.hpp` |
| Bytecode assignment | `bytecode_table` | `process_bytecode_input` | `include/bytecode.hpp` |
| VM host | account and storage maps | `get_storage`, `set_storage`, `set_transient_storage`, `call`, `handle_call`, `handle_create`, `calculate_address` | `include/vm_host.hpp` |
| `zkevm_word` | a 256-bit word | conversions, comparison, load, arithmetic (intx) | `include/zkevm_word.hpp` |
| EOF | container sections; call stack | `validate_eof` and its validators, `read_valid_eof1_header`, `analyze_eof1`, RJUMP, CALLF, ... | `evmone/eof.cpp`, `baseline.cpp`, `instructions.hpp` |

**How they interact.** `evaluate` creates the state of a frame, analyses its code,
runs `dispatch` to its end and then assigns the frame's rows. A handler of a call
or create instruction goes through the host back into `evaluate`, so a nested
frame runs, and is assigned, inside one instruction of its caller. Accounts in the
host are the only state that frames share besides the two tables. Everything is
one thread: there is no concurrency, no message passing, no persistence.

**What is hard.** With no threads, the difficulties are those of long legal
sequences and of agreement between parts written separately:

* three places decide what is an instruction and what is immediate data (the
  analysis, the dispatch loop, the bytecode table), and they must agree on every
  byte string;
* safety of the unchecked stack pointer rests on tables (stack requirement and
  change, gas per revision) that must match what each handler does;
* code reads, memory accesses and outputs are unchecked pointers made safe by a
  padding, a gas check, or a truncating conversion;
* `rw_trace` is written by hand in every handler, so each handler is a chance to
  trace a wrong slot, a wrong value or the wrong moment;
* the advice columns of the RW table relate each row to the one above, within a
  frame and across the frame that was assigned before;
* calls pass gas, static mode and pointers to code down through the host and
  results back up, and a frame that fails undoes nothing in the host;
* EOF handlers check nothing at run time: a second parser, jumps, returns and data
  loads rely on what the validator established before.

`PROJECT.json` lists these under `hazards`, line by line, with the properties
that would catch each one.

## 2. Modules

| Module | Models | Checked by | Proofs |
|---|---|---|---|
| `EvmCode` | opcodes, gas tables, traits, padding, what an instruction boundary is | through its users | lemmas in `WalkProofs` |
| `Interpreter` | `analyze_jumpdests` and `dispatch` with every handler that uses only stack, code iterator and gas | `MCInterpreter` | `InterpreterProofs`, `CodeProofs` |
| `EvmMemory` | the memory instructions with their growth and its cost | `MCEvmMemory` | `MemoryProofs` |
| `CallFrames` | `evaluate`, the instructions that call, create, store, self-destruct or return, and `VMHost` | `MCCallFrames` | `CallFramesProofs` |
| `GasBudget` | abstract: what calls promise about gas | refined by `CallFrames` | the refinement, in `CallFramesProofs` |
| `EofCode` | `validate_eof`, the parser of valid headers, execution of valid code | `MCEofCode` | `EofProofs` |
| `RwTable` | the traces of nested frames and `process_rw_operations` | `MCRwTable` | `RwTableProofs` |
| `BytecodeTable` | `process_bytecode_input` | `MCBytecodeTable` | `BytecodeTableProofs` |

### Interpreter

The state is that of `dispatch`: the offset `pc` of the code iterator, the array
`stack_space` and the stack `height`, `gas`, `status`, `rw_trace`, and the loop
variable and bitmap of the analysis. The array keeps what was popped, as in the
code, because a wrong trace may read it. Each action is a handler, or a group of
handlers that differ only in the value computed; its guard `Executing(ops)` says
that `check_requirements` passed, and `charged` is the gas after the base cost.
`RequirementsFail` is the four checks in their order; `NoSuchCase` the default of
the switch. What an arithmetic unit or the host returns is any word of the
constant `Results`: no property depends on which one. The three conversions that
do matter are kept: to `uint64_t` (drops limbs), to `int` (may turn negative,
`swap_indexed` and `dup_indexed`) and to `uint16_t` (the trace address).

The comparison of `analyze_jumpdests` is signed, as in the code: `int8(op) >=
OP_PUSH1` skips data for PUSH1..PUSH32 alone, because opcodes from 0x80 are
negative.

### EvmMemory

A word is a number and a memory a function from the addresses below `m_size`.
Every handler is one action: `check_memory` (the limit `max_buffer_size`, then
`grow_memory`, which may end in out of gas *after* the gas was reduced), the cost
of copied words, the effect, the trace. Truncation of operands to `uint64_t` is
`% LimbMod`. The order matters and is kept: an operand is checked as a full word
and used truncated. Bytes at or above `m_size` are unspecified (`StrayBytes`).
The stack is represented by the operands, since their positions are the subject
of `Interpreter`.

`CopySource` stands for CALLDATACOPY and CODECOPY, whose handlers are the same
but for the buffer they copy. `mstore8` is not modelled: no opcode
maps to it, `OP_MSTORE8` is an instance of the template `mstore`.

DATACOPY clears what lies behind its source and traces those zeros from the start
of the copy, as the code does.

### CallFrames and GasBudget

The state is the stack of running frames (recipient, sender, static flag, gas, gas
of the message, revision, code and where it is from), the accounts of the host and
the result of the outermost `evaluate`. A call or create instruction that reaches
`evaluate` pushes a frame; the rest of its handler, with the tail of `handle_create`
and of `evaluate`, is `Leave`, taken when that frame ends. All other ways a call
ends (light failures, a missing sender, an account without code, an address
collision) are complete in one step. A frame may execute any instruction with any
operands, so words appear only where a guard, the gas or the host depends on them.
The truncation of the gas operand and its cast to `int64_t` are kept, as are the
modulus of balances and the order in which costs are charged and failures tested.
Nested frames run at `EVMC_LATEST_STABLE_REVISION`, as in the code.

Costs are constants, so that the depth, the limits and every charge fit in a small
instance; the code's values are in the comments of the module. Memory appears as
what growing it may cost. Gas refunds are left out: nothing in the repository
uses them.

`GasBudget` knows only budgets: a frame spends, opens a message with a part of what
it holds, closes and gives back at most what is left. `CallFrames` implements it
under the mapping in which every frame but the top one holds its gas minus the gas
of the message it waits for (`Budgets`), and the stipend is covered by the value
cost charged before.

### EofCode

Each loop of the validator is an action per iteration: the header parser with its
three states, the types, the instructions, the jump destinations, the worklist of
stack heights. Rejections carry the error of the code, in the order in which the
code tests. Of an accepted container the second, unchecked parser reads the header
again (`ReadSection`, `AnalyzeEof1`), and the code then runs: program counter,
stack height and call stack are kept, every branch may be taken and any instruction
may run out of gas. `calls` is a history variable, the section of each active call
and the height of its stack base. Offsets are those of the code, and bytes are
concrete, because what is at stake is which byte is an instruction.

`validate_eof` is called by no part of the repository: a container is expected to
be validated before it is deployed ("must be true for all EOF contracts on-chain",
`evmone/eof.hpp:66`), and the model starts there.

### RwTable

Frames are a stack of traces and of the cells each frame owns (stack and memory);
storage belongs to the host. Handlers appear by what they trace. Returning from a
frame sorts its trace by `operator<` and fills rows one by one, from the current
end of the table. `std::sort` is modelled by what it does: an operation goes to the
place given by the number of operations below it. Each operation has exactly one
such place because no two of a trace are equal, the `rw_id` being the position in
the trace. Numbers are split into chunks of a small base, so that differences in a
high and in a low chunk both occur.

### BytecodeTable

One step per row, the first byte being the header row.
Field elements are naturals modulo `FieldMod`; the hash columns repeat one
constant and are left out.

## 3. Runs

| Run | Instance | Result |
|---|---|---|
| `boundaries` | every code of at most 5 bytes over two jump targets, JUMP, JUMPI, JUMPDEST, PUSH1, PUSH2, PUSH32, DUP1 | bitmap exact, only instructions executed, reads inside the padding, every iteration advances, the frame terminates |
| `trace` | three items, then every sequence of 3 instructions, one per shape of handler | reads explained by earlier writes, live slots traced, only declared operands touched |
| `frame` | every opcode byte on a stack from empty to full, three gas limits, static or not, at PRAGUE | types, stack pointer in its array |
| `memory` | every pair of memory instructions, operands below, at and above the limits, little to ample gas | memory paid for, capacity, output inside the memory, trace truthful |
| `calls` | three addresses, up to three frames, five messages at four revisions, static and not, gas 8 or 10, every instruction with every operand | gas within the budget, static frames change nothing, balances conserved, running code kept, every evaluation returns |
| `eof` | 13,973 containers: all codes of up to three fragments (pops, pushes, jumps forward, back and into immediates, stops, DUPN) behind a push, all small pairs of caller and callee with all declarations of their types, one container with every header byte changed and cut at every length | both parsers agree and stay inside, accepted code runs on instructions, at the validated heights, and returns to a caller; validation terminates |
| `rw` | four operations in a frame and a frame it calls | rows sorted, reads agree, advice columns exact, earlier frames kept |
| `bytecode` | two codes in a row out of all codes of at most 4 bytes over a push, the largest push and a small number, and of longer ones in which data ends | classification equals the interpreter's, counts exact, earlier rows kept |

Four more runs show a disagreement between the code and what the repository
says of it (section 6).

**Bounds and why they suffice.**

* *Five-byte codes.* The analysis, the loop and the padding meet in four cases:
  a push whose data ends before, at or behind the end of the code, and a jump to
  an instruction, into data or outside. All occur with PUSH2 and PUSH32 within
  five bytes, together with a jump and its destination. The proofs of section 5
  remove the bound.
* *Three traced instructions.* A trace is incoherent as soon as one handler
  traces a wrong value and a second one reads the slot; the third lets a pop or a
  dup come between.
* *Stack limit 3 or 4, `LimbBytes` 2, `IntMod` 256.* Handlers look at the top of
  the stack and at its limit; a small limit makes both reachable. Two-byte limbs
  leave high limbs that a truncation drops and a negative `int`.
* *Two memory instructions.* Growth is history-dependent through the size alone:
  the first instruction sets it, the second shows the consequences. The word has
  two bytes of 16 values, one of them the low limb, so that a size of 16 or an
  offset of 17 is large as a word and small when truncated; `MaxBuffer` is 6, so
  5 is below and 11 above it.
* *Four RW operations, two frames, two stack and two storage cells.* A group of
  two rows followed by another group, or a group in each of the two frames.
* *Calls.* A depth limit of 2 is reached by three frames and exceeded by none; a
  divisor of 4 instead of 64 makes the kept part nonzero; costs are 1 or 2, so that
  8 to 10 units pay for a call with value, inside which another call, a creation or
  a store succeeds, and each of them runs out at some point. Words are below 256 and
  limbs below 128: the operand 131 has a high limb that the conversion drops, 100
  (run `call_gas`) a low limb that the cast makes negative. The third address has no
  account, and the hash spreads new contracts over all three, so that collisions
  and creations at an address already called both occur.
* *Containers.* Limits of 4 for the stack, sections and types make overflow and
  rejection by limits reachable; three fragments hold a loop, a branch and its join.
  Two sections besides the first give a call, a tail call and recursion; recursion
  fills the call stack. A data word has two bytes, so an index may stick out of three.
* *Gas limits.* One that runs out at once, one that runs out on the way, one
  that never does. With 30 units a jump loop runs out within a few iterations.

**Fairness.** `FairSpec` adds weak fairness of `Analyze \/ Dispatch`: the
interpreter is a sequential loop that is never suspended, so a step that can be
taken is taken. For the same reason `CallFrames!FairSpec` assumes weak fairness of
`Next` and `EofCode!FairSpec` of the validator's steps; which instruction comes next
is never assumed fair. No other property needs fairness.

Deadlock is checked in every run: a state with no handler for its opcode would be
one. A returned frame, or a behaviour at its bound, stutters by an explicit action.

## 4. Properties by component

* Analysis and loop: `JumpdestMapExact`, `ExecutesInstructions`, `CodeReadsPadded`,
  `Advances`, `Terminates`.
* Tables against handlers: `StackInBounds`, `OperandsDeclared`.
* Trace: `TraceCoherent`, `StackTraced`; for memory `MemoryTraced`,
  `TraceTruthful`.
* Memory: `MemoryPaid`, `CapacityCovers`, `OutputInMemory`.
* RW table: `RowsIncrease`, `ReadsAgree`, `ValueBeforeExact`, `GroupMarks`,
  `EarlierFramesKept`.
* Bytecode table: `BodyClassified`, `EarlierRowsKept`.
* Calls and host: `FrameGasWithinMessage`, `ImplementsBudget` (the refinement),
  `StaticKeepsAccounts`, `BalanceConserved`, `RunningCodeKept`, `Terminates`.
* EOF: `ReadsInside`, `ParsersAgree`, `OnInstruction`, `HeightsAsValidated`,
  `RequirementsMet`, `UncheckedAccessSafe`, `ValidationTerminates`.

Each is violated by at least one mutant of a mapped definition; the mutants
are kept next to the definitions they change.

## 5. Proofs

**What is assumed.** The proofs hold for every value of the constants under the
assumptions named in the modules, which TLC evaluates for every instance:

* `Interpreter`: a revision in the table, a stack limit of 1 to 1024, limbs of one to
  eight bytes, programs of bytes that are not EOF containers and use the modelled
  instructions.
* `EvmMemory`: a positive word size, page size and divisor, `WordSize <= MaxBuffer`,
  `2 * MaxBuffer + WordSize < LimbMod`, a limb that divides a word: 32 bytes,
  2^32 - 1, 2^64 and 2^256 satisfy all of it.
* `CallFrames`: costs are natural numbers and the stipend is not more than the cost of
  a value; words and hashes are in range; a message brings less gas than 2^63.
* `RwTable`: at most `ChunkBase ^ 2` operations, 2^32 in the code, so that an `rw_id`
  fits its two columns.
* `EofCode`: containers of bytes and any revision of the table; at most 1024 code
  sections, so that the offset of the first one fits 16 bits, and 127 inputs or outputs
  of a function, so that these are told from `NON_RETURNING_FUNCTION`. The stack limit and the
  word size are any positive numbers.
* `PlaceValues`, in the three modules that use powers, is arithmetic that the prover
  cannot derive, `^` being any operator to it: `b ^ 0 = 1` and
  `b ^ (k + 1) = b * b ^ k` as far as `k` occurs.

Hypotheses of single theorems are there because the code is wrong without them, and a
run of section 6 shows that in each case: `Unsigned` (`call_gas`),
`Stored = StorageLocations` (`rw_absent_key`), `Reporting`, `Declaring` and
`ProgramsAvoid` (`swap`, `push_two`). `Rev # PRAGUE` leaves out DUPN and SWAPN in
legacy code, whose immediate neither the analysis nor the bytecode table skips.

**`InterpreterProofs`** - `TypeCorrect`, `StackSafe`. `StackInBounds` alone is not
inductive: a handler's effect on the height depends on the traits of the opcode it
is dispatched for and its trace on the types of stack and trace. The inductive
invariant `IInv` is `TypeOK` with `StackInBounds` and the fact that the code is one
of the programs. The argument is one step per
handler: for each, `check_requirements` passed, so `height` is at least the
declared requirement and, where it grows, below the limit; the traits of the
opcodes of the handler bound the change.

* `ReadsExplained`, `StackExplained`: the invariant `TraceInv` says that every live
  slot holds the value last written to it according to the trace, and that every read
  in the trace has that value too, at its place. A handler appends its reads while the
  slots still hold what was written, then one write of the slot it stores. What makes
  it inductive is that a slot above the height may be stale: only a write makes it
  live again. `Misreported` names the handlers that break this; the
  hypothesis `Reporting` is that none of them is about to run.
* `TraitsTrusted`: each handler's reads, writes and stores are within the window that
  `stack_height_required` and `stack_height_change` declare for its opcode
  (`Within`), except the handlers of `Undeclared`.

**`WalkProofs`** has what every walk over a code rests on. The instructions of a
code are defined as the least set that holds position 0 and is closed under going to
the next instruction; `WalkStep` shows that no instruction starts inside the data of
one the walk has reached (`Walked`).

**`CodeProofs`** - about instruction boundaries, below PRAGUE, where only pushes
have immediate data.

* `JumpdestMapCorrect`: the invariant `ScanInv` says that the analysis stands on an
  instruction or behind the code, and that the bitmap is exact below it.
* `OnlyInstructionsExecuted`: `ExecInv` adds that `pc` is an instruction or behind
  the code. A jump goes to a member of the bitmap, which by the previous theorem is
  an instruction; every other step goes to the next one.
* `CodeReadsSafe`: `PcInv`, `pc` never passes the end by more than 32, plus
  `immediate_size` of the opcode there: padding is STOP, which has none.
* `LoopAdvances`: every iteration returns, spends gas or moves forward. The pair
  (gas, distance to the end of the buffer) decreases: the variant that makes the
  comment "Guaranteed to terminate" in `dispatch` true. Termination itself is
  liveness and stays with TLC.
* `ProgramsExplained`, `ProgramsDeclared`: since only instructions of the code are
  executed, and the padding is STOP, the hypotheses about steps become one about
  programs, `ProgramsAvoid`; data of pushes may hold any byte.

**`BytecodeTableProofs`** - `TypeCorrect`, `RowsKept`, `BodyCorrect`. The next row is
one behind the end of the table, so no row is written twice. `BodyInv`: `j` plus
`PUSH_SIZE` is where the walk over the code is, and every row so far is classified as
the walk says; so the counter agrees with the boundaries of `WalkProofs`, the same
ones that the interpreter executes.

**`MemoryProofs`** - in three parts.

* `MemoryIsPaid`, `CapacitySuffices`, `OutputSafe`. The invariant `MInv` joins the
  sizes' types, the capacity, and *gas spent so far is at least the cost of the
  present size*. It is preserved because each growth charges cost(new) - cost(old), so
  that the costs telescope, and a handler that goes on has gas left after it. The
  lemmas on `Granted` state what a handler may rely on once its check succeeded: the
  cost is paid and offset plus size, both truncated to `uint64_t`, lie within the new
  size. The bound on the output follows.
* `MemoryTypes`, `TraceOfStep`. `DInv` adds the bytes, the trace and a bound on the
  size: an access reaches at most `2 * MaxBuffer + WordSize`, below 2^64. Under that
  bound an address computed as a word, as CALLDATACOPY and KECCAK256 trace it, is in
  the memory only if it is its own low limb (`WordAddress`), so tracing at the word and
  storing at the limb agree. `LoadRange` bounds a loaded word; `load` is a recursive
  function, and the induction over its bytes is replaced by a least counterexample.
* `TraceOfMemory`. `MemoryTraced` is not inductive, because a byte may be grown over
  addresses that the trace mentions: `Tells` adds that the trace writes no address
  the memory does not have. The proof goes instruction by instruction: growing adds
  zeros nothing was written to, reads and stack operations write nothing (`Quiet`),
  and MSTORE and RETURNDATACOPY trace a stretch that covers all they change.

**`CallFramesProofs`** - every instruction has one of three outcomes: its frame goes
on, it calls, or it leaves (`Instructions`), with what the accounts and the gas may
become in each; the theorems look at the outcomes only.

* `TypeCorrect`, with the depth limit. `StaticSafe`: frames above a static frame are
  static and no static frame is a creation (`StaticInv`), so that a static frame
  changes no account. `RunningCodeSafe`: `CodeInv` says for every frame that the
  account its code is from still has this code, that the new account of a creation
  exists and has no code yet, and that no two creations on the stack have the same
  one; so the code that is set when a creation ends is the code of nobody else.
* `GasWithinMessage`: `GasInv`, a frame holds at most its limit and the limit of a
  callee is at most what its caller held, stipend included.
* `BudgetImplemented`: the refinement of `GasBudget`, one step of the abstract budgets
  for a frame that goes on (spend), calls (spend and open) or leaves (spend, close and
  give back).

**`RwTableProofs`** - `operator<` is the lexicographic order of the sorting columns
(`DifferencePositive`), by comparing chunks from the highest one; ranks are a
permutation, so that `sorted` is the trace in that order (`Arranged`). `Explains` is
the history of a location in a trace, and holds for every frame on the stack while
frames above it run. `Assigning` is the loop invariant: the rows of the frame are the
first `i` operations of `sorted`, behind rows of other frames. Each property is then
proved for the row just added (`Placed`): `MarksOfGroups`, `ValueBeforeOfGroup`,
`ReadsMatchWrites`, `ReturnedRowsFinal`.

**`EofProofs`** - one inductive invariant, `IInv`, for the validator, the second parser
and the execution; `Inductive` shows it, one lemma per action, and each property
follows from it. A section is seen as the function from offsets to bytes `CodeOf`, and
its instructions as the least set that holds offset 0 and is closed under going to the
next instruction (`StartsOf`), as in `WalkProofs`, the tables of RJUMPV included. So
no step depends on how the loop found an instruction.

* The parsers: `HeadersInv` says at each place where the loop over the section headers
  may stand which bytes it has read and that `headers` holds them. `Laid`, what is
  known of a header that passed, says that it is the one that lies in the container
  and that types, code and data end with it. `read_valid_eof1_header` walks the same
  bytes (`ReadInv`), so it never passes the end (`ReadsStayInside`) and assembles the
  same header (`HeadersAgree`).
* The validator: `SectionInv` says of every instruction before `i` that it passed
  (`Checked`), then that its jump targets are collected and that every offset before
  `i` is an instruction or in the immediate map; at the end of the second loop jumps
  lead to instructions (`JumpsOk`). In the third loop an instruction with a height is
  on the worklist or `Settled`: its height suffices, and every successor has the height
  that results. Marking a successor unsettles none that was settled
  (`SettledKept`), since only unvisited ones are marked and a different height is a
  rejection. The loop ends with an empty worklist and no instruction unvisited, so all
  are settled (`SectionDone`). Requirement and change of a call are computed in
  `int8_t`; `SignedByte` shows that the wrap of a larger number is rejected or harmless
  (`HeightAccepted`).
* The execution: `RunInv` says that the functions on the call stack are sections with
  room for their maximal height, that the one that runs stands at an instruction with
  the height of its section above its base (`StandsAt`), and that each one below will
  stand so when the one above returns with its outputs, if it returns at all; the first
  one does not. CALLF adds such an entry. JUMPF keeps it, because the validator
  accepted it only at the height at which the outputs come out as those of the
  function it leaves. RETF finds it: a section with a RETF is one that returns, so it is
  not the first (`RunReturns`). `RunsOnInstructions`, `RunsAtHeights`,
  `ValidCodeMeetsRequirements` and `UncheckedAccessesSafe` are read off it: on valid
  code the checks of `check_requirements` never fail but for the gas.

**Only model-checked.** `Terminates` and `ValidationTerminates`, which are liveness,
and `BalanceConserved`, a sum over the accounts, which is a fold.

## 6. Disagreements

Each has a run in which TLC finds the violation, and an entry under `findings`.

| Run | What the code does |
|---|---|
| `push_two` | `push<Len>` traces `Len / 32 + Len % 32` writes, so PUSH2 traces a slot below the one it wrote: on an empty stack address 65535, against `assert(address < 1024)` |
| `swap` | the second write of `swap<N>` is traced one slot too high |
| `rw_absent_key` | `set_storage` drops a store under a key that the account lacks, after it was traced |
| `call_gas` | a gas operand whose low limb is 2^63 or more becomes a negative `msg.gas`; the callee fails, and the caller ends with more gas than it was given |

For this reason the passing run `trace` leaves PUSH2 and longer pushes, SWAP and
its variants out of its instructions, `boundaries` does not check traces, the
theorems about traces are stated for behaviours that do not execute these
instructions, those about boundaries below PRAGUE; `rw` starts from accounts that
have the keys, and `ReadsMatchWrites` assumes it; `calls` keeps gas operands below
the sign bit, and the two theorems about gas assume it (`Unsigned`).
Further points met while modelling, without a run of their own:

* `mulmod` traces as the result what stands in the slot before the result is
  stored (`evmone/instructions.hpp:343`); MULMOD is not among the traced
  instructions of `trace`.
* Every frame has call id 0 (`include/assigner.hpp:85`), so the `id` column, and
  the rows of two frames, cannot be told apart by it; `include/rw.hpp:26` declares
  the field as "call_id for stack, memory".
* The bytecode table takes the first byte of the code for a header
  (`include/bytecode.hpp:76-77`), while the code it is given starts with the first
  instruction (`include/assigner.hpp:92`). `BodyClassified` is about what follows.
* An opcode that no revision defines breaks the assertion with which
  `check_requirements` starts (`evmone/baseline.hpp:103-105`); without assertions the
  gas grows by one before the switch rejects it.
* The gas table defines PUSH0 from FRONTIER on (`evmone/instructions_traits.hpp:103`),
  its traits from SHANGHAI on (line 335).
* At PRAGUE legacy code executes DUPN and SWAPN and skips their immediate, while
  `analyze_jumpdests` does not: an immediate 0x5b is entered as a jump destination.
* `evaluate` returns `EVMC_FAILURE` with the gas of the message for an unknown
  circuit (`include/assigner.hpp:78`); `evmc/evmc.h:402-403` says of the gas left that
  it "MUST be 0".
* A frame that fails or reverts leaves its stores, transfers and new accounts in the
  host; the endowment of a creation is checked and never moved; a failed init code
  leaves its account, so that the same creation collides when it is tried again.
* DATACOPY clears bytes behind the copied ones and traces the zeros from the start of
  the copy (`evmone/instructions.hpp:1343`); `TraceTruthful` leaves it out.
* JUMP, JUMPI and PC have a constant cost, so `check_requirements` would execute them
  in EOF code although the EOF cost table makes them undefined; only validation
  keeps them out.
* For an EOF container `handle_bytecode` is given the size of the container and a
  pointer to its code sections (`include/assigner.hpp:92`); for containers the
  bytecode table reads bytes behind the code.
* Zeros that CALLDATACOPY and CODECOPY write behind the end of their source, and
  all that EXTCODECOPY and MCOPY write, are not traced; `MemoryTraced` is stated for
  behaviours without these.

## 7. What is not modelled

* *Stack and trace of calls*: `CallFrames` has no stack, so what call and create
  handlers trace is not checked; their light failures leave an untraced zero.
* *Execution of containers that were not validated*: nothing is promised for them.
* *Gas refunds*: summed up and returned, used by nothing.
* *256-bit arithmetic and Keccak*: library code; any result is considered.
* *EVMC headers, build files*: interface declarations and packaging.

## 8. Plan

1. `BalanceConserved`: the sum over a set that changes in two members, from a least
   counterexample over the accounts.
2. The stack operations of calls and creations in `Interpreter`.

## 9. Running

    tlc -config MCBoundaries.cfg MCInterpreter
    tlc -config MCMemory.cfg MCEvmMemory
    tlc -config MCCalls.cfg MCCallFrames
    tlc -config MCEof.cfg MCEofCode
    tlapm CodeProofs.tla
    tlapm MemoryProofs.tla
    tlapm CallFramesProofs.tla
    tlapm BytecodeTableProofs.tla
    tlapm RwTableProofs.tla
    tlapm EofProofs.tla

`PROJECT.json` names the module and the configuration of every run, maps each
definition to the lines it models, and lists hazards, mutants, findings and theorems.
