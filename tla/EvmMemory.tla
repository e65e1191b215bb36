----------------------------- MODULE EvmMemory -----------------------------
(***************************************************************************)
(* The memory of a frame and the instructions that read, write, copy, hash *)
(* and return it.  Each handler takes its operands from the stack, grows   *)
(* the memory and pays for it, does its work and appends what it reads and *)
(* writes to rw_trace.                                                     *)
(*                                                                         *)
(* What stands below the operands on the stack plays no part here: the     *)
(* stack holds the operands of the instruction, so the slot of a result is *)
(* 0.  The base cost was charged by check_requirements.  Bytes at or above *)
(* size are allocated but not initialised; growing clears them, so they    *)
(* are left out of the state and reading one yields any byte.              *)
(***************************************************************************)
EXTENDS Integers, Sequences

CONSTANTS
    WordSize,        \* word_size, 32 in the code
    ByteMod,         \* values of a byte, 256 in the code
    LimbMod,         \* values of to_uint64(), 2^64 in the code
    MaxBuffer,       \* max_buffer_size, 2^32 - 1 in the code
    PageSize,        \* Memory::page_size, 4096 in the code
    QuadDivisor,     \* divisor of the quadratic memory cost, 512 in the code
    Offsets, Sizes,  \* the words used as offsets and as sizes
    StoredWords,     \* the words stored, and returned by the hash
    Widths,          \* sizeof(T) of the instantiations of mstore<T>
    Source,          \* the calldata, code or return data that is copied
    StrayBytes,      \* what memory that was never written may hold
    GasLimits,       \* the values the gas may have at the start
    MaxInstructions  \* bound: instructions of a behaviour

Byte     == 0..ByteMod - 1
WordMod  == ByteMod ^ WordSize   \* values of a zkevm_word

ASSUME MemoryConstants ==
    /\ WordSize \in Nat \ {0} /\ PageSize \in Nat \ {0}
    /\ ByteMod \in Nat \ {0} /\ LimbMod \in Nat \ {0} /\ WordMod \in Nat \ {0}
    /\ MaxBuffer \in Nat /\ 2 * MaxBuffer + WordSize < LimbMod
    /\ WordSize <= MaxBuffer
    /\ WordMod % LimbMod = 0 /\ WordMod >= 4
    /\ QuadDivisor \in Nat \ {0}
\* What powers are, for the provers, to which ^ is any operator.
ASSUME PlaceValues ==
    /\ ByteMod ^ 0 = 1
    /\ \A k \in 1..WordSize : /\ ByteMod ^ (k - 1) \in Nat \ {0}
                              /\ ByteMod ^ k = ByteMod * ByteMod ^ (k - 1)
ASSUME WordConstants ==
    /\ Offsets \subseteq 0..WordMod - 1 /\ Sizes \subseteq 0..WordMod - 1
    /\ StoredWords \subseteq 0..WordMod - 1 /\ StoredWords # {}
    /\ Widths \subseteq 1..WordSize
ASSUME DataConstants ==
    /\ Source \in Seq(Byte)
    /\ StrayBytes \subseteq Byte /\ StrayBytes # {}
    /\ GasLimits \subseteq Nat

VARIABLES
    memory,      \* the bytes below m_size
    size,        \* m_size
    capacity,    \* m_capacity
    gas,         \* gas_left
    gas_limit,   \* the gas at the start, fixed
    output,      \* state.output_offset and state.output_size
    status,      \* state.status
    running,     \* the frame has not returned
    executed,    \* history: the instructions executed so far
    rw_trace     \* state.rw_trace

vars == <<memory, size, capacity, gas, gas_limit, output, status, running,
          executed, rw_trace>>

-----------------------------------------------------------------------------
(* Words and costs.                                                        *)

Smaller(m, n) == IF m < n THEN m ELSE n
Larger(m, n)  == IF m < n THEN n ELSE m

to_uint64(w) == w % LimbMod

\* The n low bytes of a word, most significant first, and the word of n bytes.
store(w, n) == [k \in 1..n |-> (w \div ByteMod ^ (n - k)) % ByteMod]
load(bytes) ==
    LET value[k \in 0..Len(bytes)] ==
            IF k = 0 THEN 0 ELSE value[k - 1] * ByteMod + bytes[k]
    IN  value[Len(bytes)]

num_words(n) == (n + (WordSize - 1)) \div WordSize
copy_cost(n) == 3 * num_words(n)

additional_cold_account_access_cost == 2600 - 100

\* The cost of a memory of n words.
MemoryCost(n) == 3 * n + (n * n) \div QuadDivisor

\* Mutants of grow_memory: the words added are charged as if they were the
\* first ones; the size is not rounded up to words.
grow_memory_added(new_size) ==
    LET words    == num_words(new_size)
        gas_left == gas - MemoryCost(words - size \div WordSize)
    IN  [ok   |-> gas_left >= 0,
         gas  |-> gas_left,
         size |-> IF gas_left >= 0 THEN words * WordSize ELSE size]
grow_memory_bytes(new_size) ==
    LET words    == num_words(new_size)
        gas_left == gas - (MemoryCost(words) - MemoryCost(size \div WordSize))
    IN  [ok   |-> gas_left >= 0,
         gas  |-> gas_left,
         size |-> IF gas_left >= 0 THEN new_size ELSE size]

\* grow_memory: the memory keeps its size if the gas does not suffice.
grow_memory(new_size) ==
    LET words    == num_words(new_size)
        gas_left == gas - (MemoryCost(words) - MemoryCost(size \div WordSize))
    IN  [ok   |-> gas_left >= 0,
         gas  |-> gas_left,
         size |-> IF gas_left >= 0 THEN words * WordSize ELSE size]

\* check_memory with a size that is a number: whether the access is granted,
\* with the gas and the size of the memory after it.
check_memory(offset, n) ==
    IF to_uint64(offset) > MaxBuffer
    THEN [ok |-> FALSE, gas |-> gas, size |-> size]
    ELSE IF to_uint64(offset) + n > size
    THEN grow_memory(to_uint64(offset) + n)
    ELSE [ok |-> gas >= 0, gas |-> gas, size |-> size]

\* Mutant of check_copy: the size of the copy is not added to the offset.
check_copy_offset(offset, n) ==
    IF to_uint64(n) > MaxBuffer
    THEN [ok |-> FALSE, gas |-> gas, size |-> size]
    ELSE check_memory(offset, 0)

\* check_memory with a size that is a word: an empty copy is always granted.
check_copy(offset, n) ==
    IF n = 0 THEN [ok |-> TRUE, gas |-> gas, size |-> size]
    ELSE IF to_uint64(n) > MaxBuffer
    THEN [ok |-> FALSE, gas |-> gas, size |-> size]
    ELSE check_memory(offset, to_uint64(n))

\* Mutant of Capacity: the doubled capacity is not compared with the new size.
Capacity_doubled(new_size) == IF new_size <= capacity THEN capacity ELSE 2 * capacity

\* The capacity Memory::grow leaves.
Capacity(new_size) ==
    IF new_size <= capacity THEN capacity
    ELSE IF 2 * capacity < new_size
    THEN ((new_size + (PageSize - 1)) \div PageSize) * PageSize
    ELSE 2 * capacity

\* Mutant of Grown: what is new is not cleared.
Grown_uncleared(n) ==
    [a \in 0..n - 1 |-> IF a < size THEN memory[a] ELSE CHOOSE b \in StrayBytes : b # 0]

\* The memory with n bytes; what is new is cleared.
Grown(n) == [a \in 0..n - 1 |-> IF a < size THEN memory[a] ELSE 0]

\* The bytes written over the memory m from address at on.
Overwrite(m, at, bytes) ==
    [a \in DOMAIN m |-> IF a \in at..at + Len(bytes) - 1 THEN bytes[a - at + 1] ELSE m[a]]

\* n bytes of the memory m from address at on.
ReadBytes(m, at, n, stray) ==
    [k \in 1..n |-> IF at + k - 1 \in DOMAIN m THEN m[at + k - 1] ELSE stray[k]]

Zeros(n) == [k \in 1..n |-> 0]

-----------------------------------------------------------------------------
(* The trace.                                                              *)

STACK_OP  == 1
MEMORY_OP == 2

\* The reads of the operands, the deepest first; args is <<stack[0], ...>>.
ReadOperands(args) ==
    rw_trace \o
    [k \in 1..Len(args) |->
        [op |-> STACK_OP, address |-> k - 1, rw_id |-> Len(rw_trace) + k - 1,
         is_write |-> FALSE, value |-> args[Len(args) + 1 - k]]]

WriteResult(trace, value) ==
    Append(trace, [op |-> STACK_OP, address |-> 0, rw_id |-> Len(trace),
                   is_write |-> TRUE, value |-> value])

\* One operation for each byte from address on, which is a word.
TraceBytes(trace, is_write, address, bytes) ==
    trace \o
    [k \in 1..Len(bytes) |->
        [op |-> MEMORY_OP, address |-> (address + k - 1) % WordMod,
         rw_id |-> Len(trace) + k - 1, is_write |-> is_write, value |-> bytes[k]]]

TraceReads(trace, address, bytes)  == TraceBytes(trace, FALSE, address, bytes)
TraceWrites(trace, address, bytes) == TraceBytes(trace, TRUE, address, bytes)

-----------------------------------------------------------------------------
(* Handlers.                                                               *)

Execute(instruction) ==
    /\ running
    /\ Len(executed) < MaxInstructions
    /\ executed' = Append(executed, instruction)
    /\ gas_limit' = gas_limit

\* The handler leaves this gas, a memory m of the checked size and this trace.
Effect(check, gas_left, m, trace) ==
    /\ memory' = m
    /\ size' = check.size
    /\ capacity' = Capacity(check.size)
    /\ gas' = gas_left
    /\ rw_trace' = trace

Continue(check, gas_left, m, trace) ==
    /\ Effect(check, gas_left, m, trace)
    /\ UNCHANGED <<output, status, running>>

Halt(failure, check, gas_left, trace) ==
    /\ Effect(check, gas_left, Grown(check.size), trace)
    /\ status' = failure
    /\ running' = FALSE
    /\ UNCHANGED output

OutOfGas(check, gas_left, trace) == Halt("EVMC_OUT_OF_GAS", check, gas_left, trace)

\* mload<T>: a whole word is loaded for every T.
mload(index) ==
    LET check == check_memory(index, WordSize)
        reads == ReadOperands(<<index>>)
        m     == Grown(check.size)
        at    == to_uint64(index)
        bytes == [k \in 1..WordSize |-> m[at + k - 1]]
    IN  /\ Execute("mload")
        /\ \/ ~ check.ok /\ OutOfGas(check, check.gas, reads)
           \/ /\ check.ok
              /\ Continue(check, check.gas, m,
                          WriteResult(TraceReads(reads, at, bytes), load(bytes)))

\* Mutant of mstore: the bytes are traced before they are stored.
mstore_early(width, index, value) ==
    LET check == check_memory(index, WordSize)
        reads == ReadOperands(<<index, value>>)
        at    == to_uint64(index)
        m     == Grown(check.size)
    IN  /\ Execute("mstore")
        /\ \/ ~ check.ok /\ OutOfGas(check, check.gas, reads)
           \/ /\ check.ok
              /\ Continue(check, check.gas, Overwrite(m, at, store(value, width)),
                     TraceWrites(reads, at, [k \in 1..WordSize |-> m[at + k - 1]]))

\* mstore<T>: sizeof(T) bytes are stored, a whole word is checked and traced.
mstore(width, index, value) ==
    LET check == check_memory(index, WordSize)
        reads == ReadOperands(<<index, value>>)
        at    == to_uint64(index)
        m     == Overwrite(Grown(check.size), at, store(value, width))
    IN  /\ Execute("mstore")
        /\ \/ ~ check.ok /\ OutOfGas(check, check.gas, reads)
           \/ /\ check.ok
              /\ Continue(check, check.gas, m,
                     TraceWrites(reads, at, [k \in 1..WordSize |-> m[at + k - 1]]))

\* keccak256: the reads traced are one word from the offset, whatever the size.
keccak256(index, n) ==
    LET check    == check_copy(index, n)
        reads    == ReadOperands(<<index, n>>)
        gas_left == check.gas - 6 * num_words(to_uint64(n))
        m        == Grown(check.size)
    IN  /\ Execute("keccak256")
        /\ \/ ~ check.ok /\ OutOfGas(check, check.gas, reads)
           \/ check.ok /\ gas_left < 0 /\ OutOfGas(check, gas_left, reads)
           \/ /\ check.ok /\ gas_left >= 0
              /\ \E hash \in StoredWords, stray \in [1..WordSize -> StrayBytes] :
                     Continue(check, gas_left, m,
                         WriteResult(
                             IF to_uint64(n) = 0 THEN reads
                             ELSE TraceReads(reads, index,
                                      ReadBytes(m, to_uint64(index), WordSize, stray)),
                             hash))

\* calldatacopy, codecopy: what lies behind the end of the source is cleared,
\* and not traced.
CopySource(mem_index, input_index, n) ==
    LET check     == check_copy(mem_index, n)
        reads     == ReadOperands(<<mem_index, input_index, n>>)
        s         == to_uint64(n)
        src       == Smaller(Len(Source), to_uint64(input_index))
        copy_size == Smaller(s, Len(Source) - src)
        copied    == SubSeq(Source, src + 1, src + copy_size)
        gas_left  == check.gas - copy_cost(s)
    IN  /\ Execute("CopySource")
        /\ \/ ~ check.ok /\ OutOfGas(check, check.gas, reads)
           \/ check.ok /\ gas_left < 0 /\ OutOfGas(check, gas_left, reads)
           \/ /\ check.ok /\ gas_left >= 0
              /\ Continue(check, gas_left,
                     Overwrite(Grown(check.size), to_uint64(mem_index),
                               copied \o Zeros(s - copy_size)),
                     TraceWrites(reads, mem_index, copied))

\* extcodecopy of the code of an account, which is empty if the host does not
\* know the account; nothing is traced but the operands.
extcodecopy(addr, code, cold, mem_index, input_index, n) ==
    LET check    == check_copy(mem_index, n)
        reads    == ReadOperands(<<addr, mem_index, input_index, n>>)
        s        == to_uint64(n)
        src      == Smaller(Len(code), Smaller(MaxBuffer, to_uint64(input_index)))
        copied   == SubSeq(code, src + 1, src + Smaller(s, Len(code) - src))
        paid     == check.gas - copy_cost(s)
        gas_left == IF cold THEN paid - additional_cold_account_access_cost ELSE paid
    IN  /\ Execute("extcodecopy")
        /\ \/ ~ check.ok /\ OutOfGas(check, check.gas, reads)
           \/ check.ok /\ paid < 0 /\ OutOfGas(check, paid, reads)
           \/ check.ok /\ paid >= 0 /\ gas_left < 0 /\ OutOfGas(check, gas_left, reads)
           \/ /\ check.ok /\ gas_left >= 0
              /\ Continue(check, gas_left,
                     Overwrite(Grown(check.size), to_uint64(mem_index),
                               copied \o Zeros(s - Len(copied))),
                     reads)

\* returndatacopy: a copy that reaches behind the return data fails.
returndatacopy(mem_index, input_index, n) ==
    LET check    == check_copy(mem_index, n)
        reads    == ReadOperands(<<mem_index, input_index, n>>)
        s        == to_uint64(n)
        src      == to_uint64(input_index)
        copied   == SubSeq(Source, src + 1, src + s)
        gas_left == check.gas - copy_cost(s)
    IN  /\ Execute("returndatacopy")
        /\ \/ ~ check.ok /\ OutOfGas(check, check.gas, reads)
           \/ /\ check.ok /\ src + s > Len(Source)
              /\ Halt("EVMC_INVALID_MEMORY_ACCESS", check, check.gas, reads)
           \/ /\ check.ok /\ src + s <= Len(Source) /\ gas_left < 0
              /\ OutOfGas(check, gas_left, reads)
           \/ /\ check.ok /\ src + s <= Len(Source) /\ gas_left >= 0
              /\ Continue(check, gas_left,
                     Overwrite(Grown(check.size), to_uint64(mem_index), copied),
                     TraceWrites(reads, to_uint64(mem_index), copied))

\* datacopy: the data section is the source, and the bytes cleared behind the copied
\* ones are traced as if they began where the copy begins.
datacopy(mem_index, data_index, n) ==
    LET check     == check_copy(mem_index, n)
        reads     == ReadOperands(<<mem_index, data_index, n>>)
        dst       == to_uint64(mem_index)
        s         == to_uint64(n)
        src       == Smaller(Len(Source), to_uint64(data_index))
        copy_size == Smaller(s, Len(Source) - src)
        copied    == SubSeq(Source, src + 1, src + copy_size)
        cleared   == Zeros(s - copy_size)
        gas_left  == check.gas - copy_cost(s)
    IN  /\ Execute("datacopy")
        /\ \/ ~ check.ok /\ OutOfGas(check, check.gas, reads)
           \/ check.ok /\ gas_left < 0 /\ OutOfGas(check, gas_left, reads)
           \/ /\ check.ok /\ gas_left >= 0
              /\ Continue(check, gas_left,
                     Overwrite(Grown(check.size), dst, copied \o cleared),
                     TraceWrites(TraceWrites(reads, dst, copied), dst, cleared))

\* mcopy: the check is made for the larger word, before it is cut.
mcopy(dst, src, n) ==
    LET check    == check_copy(Larger(dst, src), n)
        reads    == ReadOperands(<<dst, src, n>>)
        s        == to_uint64(n)
        gas_left == check.gas - copy_cost(s)
        m        == Grown(check.size)
    IN  /\ Execute("mcopy")
        /\ \/ ~ check.ok /\ OutOfGas(check, check.gas, reads)
           \/ check.ok /\ gas_left < 0 /\ OutOfGas(check, gas_left, reads)
           \/ /\ check.ok /\ gas_left >= 0
              /\ \E stray \in [1..s -> StrayBytes] :
                     Continue(check, gas_left,
                         Overwrite(m, to_uint64(dst), ReadBytes(m, to_uint64(src), s, stray)),
                         reads)

msize ==
    /\ Execute("msize")
    /\ Continue([size |-> size], gas, memory, WriteResult(rw_trace, size))

\* return_, revert.
return_impl(offset, n, status_code) ==
    LET check == check_copy(offset, n)
        reads == ReadOperands(<<offset, n>>)
    IN  /\ Execute("return_impl")
        /\ \/ ~ check.ok /\ OutOfGas(check, check.gas, reads)
           \/ /\ check.ok
              /\ Effect(check, check.gas, Grown(check.size), reads)
              /\ output' = [offset |-> IF to_uint64(n) = 0 THEN 0 ELSE to_uint64(offset),
                            size   |-> to_uint64(n)]
              /\ status' = status_code
              /\ running' = FALSE

Init ==
    /\ memory = [a \in {} |-> 0]
    /\ size = 0
    /\ capacity = PageSize
    /\ gas \in GasLimits
    /\ gas_limit = gas
    /\ output = [offset |-> 0, size |-> 0]
    /\ status = "EVMC_SUCCESS"
    /\ running = TRUE
    /\ executed = << >>
    /\ rw_trace = << >>

Done == (~ running \/ Len(executed) = MaxInstructions) /\ UNCHANGED vars

Next ==
    \/ \E index \in Offsets : mload(index)
    \/ \E width \in Widths, index \in Offsets, value \in StoredWords :
          mstore(width, index, value)
    \/ \E index \in Offsets, n \in Sizes : keccak256(index, n)
    \/ \E to, from \in Offsets, n \in Sizes :
          \/ CopySource(to, from, n)
          \/ \E addr \in StoredWords, code \in {Source, << >>}, cold \in BOOLEAN :
                extcodecopy(addr, code, cold, to, from, n)
          \/ returndatacopy(to, from, n)
          \/ datacopy(to, from, n)
          \/ mcopy(to, from, n)
    \/ msize
    \/ \E offset \in Offsets, n \in Sizes, status_code \in {"EVMC_SUCCESS", "EVMC_REVERT"} :
          return_impl(offset, n, status_code)
    \/ Done

Spec == Init /\ [][Next]_vars

-----------------------------------------------------------------------------
(* Properties.                                                             *)

Operation == [op : {STACK_OP, MEMORY_OP}, address : 0..WordMod - 1, rw_id : Nat,
              is_write : BOOLEAN, value : 0..WordMod - 1]

\* The memory, the gas, the output and the trace have the types of Memory and
\* ExecutionState; the size is a whole number of words.
TypeOK ==
    /\ size \in Nat /\ size % WordSize = 0
    /\ memory \in [0..size - 1 -> Byte]
    /\ capacity \in Nat
    /\ gas \in Int /\ gas_limit \in Nat
    /\ output \in [offset : Nat, size : Nat]
    /\ status \in {"EVMC_SUCCESS", "EVMC_REVERT", "EVMC_OUT_OF_GAS",
                   "EVMC_INVALID_MEMORY_ACCESS"}
    /\ running \in BOOLEAN
    /\ rw_trace \in Seq(Operation)

\* However the memory grew, in one access or in many, and whether the access
\* that grew it succeeded or not, its whole cost has been paid: grow_memory
\* charges the difference of two costs, and the differences add up.
MemoryPaid == running => gas >= 0 /\ gas_limit - gas >= MemoryCost(size \div WordSize)

\* Memory::grow never leaves less capacity than the size it sets.
CapacityCovers == size <= capacity

\* The output evaluate() takes from the memory of the frame lies in it, and an
\* empty output has offset zero, as evaluate() asserts.
OutputInMemory ==
    /\ output.offset + output.size <= size
    /\ output.size = 0 => output.offset = 0

\* The instructions that change memory without tracing it, or trace it elsewhere.
Untraced == {"CopySource", "extcodecopy", "mcopy", "datacopy"}

\* What the trace says the byte at address a is after its first n operations:
\* the last write to a, zero if there is none.
TracedByte(a, n) ==
    LET writes == {k \in 1..n : /\ rw_trace[k].op = MEMORY_OP /\ rw_trace[k].is_write
                                /\ rw_trace[k].address = a}
    IN  IF writes = {} THEN 0
        ELSE rw_trace[CHOOSE k \in writes : \A j \in writes : j <= k].value

\* While only instructions that trace their writes have run, every byte of the
\* memory is what the trace says it is, whatever was grown in between.
MemoryTraced ==
    (\A k \in 1..Len(executed) : executed[k] \notin Untraced) =>
        \A a \in DOMAIN memory : memory[a] = TracedByte(a, Len(rw_trace))

\* What a step traces about a byte of the memory is the byte the step leaves:
\* no handler traces a byte before it is stored or after it is overwritten, but
\* datacopy, which clears one place and traces another.
TraceTruthful ==
    [][executed' # Append(executed, "datacopy") =>
       \A k \in Len(rw_trace) + 1..Len(rw_trace') :
           rw_trace'[k].op = MEMORY_OP /\ rw_trace'[k].address \in DOMAIN memory' =>
               rw_trace'[k].value = memory'[rw_trace'[k].address]]_vars

=============================================================================
