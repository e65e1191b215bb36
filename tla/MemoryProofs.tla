--------------------------- MODULE MemoryProofs ---------------------------
(***************************************************************************)
(* Proofs about EvmMemory: for every word size, page size, cost divisor,   *)
(* data and gas, the memory of a frame is paid for, its capacity covers it *)
(* and the output lies in it; the memory holds bytes, and what is traced   *)
(* of it is true.                                                          *)
(*                                                                         *)
(* The argument rests on what check_memory grants: a size that covers the  *)
(* access, is a whole number of words and has been paid for.  Then, on what*)
(* each handler adds to the trace: a word that is not wider than the size  *)
(* check allows is at the same address as a word and as a low limb.  Last, *)
(* on the last write to every byte.                                        *)
(***************************************************************************)
EXTENDS EvmMemory, NaturalsInduction, WellFoundedInduction, TLAPS

\* The numbers of the state, without the bytes.
Numbers ==
    /\ size \in Nat
    /\ size % WordSize = 0
    /\ capacity \in Nat
    /\ gas \in Int
    /\ gas_limit \in Int
    /\ output \in [offset : Nat, size : Nat]
    /\ running \in BOOLEAN

\* The inductive invariant.
MInv == Numbers /\ MemoryPaid /\ CapacityCovers /\ OutputInMemory

\* What the check of an access of n bytes at an offset tells a handler.
Granted(check, offset, n) ==
    /\ check.ok \in BOOLEAN
    /\ check.gas \in Int
    /\ check.size \in Nat
    /\ check.size % WordSize = 0
    /\ check.size >= size
    /\ check.ok => /\ check.gas >= 0
                   /\ gas_limit - check.gas >= MemoryCost(check.size \div WordSize)
                   /\ n > 0 => to_uint64(offset) + n <= check.size

\* Integer division by a positive number, as the provers need it.
LEMMA Division ==
    ASSUME NEW a \in Nat, NEW b \in Nat \ {0}
    PROVE  /\ a \div b \in Nat
           /\ b * (a \div b) <= a
           /\ a < b * (a \div b) + b
  OBVIOUS

\* A whole number of words divided by the size of a word.
LEMMA WholeWords ==
    ASSUME NEW k \in Nat, NEW b \in Nat \ {0}
    PROVE  k * b \in Nat /\ (k * b) \div b = k /\ (k * b) % b = 0
  OBVIOUS

\* num_words rounds up.
LEMMA RoundsUp ==
    ASSUME NEW n \in Nat
    PROVE  num_words(n) \in Nat /\ n <= num_words(n) * WordSize
  BY MemoryConstants, Division DEF num_words

\* The costs are numbers, those of a copy not negative.
LEMMA Costs ==
    ASSUME NEW n \in Nat
    PROVE  MemoryCost(n) \in Int /\ copy_cost(n) \in Nat /\ 6 * num_words(n) \in Nat
  BY MemoryConstants, RoundsUp DEF MemoryCost, copy_cost

\* to_uint64 yields a number.
LEMMA Limb ==
    ASSUME NEW w \in Nat
    PROVE  to_uint64(w) \in Nat
  BY MemoryConstants DEF to_uint64

\* Memory::grow leaves enough capacity.
LEMMA CapacityGrows ==
    ASSUME NEW n \in Nat, capacity \in Nat
    PROVE  Capacity(n) \in Nat /\ n <= Capacity(n)
  <1>1. CASE n <= capacity \/ 2 * capacity >= n
    BY <1>1 DEF Capacity
  <1>2. CASE ~ (n <= capacity \/ 2 * capacity >= n)
    <2>1. Capacity(n) = ((n + (PageSize - 1)) \div PageSize) * PageSize
      BY <1>2 DEF Capacity
    <2> DEFINE a == n + (PageSize - 1)
    <2>2. a \in Nat /\ PageSize \in Nat \ {0}
      BY MemoryConstants
    <2>3. /\ a \div PageSize \in Nat
          /\ a < PageSize * (a \div PageSize) + PageSize
      BY <2>2, Division
    <2>4. QED
      BY <2>1, <2>2, <2>3
  <1>3. QED
    BY <1>1, <1>2

\* What grow_memory grants has been paid for: the difference it charges is the
\* difference of the costs of the two sizes.
LEMMA GrowGranted ==
    ASSUME Numbers, MemoryPaid, running, NEW n \in Nat, n > size
    PROVE  /\ grow_memory(n).ok \in BOOLEAN
           /\ grow_memory(n).gas \in Int
           /\ grow_memory(n).size \in Nat
           /\ grow_memory(n).size % WordSize = 0
           /\ grow_memory(n).size >= size
           /\ grow_memory(n).ok =>
                  /\ grow_memory(n).gas >= 0
                  /\ gas_limit - grow_memory(n).gas
                         >= MemoryCost(grow_memory(n).size \div WordSize)
                  /\ n <= grow_memory(n).size
  <1> DEFINE words == num_words(n)
             cur   == size \div WordSize
             left  == gas - (MemoryCost(words) - MemoryCost(cur))
  <1>1. /\ words \in Nat /\ n <= words * WordSize
        /\ words * WordSize \in Nat
        /\ (words * WordSize) \div WordSize = words
        /\ (words * WordSize) % WordSize = 0
    BY RoundsUp, WholeWords, MemoryConstants
  <1>2. cur \in Nat
    BY Division, MemoryConstants DEF Numbers
  <1>3. MemoryCost(words) \in Int /\ MemoryCost(cur) \in Int
    BY <1>1, <1>2, Costs
  <1>4. grow_memory(n) = [ok   |-> left >= 0, gas |-> left,
                          size |-> IF left >= 0 THEN words * WordSize ELSE size]
    BY DEF grow_memory
  <1>5. gas_limit \in Int /\ gas \in Int /\ gas_limit - gas >= MemoryCost(cur)
    BY DEF Numbers, MemoryPaid
  <1>6. left \in Int /\ gas_limit - left >= MemoryCost(words)
    BY <1>3, <1>5
  <1>7. size \in Nat /\ size % WordSize = 0
    BY DEF Numbers
  <1> HIDE DEF words, cur, left
  <1>8. CASE left >= 0
    <2>1. grow_memory(n) = [ok |-> TRUE, gas |-> left, size |-> words * WordSize]
      BY <1>4, <1>8
    <2>2. words * WordSize >= size
      BY <1>1, <1>7
    <2>3. QED
      BY <1>1, <1>6, <1>8, <2>1, <2>2
  <1>9. CASE ~ (left >= 0)
    <2>1. grow_memory(n).gas = left /\ grow_memory(n).size = size
      BY <1>4, <1>9
    <2>2. grow_memory(n).ok = (left >= 0)
      BY <1>4
    <2>3. (left >= 0) = FALSE
      BY <1>9
    <2>4. grow_memory(n).ok \in BOOLEAN /\ ~ grow_memory(n).ok
      BY <2>2, <2>3, Zenon
    <2>5. QED
      BY <1>6, <1>7, <2>1, <2>4
  <1>10. QED
    BY <1>8, <1>9

\* check_memory with a number.
LEMMA MemoryGranted ==
    ASSUME Numbers, MemoryPaid, running, NEW offset \in Nat, NEW n \in Nat
    PROVE  Granted(check_memory(offset, n), offset, n)
  <1>1. to_uint64(offset) \in Nat /\ size \in Nat /\ gas \in Int
    BY Limb DEF Numbers
  <1>2. CASE to_uint64(offset) > MaxBuffer
    BY <1>1, <1>2 DEF check_memory, Granted, Numbers
  <1>3. CASE ~ (to_uint64(offset) > MaxBuffer) /\ to_uint64(offset) + n > size
    <2>1. check_memory(offset, n) = grow_memory(to_uint64(offset) + n)
      BY <1>3 DEF check_memory
    <2>2. to_uint64(offset) + n \in Nat
      BY <1>1
    <2>3. QED
      BY <1>3, <2>1, <2>2, GrowGranted DEF Granted
  <1>4. CASE ~ (to_uint64(offset) > MaxBuffer) /\ ~ (to_uint64(offset) + n > size)
    <2>1. check_memory(offset, n) = [ok |-> gas >= 0, gas |-> gas, size |-> size]
      BY <1>4 DEF check_memory
    <2>2. QED
      BY <1>1, <1>4, <2>1 DEF Granted, Numbers, MemoryPaid
  <1>5. QED
    BY <1>2, <1>3, <1>4

\* check_memory with a word.
LEMMA CopyGranted ==
    ASSUME Numbers, MemoryPaid, running, NEW offset \in Nat, NEW n \in Nat
    PROVE  Granted(check_copy(offset, n), offset, to_uint64(n))
  <1>1. CASE n = 0
    <2>1. check_copy(offset, n) = [ok |-> TRUE, gas |-> gas, size |-> size]
      BY <1>1 DEF check_copy
    <2>2. to_uint64(n) = 0
      BY <1>1, MemoryConstants DEF to_uint64
    <2>3. QED
      BY <2>1, <2>2 DEF Granted, Numbers, MemoryPaid
  <1>2. CASE n # 0 /\ to_uint64(n) > MaxBuffer
    <2>1. check_copy(offset, n) = [ok |-> FALSE, gas |-> gas, size |-> size]
      BY <1>2 DEF check_copy
    <2>2. QED
      BY <2>1 DEF Granted, Numbers
  <1>3. CASE n # 0 /\ ~ (to_uint64(n) > MaxBuffer)
    <2>1. check_copy(offset, n) = check_memory(offset, to_uint64(n))
      BY <1>3 DEF check_copy
    <2>2. QED
      BY <2>1, MemoryGranted, Limb
  <1>4. QED
    BY <1>1, <1>2, <1>3

\* A handler that goes on keeps the invariant if its check was granted and it
\* charged no more than it had.
LEMMA ContinueKeeps ==
    ASSUME MInv, running, NEW offset, NEW n, NEW check, Granted(check, offset, n),
           check.ok, NEW cost \in Nat, check.gas - cost >= 0,
           NEW m, NEW trace, gas_limit' = gas_limit,
           Continue(check, check.gas - cost, m, trace)
    PROVE  MInv'
  <1>1. size' = check.size /\ capacity' = Capacity(check.size)
        /\ gas' = check.gas - cost /\ output' = output /\ running' = running
    BY DEF Continue, Effect
  <1>2. check.size \in Nat /\ check.size % WordSize = 0 /\ check.size >= size
        /\ check.gas \in Int /\ gas_limit \in Int
        /\ gas_limit - check.gas >= MemoryCost(check.size \div WordSize)
    BY DEF Granted, MInv, Numbers
  <1>3. Capacity(check.size) \in Nat /\ check.size <= Capacity(check.size)
    BY <1>2, CapacityGrows DEF MInv, Numbers
  <1>4. MemoryCost(check.size \div WordSize) \in Int
    BY <1>2, Division, Costs, MemoryConstants
  <1>5. Numbers'
    BY <1>1, <1>2, <1>3 DEF MInv, Numbers
  <1>6. MemoryPaid'
    BY <1>1, <1>2, <1>4 DEF MemoryPaid
  <1>7. CapacityCovers'
    BY <1>1, <1>3 DEF CapacityCovers
  <1>8. OutputInMemory'
    BY <1>1, <1>2 DEF OutputInMemory, MInv, Numbers
  <1>9. QED
    BY <1>5, <1>6, <1>7, <1>8 DEF MInv

\* A handler that fails keeps the invariant.
LEMMA HaltKeeps ==
    ASSUME MInv, NEW offset, NEW n, NEW check, Granted(check, offset, n),
           NEW failure, NEW gas_left \in Int, NEW trace, gas_limit' = gas_limit,
           Halt(failure, check, gas_left, trace)
    PROVE  MInv'
  <1>1. size' = check.size /\ capacity' = Capacity(check.size)
        /\ gas' = gas_left /\ output' = output /\ running' = FALSE
    BY DEF Halt, Effect
  <1>2. check.size \in Nat /\ check.size % WordSize = 0 /\ check.size >= size
    BY DEF Granted
  <1>3. Capacity(check.size) \in Nat /\ check.size <= Capacity(check.size)
    BY <1>2, CapacityGrows DEF MInv, Numbers
  <1>4. Numbers'
    BY <1>1, <1>2, <1>3 DEF MInv, Numbers
  <1>5. MemoryPaid' /\ CapacityCovers'
    BY <1>1, <1>3 DEF MemoryPaid, CapacityCovers
  <1>6. OutputInMemory'
    BY <1>1, <1>2 DEF OutputInMemory, MInv, Numbers
  <1>7. QED
    BY <1>4, <1>5, <1>6 DEF MInv


\* A handler is running when it starts and leaves gas_limit alone.
LEMMA Starts ==
    ASSUME NEW instruction, Execute(instruction)
    PROVE  running /\ gas_limit' = gas_limit
  BY DEF Execute

\* The outcomes of a handler after its check.
Fails(check) ==
    \E failure, trace : \E gas_left \in Int : Halt(failure, check, gas_left, trace)
GoesOn(check) ==
    check.ok /\ \E cost \in Nat : /\ check.gas - cost >= 0
                                  /\ \E m, trace : Continue(check, check.gas - cost, m, trace)

\* Both keep the invariant.
LEMMA HandlerKeeps ==
    ASSUME MInv, running, gas_limit' = gas_limit, NEW offset, NEW n, NEW check,
           Granted(check, offset, n), Fails(check) \/ GoesOn(check)
    PROVE  MInv'
  BY HaltKeeps, ContinueKeeps DEF Fails, GoesOn

\* mload.
LEMMA LoadKeeps ==
    ASSUME MInv, NEW index \in Nat, mload(index)
    PROVE  MInv'
  <1> DEFINE check == check_memory(index, WordSize)
  <1>1. running /\ gas_limit' = gas_limit
    BY Starts DEF mload
  <1>2. Granted(check, index, WordSize)
    BY <1>1, MemoryGranted, MemoryConstants DEF MInv
  <1>3. check.gas \in Int /\ (check.ok => check.gas >= 0)
    BY <1>2 DEF Granted
  <1>4. \/ \E trace : Halt("EVMC_OUT_OF_GAS", check, check.gas, trace)
        \/ check.ok /\ \E m, trace : Continue(check, check.gas, m, trace)
    BY DEF mload, OutOfGas
  <1> HIDE DEF check
  <1>5. check.gas - 0 = check.gas
    BY <1>3
  <1>6. Fails(check) \/ GoesOn(check)
    BY <1>3, <1>4, <1>5 DEF Fails, GoesOn
  <1>7. QED
    BY <1>1, <1>2, <1>6, HandlerKeeps

\* mstore.
LEMMA StoreKeeps ==
    ASSUME MInv, NEW width, NEW index \in Nat, NEW value, mstore(width, index, value)
    PROVE  MInv'
  <1> DEFINE check == check_memory(index, WordSize)
  <1>1. running /\ gas_limit' = gas_limit
    BY Starts DEF mstore
  <1>2. Granted(check, index, WordSize)
    BY <1>1, MemoryGranted, MemoryConstants DEF MInv
  <1>3. check.gas \in Int /\ (check.ok => check.gas >= 0)
    BY <1>2 DEF Granted
  <1>4. \/ \E trace : Halt("EVMC_OUT_OF_GAS", check, check.gas, trace)
        \/ check.ok /\ \E m, trace : Continue(check, check.gas, m, trace)
    BY DEF mstore, OutOfGas
  <1> HIDE DEF check
  <1>5. check.gas - 0 = check.gas
    BY <1>3
  <1>6. Fails(check) \/ GoesOn(check)
    BY <1>3, <1>4, <1>5 DEF Fails, GoesOn
  <1>7. QED
    BY <1>1, <1>2, <1>6, HandlerKeeps

\* keccak256.
LEMMA HashKeeps ==
    ASSUME MInv, NEW index \in Nat, NEW n \in Nat,
           keccak256(index, n)
    PROVE  MInv'
  <1> DEFINE check == check_copy(index, n)
             cost  == 6 * num_words(to_uint64(n))
  <1>1. running /\ gas_limit' = gas_limit
    BY Starts DEF keccak256
  <1>2. Granted(check, index, to_uint64(n))
    BY <1>1, CopyGranted DEF MInv
  <1>3. cost \in Nat
    BY Limb, Costs
  <1>4. check.gas \in Int /\ check.gas - cost \in Int
    BY <1>2, <1>3 DEF Granted
  <1>5. \/ \E failure, trace : Halt(failure, check, check.gas, trace)
        \/ \E failure, trace : Halt(failure, check, check.gas - cost, trace)
        \/ /\ check.ok /\ check.gas - cost >= 0
           /\ \E m, trace : Continue(check, check.gas - cost, m, trace)
    BY DEF keccak256, OutOfGas
  <1> HIDE DEF check, cost
  <1>6. Fails(check) \/ GoesOn(check)
    BY <1>3, <1>4, <1>5 DEF Fails, GoesOn
  <1>7. QED
    BY <1>1, <1>2, <1>6, HandlerKeeps

\* CopySource.
LEMMA CopyKeeps ==
    ASSUME MInv, NEW mem_index \in Nat, NEW input_index \in Nat, NEW n \in Nat,
           CopySource(mem_index, input_index, n)
    PROVE  MInv'
  <1> DEFINE check == check_copy(mem_index, n)
             cost  == copy_cost(to_uint64(n))
  <1>1. running /\ gas_limit' = gas_limit
    BY Starts DEF CopySource
  <1>2. Granted(check, mem_index, to_uint64(n))
    BY <1>1, CopyGranted DEF MInv
  <1>3. cost \in Nat
    BY Limb, Costs
  <1>4. check.gas \in Int /\ check.gas - cost \in Int
    BY <1>2, <1>3 DEF Granted
  <1>5. \/ \E failure, trace : Halt(failure, check, check.gas, trace)
        \/ \E failure, trace : Halt(failure, check, check.gas - cost, trace)
        \/ /\ check.ok /\ check.gas - cost >= 0
           /\ \E m, trace : Continue(check, check.gas - cost, m, trace)
    BY DEF CopySource, OutOfGas
  <1> HIDE DEF check, cost
  <1>6. Fails(check) \/ GoesOn(check)
    BY <1>3, <1>4, <1>5 DEF Fails, GoesOn
  <1>7. QED
    BY <1>1, <1>2, <1>6, HandlerKeeps

\* returndatacopy.
LEMMA ReturnCopyKeeps ==
    ASSUME MInv, NEW mem_index \in Nat, NEW input_index \in Nat, NEW n \in Nat,
           returndatacopy(mem_index, input_index, n)
    PROVE  MInv'
  <1> DEFINE check == check_copy(mem_index, n)
             cost  == copy_cost(to_uint64(n))
  <1>1. running /\ gas_limit' = gas_limit
    BY Starts DEF returndatacopy
  <1>2. Granted(check, mem_index, to_uint64(n))
    BY <1>1, CopyGranted DEF MInv
  <1>3. cost \in Nat
    BY Limb, Costs
  <1>4. check.gas \in Int /\ check.gas - cost \in Int
    BY <1>2, <1>3 DEF Granted
  <1>5. \/ \E failure, trace : Halt(failure, check, check.gas, trace)
        \/ \E failure, trace : Halt(failure, check, check.gas - cost, trace)
        \/ /\ check.ok /\ check.gas - cost >= 0
           /\ \E m, trace : Continue(check, check.gas - cost, m, trace)
    BY DEF returndatacopy, OutOfGas
  <1> HIDE DEF check, cost
  <1>6. Fails(check) \/ GoesOn(check)
    BY <1>3, <1>4, <1>5 DEF Fails, GoesOn
  <1>7. QED
    BY <1>1, <1>2, <1>6, HandlerKeeps

\* datacopy.
LEMMA DataCopyKeeps ==
    ASSUME MInv, NEW mem_index \in Nat, NEW data_index \in Nat, NEW n \in Nat,
           datacopy(mem_index, data_index, n)
    PROVE  MInv'
  <1> DEFINE check == check_copy(mem_index, n)
             cost  == copy_cost(to_uint64(n))
  <1>1. running /\ gas_limit' = gas_limit
    BY Starts DEF datacopy
  <1>2. Granted(check, mem_index, to_uint64(n))
    BY <1>1, CopyGranted DEF MInv
  <1>3. cost \in Nat
    BY Limb, Costs
  <1>4. check.gas \in Int /\ check.gas - cost \in Int
    BY <1>2, <1>3 DEF Granted
  <1>5. \/ \E failure, trace : Halt(failure, check, check.gas, trace)
        \/ \E failure, trace : Halt(failure, check, check.gas - cost, trace)
        \/ /\ check.ok /\ check.gas - cost >= 0
           /\ \E m, trace : Continue(check, check.gas - cost, m, trace)
    BY DEF datacopy, OutOfGas
  <1> HIDE DEF check, cost
  <1>6. Fails(check) \/ GoesOn(check)
    BY <1>3, <1>4, <1>5 DEF Fails, GoesOn
  <1>7. QED
    BY <1>1, <1>2, <1>6, HandlerKeeps

\* The larger of two numbers.
LEMMA LargerType ==
    ASSUME NEW m \in Nat, NEW n \in Nat
    PROVE  Larger(m, n) \in Nat
  BY DEF Larger

\* mcopy.
LEMMA MoveKeeps ==
    ASSUME MInv, NEW dst \in Nat, NEW src \in Nat, NEW n \in Nat,
           mcopy(dst, src, n)
    PROVE  MInv'
  <1> DEFINE check == check_copy(Larger(dst, src), n)
             cost  == copy_cost(to_uint64(n))
  <1>1. running /\ gas_limit' = gas_limit
    BY Starts DEF mcopy
  <1>2. Granted(check, Larger(dst, src), to_uint64(n))
    BY <1>1, CopyGranted, LargerType DEF MInv
  <1>3. cost \in Nat
    BY Limb, Costs
  <1>4. check.gas \in Int /\ check.gas - cost \in Int
    BY <1>2, <1>3 DEF Granted
  <1>5. \/ \E failure, trace : Halt(failure, check, check.gas, trace)
        \/ \E failure, trace : Halt(failure, check, check.gas - cost, trace)
        \/ /\ check.ok /\ check.gas - cost >= 0
           /\ \E m, trace : Continue(check, check.gas - cost, m, trace)
    BY DEF mcopy, OutOfGas
  <1> HIDE DEF check, cost
  <1>6. Fails(check) \/ GoesOn(check)
    BY <1>3, <1>4, <1>5 DEF Fails, GoesOn
  <1>7. QED
    BY <1>1, <1>2, <1>6, HandlerKeeps

\* extcodecopy, which may charge twice.
LEMMA CodeCopyKeeps ==
    ASSUME MInv, NEW addr, NEW code, NEW cold \in BOOLEAN,
           NEW mem_index \in Nat, NEW input_index \in Nat, NEW n \in Nat,
           extcodecopy(addr, code, cold, mem_index, input_index, n)
    PROVE  MInv'
  <1> DEFINE check == check_copy(mem_index, n)
             copy  == copy_cost(to_uint64(n))
             cost  == IF cold THEN copy + additional_cold_account_access_cost ELSE copy
             paid  == check.gas - copy
             left  == IF cold THEN paid - additional_cold_account_access_cost ELSE paid
  <1>1. running /\ gas_limit' = gas_limit
    BY Starts DEF extcodecopy
  <1>2. Granted(check, mem_index, to_uint64(n))
    BY <1>1, CopyGranted DEF MInv
  <1>3. copy \in Nat /\ cost \in Nat
    BY Limb, Costs DEF additional_cold_account_access_cost
  <1>4. \/ \E trace : Halt("EVMC_OUT_OF_GAS", check, check.gas, trace)
        \/ \E trace : Halt("EVMC_OUT_OF_GAS", check, paid, trace)
        \/ \E trace : Halt("EVMC_OUT_OF_GAS", check, left, trace)
        \/ check.ok /\ left >= 0 /\ \E m, trace : Continue(check, left, m, trace)
    BY DEF extcodecopy, OutOfGas
  <1>5. check.gas \in Int
    BY <1>2 DEF Granted
  <1> HIDE DEF check, copy
  <1>6. paid \in Int /\ left \in Int /\ left = check.gas - cost
    BY <1>3, <1>5 DEF additional_cold_account_access_cost
  <1> HIDE DEF cost, paid, left
  <1>7. Fails(check) \/ GoesOn(check)
    BY <1>3, <1>4, <1>5, <1>6 DEF Fails, GoesOn
  <1>8. QED
    BY <1>1, <1>2, <1>7, HandlerKeeps

\* msize.
LEMMA SizeKeeps ==
    ASSUME MInv, msize
    PROVE  MInv'
  <1>1. /\ gas_limit' = gas_limit /\ size' = size /\ gas' = gas
        /\ output' = output /\ running' = running /\ capacity' = Capacity(size)
    BY Starts DEF msize, Continue, Effect
  <1>2. Capacity(size) = capacity
    BY DEF Capacity, MInv, CapacityCovers
  <1>3. QED
    BY <1>1, <1>2 DEF MInv, Numbers, MemoryPaid, CapacityCovers, OutputInMemory

\* return_impl: the output is what was checked.
LEMMA ReturnKeeps ==
    ASSUME MInv, NEW offset \in Nat, NEW n \in Nat, NEW status_code,
           return_impl(offset, n, status_code)
    PROVE  MInv'
  <1> DEFINE check == check_copy(offset, n)
             s     == to_uint64(n)
             o     == to_uint64(offset)
  <1>1. running /\ gas_limit' = gas_limit
    BY Starts DEF return_impl
  <1>2. Granted(check, offset, s)
    BY <1>1, CopyGranted DEF MInv
  <1>3. check.gas \in Int /\ s \in Nat /\ o \in Nat
    BY <1>2, Limb DEF Granted
  <1>4. \/ \E trace : Halt("EVMC_OUT_OF_GAS", check, check.gas, trace)
        \/ /\ check.ok /\ running' = FALSE
           /\ size' = check.size /\ capacity' = Capacity(check.size) /\ gas' = check.gas
           /\ output' = [offset |-> IF s = 0 THEN 0 ELSE o, size |-> s]
    BY DEF return_impl, OutOfGas, Effect
  <1>5. /\ check.size \in Nat /\ check.size % WordSize = 0
        /\ check.ok /\ s > 0 => o + s <= check.size
    BY <1>2 DEF Granted
  <1> HIDE DEF check, s, o
  <1>6. CASE \E trace : Halt("EVMC_OUT_OF_GAS", check, check.gas, trace)
    BY <1>1, <1>2, <1>3, <1>6, HandlerKeeps DEF Fails
  <1>7. CASE /\ check.ok /\ running' = FALSE
             /\ size' = check.size /\ capacity' = Capacity(check.size) /\ gas' = check.gas
             /\ output' = [offset |-> IF s = 0 THEN 0 ELSE o, size |-> s]
    <2>1. Capacity(check.size) \in Nat /\ check.size <= Capacity(check.size)
      BY <1>5, CapacityGrows DEF MInv, Numbers
    <2>2. Numbers'
      BY <1>1, <1>3, <1>5, <1>7, <2>1 DEF MInv, Numbers
    <2>3. MemoryPaid' /\ CapacityCovers'
      BY <1>7, <2>1 DEF MemoryPaid, CapacityCovers
    <2>4. OutputInMemory'
      BY <1>3, <1>5, <1>7 DEF OutputInMemory
    <2>5. QED
      BY <2>2, <2>3, <2>4 DEF MInv
  <1>8. QED
    BY <1>4, <1>6, <1>7

\* The invariant holds at the start: an empty memory costs nothing.
LEMMA InitMInv ==
    ASSUME Init
    PROVE  MInv
  <1>1. 0 \div WordSize = 0 /\ 0 % WordSize = 0 /\ 0 \div QuadDivisor = 0
    BY MemoryConstants
  <1>2. MemoryCost(0) = 0
    BY <1>1 DEF MemoryCost
  <1>3. gas \in Nat /\ PageSize \in Nat \ {0}
    BY DataConstants, MemoryConstants DEF Init
  <1>4. QED
    BY <1>1, <1>2, <1>3
    DEF Init, MInv, Numbers, MemoryPaid, CapacityCovers, OutputInMemory

\* Every step keeps the invariant.
LEMMA NextMInv ==
    ASSUME MInv, [Next]_vars
    PROVE  MInv'
  <1>1. Offsets \subseteq Nat /\ Sizes \subseteq Nat
    BY WordConstants, MemoryConstants
  <1>2. CASE \E index \in Offsets : mload(index)
    BY <1>1, <1>2, LoadKeeps
  <1>3. CASE \E width \in Widths, index \in Offsets, value \in StoredWords :
                 mstore(width, index, value)
    BY <1>1, <1>3, StoreKeeps
  <1>4. CASE \E index \in Offsets, n \in Sizes : keccak256(index, n)
    BY <1>1, <1>4, HashKeeps
  <1>5. CASE \E to, from \in Offsets, n \in Sizes : CopySource(to, from, n)
    BY <1>1, <1>5, CopyKeeps
  <1>6. CASE \E to, from \in Offsets, n \in Sizes :
                 \E addr \in StoredWords, code \in {Source, << >>}, cold \in BOOLEAN :
                     extcodecopy(addr, code, cold, to, from, n)
    BY <1>1, <1>6, CodeCopyKeeps
  <1>7. CASE \E to, from \in Offsets, n \in Sizes : returndatacopy(to, from, n)
    BY <1>1, <1>7, ReturnCopyKeeps
  <1>8. CASE \E to, from \in Offsets, n \in Sizes : mcopy(to, from, n)
    BY <1>1, <1>8, MoveKeeps
  <1>9. CASE msize
    BY <1>9, SizeKeeps
  <1>10. CASE \E offset \in Offsets, n \in Sizes,
                 status_code \in {"EVMC_SUCCESS", "EVMC_REVERT"} :
                 return_impl(offset, n, status_code)
    BY <1>1, <1>10, ReturnKeeps
  <1>11. CASE UNCHANGED vars
    BY <1>11 DEF vars, MInv, Numbers, MemoryPaid, CapacityCovers, OutputInMemory
  <1>12. CASE \E to, from \in Offsets, n \in Sizes : datacopy(to, from, n)
    BY <1>1, <1>12, DataCopyKeeps
  <1>13. QED
    BY <1>2, <1>3, <1>4, <1>5, <1>6, <1>7, <1>8, <1>9, <1>10, <1>11, <1>12
    DEF Next, Done

\* The inductive invariant holds in every state of every behaviour.
THEOREM MemoryInvariance == Spec => []MInv
  <1>1. Init => MInv
    BY InitMInv
  <1>2. MInv /\ [Next]_vars => MInv'
    BY NextMInv
  <1>3. QED
    BY <1>1, <1>2, PTL DEF Spec

\* The memory of a running frame has been paid for in full, however it grew
\* (grow_memory).
THEOREM MemoryIsPaid == Spec => []MemoryPaid
  <1>1. MInv => MemoryPaid
    BY DEF MInv
  <1>2. QED
    BY <1>1, MemoryInvariance, PTL

\* The allocation covers the memory (Memory::grow).
THEOREM CapacitySuffices == Spec => []CapacityCovers
  <1>1. MInv => CapacityCovers
    BY DEF MInv
  <1>2. QED
    BY <1>1, MemoryInvariance, PTL

\* The output of a frame lies in its memory (return_impl and evaluate()).
THEOREM OutputSafe == Spec => []OutputInMemory
  <1>1. MInv => OutputInMemory
    BY DEF MInv
  <1>2. QED
    BY <1>1, MemoryInvariance, PTL

-----------------------------------------------------------------------------
(* The bytes of the memory and the operations traced.                      *)

Words     == 0..WordMod - 1
Stretch(n) == [0..n - 1 -> Byte]     \* a memory of n bytes

\* No memory is larger: the two offsets of an access are each capped by max_buffer_size.
SizeBound == 2 * MaxBuffer + WordSize

\* The sizes of the numbers: a byte and a limb fit a word, a size of the memory fits a
\* limb.
LEMMA WordFacts ==
    /\ WordSize \in Nat \ {0} /\ ByteMod \in Nat \ {0} /\ WordMod \in Nat \ {0}
    /\ LimbMod \in Nat \ {0} /\ LimbMod <= WordMod /\ WordMod % LimbMod = 0
    /\ SizeBound \in Nat /\ SizeBound < LimbMod /\ 4 <= WordMod
    /\ Byte \subseteq Words /\ 0 \in Byte
  <1>1. /\ WordSize \in Nat \ {0} /\ ByteMod \in Nat \ {0} /\ WordMod \in Nat \ {0}
        /\ LimbMod \in Nat \ {0} /\ WordMod % LimbMod = 0 /\ 4 <= WordMod
        /\ SizeBound \in Nat /\ SizeBound < LimbMod
    BY MemoryConstants DEF SizeBound
  <1>2. LimbMod <= WordMod
    <2> HIDE DEF WordMod
    <2>1. WordMod < LimbMod => WordMod % LimbMod = WordMod
      BY <1>1
    <2> QED  BY <1>1, <2>1
  <1>3. ByteMod <= WordMod
    <2> DEFINE rest == ByteMod ^ (WordSize - 1)
    <2>1. rest \in Nat \ {0} /\ WordMod = ByteMod * rest
      BY <1>1, PlaceValues DEF WordMod
    <2> HIDE DEF rest, WordMod
    <2>2. ByteMod * rest >= ByteMod
      BY <1>1, <2>1
    <2> QED  BY <2>1, <2>2
  <1> HIDE DEF WordMod
  <1> QED  BY <1>1, <1>2, <1>3 DEF Byte, Words

\* No access makes the memory larger than the bound.
LEMMA CheckBounded ==
    ASSUME Numbers, size <= SizeBound, NEW offset \in Nat, NEW n \in Nat
    PROVE  /\ n <= MaxBuffer => check_memory(offset, n).size <= SizeBound
           /\ check_copy(offset, n).size <= SizeBound
  <1>1. /\ MaxBuffer \in Nat /\ size \in Nat /\ to_uint64(offset) \in Nat /\ to_uint64(n) \in Nat
    BY MemoryConstants, Limb DEF Numbers
  <1>2. ASSUME NEW k \in Nat, k <= 2 * MaxBuffer PROVE grow_memory(k).size <= SizeBound
    <2>1. num_words(k) \in Nat /\ num_words(k) * WordSize <= k + (WordSize - 1)
      BY MemoryConstants, Division DEF num_words
    <2>2. grow_memory(k).size \in {size, num_words(k) * WordSize}
      BY DEF grow_memory
    <2> QED  BY <1>1, <1>2, <2>1, <2>2, MemoryConstants DEF SizeBound
  <1>3. ASSUME NEW k \in Nat, k <= MaxBuffer PROVE check_memory(offset, k).size <= SizeBound
    <2>1. CASE to_uint64(offset) > MaxBuffer \/ ~ (to_uint64(offset) + k > size)
      BY <2>1 DEF check_memory
    <2>2. CASE ~ (to_uint64(offset) > MaxBuffer) /\ to_uint64(offset) + k > size
      <3>1. to_uint64(offset) + k \in Nat /\ to_uint64(offset) + k <= 2 * MaxBuffer
        BY <1>1, <1>3, <2>2
      <3> QED  BY <1>2, <2>2, <3>1 DEF check_memory
    <2> QED  BY <2>1, <2>2
  <1>4. check_copy(offset, n).size <= SizeBound
    <2>1. CASE n = 0 \/ to_uint64(n) > MaxBuffer
      BY <2>1 DEF check_copy
    <2>2. CASE ~ (n = 0 \/ to_uint64(n) > MaxBuffer)
      BY <1>1, <1>3, <2>2 DEF check_copy
    <2> QED  BY <2>1, <2>2
  <1> QED  BY <1>3, <1>4

\* Growing the memory leaves bytes.
LEMMA GrownType ==
    ASSUME size \in Nat, memory \in Stretch(size), NEW n \in Nat
    PROVE  Grown(n) \in Stretch(n)
  BY WordFacts DEF Grown, Stretch

\* So does writing bytes over it.
LEMMA OverwriteType ==
    ASSUME NEW n \in Nat, NEW m \in Stretch(n), NEW at \in Nat, NEW bytes \in Seq(Byte)
    PROVE  /\ Overwrite(m, at, bytes) \in Stretch(n)
           /\ \A a \in 0..n - 1 : Overwrite(m, at, bytes)[a] =
                  IF a \in at..at + Len(bytes) - 1 THEN bytes[a - at + 1] ELSE m[a]
  <1>1. Len(bytes) \in Nat /\ DOMAIN m = 0..n - 1
    BY DEF Stretch
  <1>2. ASSUME NEW a \in 0..n - 1, a \in at..at + Len(bytes) - 1
        PROVE  bytes[a - at + 1] \in Byte
    <2>1. a - at + 1 \in 1..Len(bytes)
      BY <1>1, <1>2
    <2> QED  BY <2>1
  <1> QED  BY <1>1, <1>2 DEF Overwrite, Stretch

\* The trace t goes on from rw_trace, and what it adds about the bytes of m is true.
Adds(t, m) ==
    /\ t \in Seq(Operation)
    /\ Len(rw_trace) <= Len(t)
    /\ \A k \in Len(rw_trace) + 1..Len(t) :
           t[k].op = MEMORY_OP /\ t[k].address \in DOMAIN m => t[k].value = m[t[k].address]

\* An operation is in Operation if its fields are what they should be.
LEMMA OperationType ==
    ASSUME NEW o \in {STACK_OP, MEMORY_OP}, NEW a \in Words, NEW n \in Nat,
           NEW w \in BOOLEAN, NEW v \in Words
    PROVE  [op |-> o, address |-> a, rw_id |-> n, is_write |-> w, value |-> v] \in Operation
  <1> DEFINE Ops == {STACK_OP, MEMORY_OP}
             Bool == BOOLEAN
  <1>1. Operation = [op : Ops, address : Words, rw_id : Nat, is_write : Bool, value : Words]
    BY DEF Operation, Words
  <1>2. o \in Ops /\ w \in Bool
    OBVIOUS
  <1> HIDE DEF Ops, Bool, Words
  <1> QED  BY <1>1, <1>2

\* A sequence of operations added to a trace of the memory m.
LEMMA SequenceAdds ==
    ASSUME rw_trace \in Seq(Operation), NEW m, NEW t, Adds(t, m),
           NEW n \in Nat, NEW rows \in Seq(Operation), Len(rows) = n,
           \A k \in 1..n : rows[k].op = MEMORY_OP /\ rows[k].address \in DOMAIN m =>
                              rows[k].value = m[rows[k].address]
    PROVE  /\ Adds(t \o rows, m) /\ Len(t \o rows) = Len(t) + n
           /\ \A k \in 1..Len(t) : (t \o rows)[k] = t[k]
           /\ \A k \in 1..n : (t \o rows)[Len(t) + k] = rows[k]
  <1>1. /\ t \in Seq(Operation) /\ Len(t) \in Nat /\ Len(rw_trace) \in Nat
        /\ Len(rw_trace) <= Len(t)
    BY DEF Adds
  <1> DEFINE u == t \o rows
  <1>2. /\ u \in Seq(Operation) /\ Len(u) = Len(t) + n
        /\ \A k \in 1..Len(t) : u[k] = t[k]
    BY <1>1
  <1>3. ASSUME NEW k \in 1..n PROVE u[Len(t) + k] = rows[k]
    BY <1>1
  <1> HIDE DEF u
  <1>4. ASSUME NEW k \in Len(rw_trace) + 1..Len(u),
               u[k].op = MEMORY_OP, u[k].address \in DOMAIN m
        PROVE  u[k].value = m[u[k].address]
    <2>1. CASE k <= Len(t)
      <3>1. k \in 1..Len(t) /\ k \in Len(rw_trace) + 1..Len(t)
        BY <1>1, <1>2, <2>1
      <3> QED  BY <1>2, <1>4, <3>1 DEF Adds
    <2>2. CASE ~ (k <= Len(t))
      <3>1. k - Len(t) \in 1..n /\ Len(t) + (k - Len(t)) = k
        BY <1>1, <1>2, <2>2
      <3>2. u[k] = rows[k - Len(t)]
        BY <1>3, <3>1
      <3> QED  BY <1>4, <3>1, <3>2
    <2> QED  BY <2>1, <2>2
  <1>5. Adds(u, m)
    BY <1>1, <1>2, <1>4 DEF Adds
  <1> QED  BY <1>2, <1>3, <1>5 DEF u

\* The operands are stack operations and say nothing of the memory.
LEMMA OperandsAdd ==
    ASSUME rw_trace \in Seq(Operation), NEW m, NEW args \in Seq(Words), Len(args) <= 4
    PROVE  /\ Adds(ReadOperands(args), m)
           /\ Len(ReadOperands(args)) = Len(rw_trace) + Len(args)
           /\ \A k \in 1..Len(rw_trace) : ReadOperands(args)[k] = rw_trace[k]
           /\ \A k \in 1..Len(args) : ReadOperands(args)[Len(rw_trace) + k].op = STACK_OP
  <1> DEFINE n       == Len(args)
             row(k)  == [op |-> STACK_OP, address |-> k - 1, rw_id |-> Len(rw_trace) + k - 1,
                         is_write |-> FALSE, value |-> args[n + 1 - k]]
             rows    == [k \in 1..n |-> row(k)]
  <1>1. n \in Nat /\ Len(rw_trace) \in Nat
    OBVIOUS
  <1>2. Adds(rw_trace, m)
    BY <1>1 DEF Adds
  <1>3. ASSUME NEW k \in 1..n PROVE row(k) \in Operation /\ row(k).op = STACK_OP
    <2>1. k - 1 \in Words
      BY <1>1, WordFacts DEF Words
    <2>2. Len(rw_trace) + k - 1 \in Nat
      BY <1>1
    <2>3. args[n + 1 - k] \in Words
      <3>1. n + 1 - k \in 1..Len(args)
        BY <1>1
      <3> QED  BY <3>1
    <2> HIDE DEF n
    <2> QED  BY <2>1, <2>2, <2>3, OperationType
  <1>4. ReadOperands(args) = rw_trace \o rows
    BY DEF ReadOperands
  <1> HIDE DEF row
  <1>5. \A k \in 1..n : rows[k] = row(k)
    OBVIOUS
  <1>6. rows \in Seq(Operation) /\ Len(rows) = n
    BY <1>1, <1>3
  <1> HIDE DEF rows, n
  <1>7. STACK_OP # MEMORY_OP
    BY DEF STACK_OP, MEMORY_OP
  <1>8. /\ Adds(rw_trace \o rows, m) /\ Len(rw_trace \o rows) = Len(rw_trace) + n
        /\ \A k \in 1..Len(rw_trace) : (rw_trace \o rows)[k] = rw_trace[k]
        /\ \A k \in 1..n : (rw_trace \o rows)[Len(rw_trace) + k] = rows[k]
    BY <1>1, <1>2, <1>3, <1>5, <1>6, <1>7, SequenceAdds
  <1> QED  BY <1>3, <1>4, <1>5, <1>8 DEF n

\* The result is a stack operation too.
LEMMA ResultAdds ==
    ASSUME rw_trace \in Seq(Operation), NEW m, NEW t, Adds(t, m), NEW value \in Words
    PROVE  /\ Adds(WriteResult(t, value), m) /\ Len(WriteResult(t, value)) = Len(t) + 1
           /\ \A k \in 1..Len(t) : WriteResult(t, value)[k] = t[k]
           /\ WriteResult(t, value)[Len(t) + 1].op = STACK_OP
  <1> DEFINE o == [op |-> STACK_OP, address |-> 0, rw_id |-> Len(t), is_write |-> TRUE,
                   value |-> value]
             u == Append(t, o)
  <1>1. /\ t \in Seq(Operation) /\ Len(t) \in Nat /\ Len(rw_trace) \in Nat
        /\ Len(rw_trace) <= Len(t)
    BY DEF Adds
  <1>2. o \in Operation /\ o.op = STACK_OP
    <2>1. 0 \in Words
      BY WordFacts
    <2> QED  BY <1>1, <2>1, OperationType
  <1>3. STACK_OP # MEMORY_OP
    BY DEF STACK_OP, MEMORY_OP
  <1>4. WriteResult(t, value) = u
    BY DEF WriteResult
  <1> HIDE DEF o
  <1>5. /\ u \in Seq(Operation) /\ Len(u) = Len(t) + 1 /\ u[Len(t) + 1] = o
        /\ \A k \in 1..Len(t) : u[k] = t[k]
    BY <1>1, <1>2
  <1> HIDE DEF u
  <1>6. \A k \in Len(rw_trace) + 1..Len(t) + 1 :
            k = Len(t) + 1 \/ (k \in Len(rw_trace) + 1..Len(t) /\ k \in 1..Len(t))
    BY <1>1
  <1>7. Adds(u, m)
    BY <1>1, <1>2, <1>3, <1>5, <1>6 DEF Adds
  <1> QED  BY <1>2, <1>4, <1>5, <1>7

\* The bytes traced: the operation of each is of the address it has as a word.
LEMMA BytesAdd ==
    ASSUME rw_trace \in Seq(Operation), NEW m, NEW t, Adds(t, m), NEW write \in BOOLEAN,
           NEW address \in Nat, NEW bytes \in Seq(Byte),
           \A k \in 1..Len(bytes) :
               (address + k - 1) % WordMod \in DOMAIN m =>
                   bytes[k] = m[(address + k - 1) % WordMod]
    PROVE  LET u == TraceBytes(t, write, address, bytes)
           IN  /\ Adds(u, m) /\ Len(u) = Len(t) + Len(bytes)
               /\ \A k \in 1..Len(t) : u[k] = t[k]
               /\ \A k \in 1..Len(bytes) :
                      u[Len(t) + k] = [op |-> MEMORY_OP,
                                       address |-> (address + k - 1) % WordMod,
                                       rw_id |-> Len(t) + k - 1, is_write |-> write,
                                       value |-> bytes[k]]
  <1> DEFINE n      == Len(bytes)
             at(k)  == (address + k - 1) % WordMod
             row(k) == [op |-> MEMORY_OP, address |-> at(k), rw_id |-> Len(t) + k - 1,
                        is_write |-> write, value |-> bytes[k]]
             rows   == [k \in 1..n |-> row(k)]
  <1>1. n \in Nat /\ Len(t) \in Nat
    BY DEF Adds
  <1>2. ASSUME NEW k \in 1..n PROVE row(k) \in Operation
    <2>1. at(k) \in Words
      <3> HIDE DEF WordMod
      <3> QED  BY WordFacts DEF Words
    <2>2. Len(t) + k - 1 \in Nat
      BY <1>1
    <2>3. bytes[k] \in Words
      BY WordFacts
    <2> HIDE DEF at
    <2> QED  BY <2>1, <2>2, <2>3, OperationType
  <1>3. \A k \in 1..n : row(k).address \in DOMAIN m => row(k).value = m[row(k).address]
    OBVIOUS
  <1>4. TraceBytes(t, write, address, bytes) = t \o rows
    BY DEF TraceBytes
  <1>5. \A k \in 1..n : row(k) = [op |-> MEMORY_OP,
                                 address |-> (address + k - 1) % WordMod,
                                 rw_id |-> Len(t) + k - 1, is_write |-> write,
                                 value |-> bytes[k]]
    OBVIOUS
  <1> HIDE DEF row
  <1>6. (\A k \in 1..n : rows[k] = row(k)) /\ rows \in Seq(Operation) /\ Len(rows) = n
    BY <1>1, <1>2
  <1> HIDE DEF rows, n
  <1>7. \A k \in 1..n : rows[k].op = MEMORY_OP /\ rows[k].address \in DOMAIN m =>
                            rows[k].value = m[rows[k].address]
    BY <1>3, <1>6
  <1>8. /\ Adds(t \o rows, m) /\ Len(t \o rows) = Len(t) + n
        /\ \A k \in 1..Len(t) : (t \o rows)[k] = t[k]
        /\ \A k \in 1..n : (t \o rows)[Len(t) + k] = rows[k]
    BY <1>1, <1>6, <1>7, SequenceAdds, SMTT(60)
  <1> QED  BY <1>4, <1>5, <1>6, <1>8 DEF n

\* A set of naturals that is not empty has a least member.
LEMMA LeastNatural ==
    ASSUME NEW S \in SUBSET Nat, S # {}
    PROVE  \E m \in S : \A k \in S : m <= k
  <1> DEFINE smaller == OpToRel(<, Nat)
  <1>1. smaller = {pair \in Nat \X Nat : pair[1] < pair[2]}
    BY Zenon DEF OpToRel
  <1>2. PICK m \in S : \A k \in S : ~ (<<k, m>> \in smaller)
    BY NatLessThanWellFounded, WFMin
  <1>3. ASSUME NEW k \in S, ~ (m <= k) PROVE FALSE
    <2> HIDE DEF smaller
    <2>1. <<k, m>> \in Nat \X Nat /\ k < m
      BY <1>3
    <2> QED  BY <1>1, <1>2, <2>1
  <1> QED  BY <1>3

\* The word loaded from bytes is less than the number of values they can have: mload
\* yields a word.
LEMMA LoadRange ==
    ASSUME NEW bytes \in Seq(Byte), Len(bytes) <= WordSize
    PROVE  load(bytes) \in 0..ByteMod ^ Len(bytes) - 1
  <1> DEFINE n           == Len(bytes)
             Term(f, i)  == IF i = 0 THEN 0 ELSE f[i - 1] * ByteMod + bytes[i]
             Value(f, k) == f = [i \in 0..k |-> Term(f, i)]
             value       == CHOOSE f : Value(f, n)
  <1>1. /\ n \in Nat /\ WordSize \in Nat /\ n <= WordSize /\ ByteMod \in Nat \ {0}
        /\ \A i \in 1..n : bytes[i] \in 0..ByteMod - 1
    BY WordFacts DEF Byte
  <1>2. load(bytes) = value[n]
    BY DEF load
  <1> HIDE DEF n
  <1>3. \A k \in 0..n : \E f : Value(f, k)
    <2> DEFINE missing == {k \in 0..n : ~ \E f : Value(f, k)}
    <2> SUFFICES ASSUME missing # {} PROVE FALSE
      OBVIOUS
    <2>1. PICK k \in missing : \A j \in missing : k <= j
      <3>1. missing \in SUBSET Nat
        BY <1>1
      <3> HIDE DEF missing
      <3> QED  BY <3>1, LeastNatural
    <2>2. CASE k = 0
      <3> DEFINE f == [i \in 0..0 |-> 0]
      <3>1. Value(f, 0)
        OBVIOUS
      <3> QED  BY <2>1, <2>2, <3>1
    <2>3. CASE k # 0
      <3>1. k - 1 \in 0..n /\ k \in 1..n /\ k - 1 \notin missing
        BY <1>1, <2>1, <2>3
      <3>2. PICK f : Value(f, k - 1)
        BY <3>1
      <3> DEFINE g == [i \in 0..k |-> IF i = k THEN f[k - 1] * ByteMod + bytes[k] ELSE f[i]]
      <3>3. \A i \in 0..k : g[i] = Term(g, i)
        <4>1. ASSUME NEW i \in 0..k PROVE g[i] = Term(g, i)
          <5>1. CASE i = k
            BY <1>1, <3>1, <5>1
          <5>2. CASE i # k
            <6>1. i \in 0..k - 1 /\ f[i] = Term(f, i)
              BY <1>1, <3>1, <3>2, <5>2
            <6>2. i # 0 => i - 1 \in 0..k /\ i - 1 # k
              BY <1>1, <3>1, <6>1
            <6> QED  BY <5>2, <6>1, <6>2
          <5> QED  BY <5>1, <5>2
        <4> QED  BY <4>1
      <3>4. g = [i \in 0..k |-> g[i]]
        OBVIOUS
      <3> HIDE DEF g
      <3>5. g = [i \in 0..k |-> Term(g, i)]
        BY <3>3, <3>4
      <3> QED  BY <2>1, <3>5
    <2> QED  BY <2>2, <2>3
  <1>4. Value(value, n)
    <2>1. n \in 0..n
      BY <1>1
    <2>2. \E f : Value(f, n)
      BY <1>3, <2>1
    <2> HIDE DEF Value
    <2> QED  BY <2>2
  <1> HIDE DEF value
  <1>5. \A k \in 0..n : value[k] \in 0..ByteMod ^ k - 1
    <2> DEFINE missing == {k \in 0..n : ~ (value[k] \in 0..ByteMod ^ k - 1)}
    <2> SUFFICES ASSUME missing # {} PROVE FALSE
      OBVIOUS
    <2>1. PICK k \in missing : \A j \in missing : k <= j
      <3>1. missing \in SUBSET Nat
        BY <1>1
      <3> HIDE DEF missing
      <3> QED  BY <3>1, LeastNatural
    <2>2. CASE k = 0
      <3>1. value[0] = 0
        BY <1>1, <1>4
      <3>2. value[0] \in 0..ByteMod ^ 0 - 1
        BY <3>1, PlaceValues
      <3> QED  BY <2>1, <2>2, <3>2
    <2>3. CASE k # 0
      <3>1. k - 1 \in 0..n /\ k \in 1..n /\ k - 1 \notin missing /\ k \in 1..WordSize
        BY <1>1, <2>1, <2>3
      <3> DEFINE low == ByteMod ^ (k - 1)
                 x   == value[k - 1]
                 b   == bytes[k]
      <3>2. low \in Nat \ {0} /\ ByteMod ^ k = ByteMod * low
        BY <3>1, PlaceValues
      <3>3. x \in 0..low - 1
        BY <3>1
      <3>4. value[k] = x * ByteMod + b /\ b \in 0..ByteMod - 1
        BY <1>1, <1>4, <3>1
      <3> HIDE DEF low, x, b
      <3>5. x * ByteMod + b \in 0..ByteMod * low - 1
        <4>1. x * ByteMod \in Nat /\ (low - 1) * ByteMod = ByteMod * low - ByteMod
          BY <1>1, <3>2, <3>3
        <4>2. x * ByteMod <= (low - 1) * ByteMod
          BY <1>1, <3>2, <3>3
        <4> DEFINE y == x * ByteMod
                   z == ByteMod * low
        <4>3. y \in Nat /\ z \in Nat /\ y <= z - ByteMod
          BY <1>1, <3>2, <4>1, <4>2
        <4> HIDE DEF y, z
        <4>4. y + b \in 0..z - 1
          BY <1>1, <3>4, <4>3
        <4> QED  BY <4>4 DEF y, z
      <3>6. value[k] \in 0..ByteMod ^ k - 1
        BY <3>2, <3>4, <3>5
      <3> QED  BY <2>1, <3>6
    <2> QED  BY <2>2, <2>3
  <1>6. n \in 0..n
    BY <1>1
  <1> QED  BY <1>2, <1>5, <1>6 DEF n

\* The bytes stored are bytes.
LEMMA StoreType ==
    ASSUME NEW w \in Words, NEW n \in 0..WordSize
    PROVE  store(w, n) \in Seq(Byte) /\ Len(store(w, n)) = n
  <1>1. n \in Nat /\ WordSize \in Nat /\ ByteMod \in Nat \ {0}
    BY WordFacts
  <1>2. ASSUME NEW k \in 1..n PROVE (w \div ByteMod ^ (n - k)) % ByteMod \in Byte
    <2> DEFINE p == ByteMod ^ (n - k)
    <2>1. (n - k) + 1 \in 1..WordSize /\ ((n - k) + 1) - 1 = n - k
      BY <1>1
    <2>2. p \in Nat \ {0}
      BY <2>1, PlaceValues
    <2>3. w \in Nat
      BY WordFacts DEF Words
    <2> HIDE DEF p
    <2>4. w \div p \in Int
      BY <2>2, <2>3
    <2>5. (w \div p) % ByteMod \in 0..ByteMod - 1
      BY <1>1, <2>4
    <2> QED  BY <2>5 DEF p, Byte
  <1> QED  BY <1>1, <1>2 DEF store

\* Numbers as quotient and remainder.
LEMMA Quotient ==
    ASSUME NEW a \in Nat, NEW b \in Nat \ {0}
    PROVE  a \div b \in Nat /\ a % b \in 0..b - 1 /\ a = b * (a \div b) + (a % b)
  OBVIOUS

\* The address a handler traces as a word, and the place it accesses, which is cut to
\* its low limb, are the same if the address traced is inside the memory: a word with
\* other limbs stays outside, as 2^64 divides 2^256.
LEMMA WordAddress ==
    ASSUME NEW index \in Words, NEW k \in Nat, to_uint64(index) + k < LimbMod,
           (index + k) % WordMod < LimbMod
    PROVE  (index + k) % WordMod = to_uint64(index) + k
  <1> DEFINE q == index \div LimbMod
             u == index % LimbMod
             c == WordMod \div LimbMod
             W == WordMod
  <1>1. /\ LimbMod \in Nat \ {0} /\ W \in Nat \ {0} /\ W % LimbMod = 0
        /\ index \in Nat /\ index < W
    BY WordFacts DEF Words
  <1>2. (index + k) % W < LimbMod /\ u + k < LimbMod /\ to_uint64(index) = u
    BY DEF to_uint64
  <1>3. q \in Nat /\ u \in 0..LimbMod - 1 /\ index = LimbMod * q + u
    BY <1>1, Quotient
  <1>4. c \in Nat /\ W = LimbMod * c
    <2> HIDE DEF W
    <2>1. W \div LimbMod \in Nat /\ W = LimbMod * (W \div LimbMod) + (W % LimbMod)
      BY <1>1, Quotient
    <2>2. LimbMod * (W \div LimbMod) \in Nat
      BY <1>1, <2>1
    <2> QED  BY <1>1, <2>1, <2>2 DEF W
  <1> HIDE DEF q, u, c, W
  <1>5. q <= c - 1
    <2>1. q >= c => LimbMod * q >= LimbMod * c
      BY <1>1, <1>3, <1>4
    <2>2. LimbMod * q \in Nat /\ LimbMod * c \in Nat
      BY <1>1, <1>3, <1>4
    <2> QED  BY <1>1, <1>3, <1>4, <2>1, <2>2
  <1>6. LimbMod * q + LimbMod <= W
    <2>1. LimbMod * q <= LimbMod * (c - 1) /\ LimbMod * (c - 1) = LimbMod * c - LimbMod
      BY <1>1, <1>3, <1>4, <1>5
    <2>2. LimbMod * q \in Nat /\ LimbMod * c \in Nat
      BY <1>1, <1>3, <1>4
    <2> QED  BY <1>1, <1>4, <2>1, <2>2
  <1>7. LimbMod * q \in Nat
    BY <1>1, <1>3
  <1>8. index + k \in Nat /\ index + k < W
    BY <1>1, <1>2, <1>3, <1>6, <1>7
  <1>9. (index + k) % W = index + k
    BY <1>1, <1>8
  <1>10. q = 0
    <2>1. q # 0 => LimbMod * q >= LimbMod
      BY <1>1, <1>3
    <2> QED  BY <1>1, <1>2, <1>3, <1>7, <1>9, <2>1
  <1>11. index = u
    BY <1>1, <1>3, <1>10
  <1> QED  BY <1>2, <1>9, <1>11 DEF W

\* What TypeOK says beyond the numbers, and that the size is bounded: without the bound
\* the result of msize need not be a word, nor the address of a byte its place.
Status == {"EVMC_SUCCESS", "EVMC_REVERT", "EVMC_OUT_OF_GAS", "EVMC_INVALID_MEMORY_ACCESS"}
Data ==
    /\ memory \in Stretch(size)
    /\ size <= SizeBound
    /\ gas_limit \in Nat
    /\ status \in Status
    /\ rw_trace \in Seq(Operation)

\* The invariant that keeps the types.
DInv == MInv /\ Data

\* The body of TraceTruthful: what the step traced of a byte is the byte it left.
Truthful ==
    \A k \in Len(rw_trace) + 1..Len(rw_trace') :
        rw_trace'[k].op = MEMORY_OP /\ rw_trace'[k].address \in DOMAIN memory' =>
            rw_trace'[k].value = memory'[rw_trace'[k].address]

\* The size an access leaves, granted or not.
Sized(check) ==
    check.size \in Nat /\ size <= check.size /\ check.size <= SizeBound

\* check_memory with a number, and what it grants.
LEMMA MemorySized ==
    ASSUME DInv, running, NEW offset \in Nat, NEW n \in Nat, 0 < n, n <= MaxBuffer
    PROVE  /\ Sized(check_memory(offset, n))
           /\ check_memory(offset, n).ok =>
                  to_uint64(offset) + n <= check_memory(offset, n).size
  BY MemoryGranted, CheckBounded DEF DInv, MInv, Data, Granted, Sized

\* check_memory with a word, and what it grants.
LEMMA CopySized ==
    ASSUME DInv, running, NEW offset \in Nat, NEW n \in Nat
    PROVE  /\ Sized(check_copy(offset, n))
           /\ check_copy(offset, n).ok /\ to_uint64(n) > 0 =>
                  /\ to_uint64(offset) + to_uint64(n) <= check_copy(offset, n).size
                  /\ to_uint64(offset) <= MaxBuffer /\ to_uint64(n) <= MaxBuffer
  <1>1. Granted(check_copy(offset, n), offset, to_uint64(n)) /\ Sized(check_copy(offset, n))
    BY CopyGranted, CheckBounded DEF DInv, MInv, Data, Granted, Sized
  <1>2. to_uint64(offset) \in Nat /\ to_uint64(n) \in Nat /\ MaxBuffer \in Nat
    BY Limb, MemoryConstants
  <1>3. ASSUME check_copy(offset, n).ok, to_uint64(n) > 0
        PROVE  to_uint64(offset) <= MaxBuffer /\ to_uint64(n) <= MaxBuffer
    <2>1. n # 0
      BY <1>3, MemoryConstants DEF to_uint64
    <2>2. to_uint64(n) <= MaxBuffer
      BY <1>2, <1>3, <2>1 DEF check_copy
    <2>3. check_copy(offset, n) = check_memory(offset, to_uint64(n))
      BY <1>2, <2>1, <2>2 DEF check_copy
    <2>4. to_uint64(offset) > MaxBuffer => ~ check_memory(offset, to_uint64(n)).ok
      BY DEF check_memory
    <2> QED  BY <1>2, <1>3, <2>2, <2>3, <2>4
  <1> QED  BY <1>1, <1>2, <1>3 DEF Granted

\* A handler that leaves a memory m of the checked size and a trace keeps the types; if
\* the trace is true of m, the step is truthful.
LEMMA EffectData ==
    ASSUME Data, NEW check, Sized(check), NEW m \in Stretch(check.size), NEW g, NEW trace,
           NEW x, Adds(trace, x), Effect(check, g, m, trace), gas_limit' = gas_limit,
           status' \in Status
    PROVE  Data' /\ (x = m => Truthful)
  <1>1. memory' = m /\ size' = check.size /\ rw_trace' = trace
    BY DEF Effect
  <1>2. Data'
    BY <1>1 DEF Data, Sized, Adds, Stretch
  <1>3. x = m => Truthful
    BY <1>1 DEF Truthful, Adds
  <1> QED  BY <1>2, <1>3

\* A handler that goes on.
LEMMA ContinueData ==
    ASSUME Data, NEW check, Sized(check), NEW m \in Stretch(check.size), NEW g, NEW trace,
           NEW x, Adds(trace, x), Continue(check, g, m, trace), gas_limit' = gas_limit
    PROVE  Data' /\ (x = m => Truthful)
  BY EffectData DEF Continue, Data

\* A handler that fails has traced its operands only.
LEMMA HaltData ==
    ASSUME DInv, NEW check, Sized(check), NEW g, NEW trace, NEW failure \in Status,
           Adds(trace, Grown(check.size)), Halt(failure, check, g, trace),
           gas_limit' = gas_limit
    PROVE  Data' /\ Truthful
  <1>1. Grown(check.size) \in Stretch(check.size)
    BY GrownType DEF DInv, MInv, Numbers, Data, Sized
  <1> QED  BY <1>1, EffectData DEF Halt, DInv

\* The places of a stretch of the memory are below 2^64: their addresses are themselves.
LEMMA PlaceAddress ==
    ASSUME NEW a \in Nat, a < SizeBound
    PROVE  a % WordMod = a
  <1>1. a < WordMod /\ WordMod \in Nat \ {0}
    BY WordFacts
  <1> HIDE DEF WordMod
  <1> QED  BY <1>1

\* A word of the memory.
LEMMA WordBytes ==
    ASSUME NEW n \in Nat, NEW m \in Stretch(n), NEW at \in Nat, at + WordSize <= n
    PROVE  LET bytes == [k \in 1..WordSize |-> m[at + k - 1]]
           IN  bytes \in Seq(Byte) /\ Len(bytes) = WordSize
  <1> DEFINE byte(k) == m[at + k - 1]
  <1>1. WordSize \in Nat
    BY WordFacts
  <1>2. ASSUME NEW k \in 1..WordSize PROVE byte(k) \in Byte
    <2>1. at + k - 1 \in 0..n - 1
      BY <1>1
    <2> QED  BY <2>1 DEF Stretch
  <1> HIDE DEF byte
  <1>3. [k \in 1..WordSize |-> byte(k)] \in Seq(Byte)
    BY <1>1, <1>2
  <1>4. Len([k \in 1..WordSize |-> byte(k)]) = WordSize
    BY <1>1
  <1> QED  BY <1>3, <1>4 DEF byte

\* A word of the memory traced where it is.
LEMMA WordAdds ==
    ASSUME rw_trace \in Seq(Operation), NEW n \in Nat, n <= SizeBound, NEW m \in Stretch(n),
           NEW t, Adds(t, m), NEW write \in BOOLEAN, NEW at \in Nat, at + WordSize <= n
    PROVE  LET bytes == [k \in 1..WordSize |-> m[at + k - 1]]
           IN  /\ bytes \in Seq(Byte) /\ Len(bytes) = WordSize
               /\ Adds(TraceBytes(t, write, at, bytes), m)
  <1> DEFINE bytes == [k \in 1..WordSize |-> m[at + k - 1]]
  <1>1. WordSize \in Nat /\ SizeBound \in Nat
    BY WordFacts
  <1>2. ASSUME NEW k \in 1..WordSize
        PROVE  /\ at + k - 1 \in 0..n - 1 /\ m[at + k - 1] \in Byte
               /\ (at + k - 1) % WordMod = at + k - 1
    <2>1. at + k - 1 \in 0..n - 1 /\ at + k - 1 \in Nat /\ at + k - 1 < SizeBound
      BY <1>1
    <2>2. (at + k - 1) % WordMod = at + k - 1
      BY <2>1, PlaceAddress
    <2> QED  BY <2>1, <2>2 DEF Stretch
  <1>3. bytes \in Seq(Byte) /\ Len(bytes) = WordSize
    BY WordBytes
  <1>4. \A k \in 1..Len(bytes) : (at + k - 1) % WordMod \in DOMAIN m =>
                                  bytes[k] = m[(at + k - 1) % WordMod]
    BY <1>2, <1>3
  <1> HIDE DEF bytes
  <1>5. Adds(TraceBytes(t, write, at, bytes), m)
    BY <1>3, <1>4, BytesAdd
  <1> QED  BY <1>3, <1>5 DEF bytes

\* mload.
LEMMA LoadData ==
    ASSUME DInv, NEW index \in Words, mload(index)
    PROVE  Data' /\ Truthful
  <1> DEFINE check == check_memory(index, WordSize)
             reads == ReadOperands(<<index>>)
             m     == Grown(check.size)
             at    == to_uint64(index)
             bytes == [k \in 1..WordSize |-> m[at + k - 1]]
  <1>1. running /\ gas_limit' = gas_limit
    BY Starts DEF mload
  <1>2. index \in Nat /\ at \in Nat /\ WordSize \in Nat \ {0} /\ WordSize <= MaxBuffer
    BY WordFacts, Limb, MemoryConstants DEF Words
  <1>3. Sized(check) /\ (check.ok => at + WordSize <= check.size)
    BY <1>1, <1>2, MemorySized
  <1>4. rw_trace \in Seq(Operation) /\ memory \in Stretch(size) /\ size \in Nat
    BY DEF DInv, Data, MInv, Numbers
  <1>5. m \in Stretch(check.size)
    BY <1>3, <1>4, GrownType DEF Sized
  <1>6. Adds(reads, m)
    <2>1. <<index>> \in Seq(Words) /\ Len(<<index>>) <= 4
      OBVIOUS
    <2> QED  BY <1>4, <2>1, OperandsAdd
  <1>7. \/ Halt("EVMC_OUT_OF_GAS", check, check.gas, reads)
        \/ check.ok /\ Continue(check, check.gas, m,
                                WriteResult(TraceReads(reads, at, bytes), load(bytes)))
    BY DEF mload, OutOfGas
  <1> HIDE DEF check, reads, at
  <1>8. CASE Halt("EVMC_OUT_OF_GAS", check, check.gas, reads)
    BY <1>1, <1>3, <1>6, <1>8, HaltData DEF Status
  <1> HIDE DEF m
  <1>9. CASE check.ok /\ Continue(check, check.gas, m,
                              WriteResult(TraceReads(reads, at, bytes), load(bytes)))
    <2>1. /\ bytes \in Seq(Byte) /\ Len(bytes) = WordSize
          /\ Adds(TraceReads(reads, at, bytes), m)
      BY <1>2, <1>3, <1>4, <1>5, <1>6, <1>9, WordAdds DEF Sized, TraceReads
    <2> HIDE DEF bytes
    <2>2. load(bytes) \in Words
      BY <1>2, <2>1, LoadRange DEF Words, WordMod
    <2>3. Adds(WriteResult(TraceReads(reads, at, bytes), load(bytes)), m)
      BY <1>4, <2>1, <2>2, ResultAdds
    <2> QED  BY <1>1, <1>3, <1>5, <1>9, <2>3, ContinueData DEF DInv
  <1> QED  BY <1>7, <1>8, <1>9

\* mstore<T>: the bytes are traced after they are stored.
LEMMA StoreData ==
    ASSUME DInv, NEW width \in 0..WordSize, NEW index \in Words, NEW value \in Words,
           mstore(width, index, value)
    PROVE  Data' /\ Truthful
  <1> DEFINE check == check_memory(index, WordSize)
             reads == ReadOperands(<<index, value>>)
             at    == to_uint64(index)
             grown == Grown(check.size)
             m     == Overwrite(grown, at, store(value, width))
             bytes == [k \in 1..WordSize |-> m[at + k - 1]]
  <1>1. running /\ gas_limit' = gas_limit
    BY Starts DEF mstore
  <1>2. index \in Nat /\ at \in Nat /\ WordSize \in Nat \ {0} /\ WordSize <= MaxBuffer
    BY WordFacts, Limb, MemoryConstants DEF Words
  <1>3. Sized(check) /\ (check.ok => at + WordSize <= check.size)
    BY <1>1, <1>2, MemorySized
  <1>4. rw_trace \in Seq(Operation) /\ memory \in Stretch(size) /\ size \in Nat
    BY DEF DInv, Data, MInv, Numbers
  <1>5. grown \in Stretch(check.size)
    BY <1>3, <1>4, GrownType DEF Sized
  <1>6. m \in Stretch(check.size)
    <2> HIDE DEF grown, at
    <2> QED  BY <1>2, <1>3, <1>5, StoreType, OverwriteType DEF Sized
  <1>7. \A x : Adds(reads, x)
    <2>1. <<index, value>> \in Seq(Words) /\ Len(<<index, value>>) <= 4
      OBVIOUS
    <2> QED  BY <1>4, <2>1, OperandsAdd
  <1>8. \/ Halt("EVMC_OUT_OF_GAS", check, check.gas, reads)
        \/ check.ok /\ Continue(check, check.gas, m, TraceWrites(reads, at, bytes))
    BY DEF mstore, OutOfGas
  <1> HIDE DEF check, reads, at, m
  <1>9. CASE Halt("EVMC_OUT_OF_GAS", check, check.gas, reads)
    BY <1>1, <1>3, <1>7, <1>9, HaltData DEF Status
  <1>10. CASE check.ok /\ Continue(check, check.gas, m, TraceWrites(reads, at, bytes))
    <2>1. Adds(TraceWrites(reads, at, bytes), m)
      BY <1>2, <1>3, <1>4, <1>6, <1>7, <1>10, WordAdds DEF Sized, TraceWrites
    <2> HIDE DEF bytes
    <2> QED  BY <1>1, <1>3, <1>6, <1>10, <2>1, ContinueData DEF DInv
  <1> QED  BY <1>8, <1>9, <1>10

\* A limb is a word whose low limb it is.
LEMMA LimbWord ==
    ASSUME NEW w \in Words
    PROVE  /\ w \in Nat /\ to_uint64(w) \in Words /\ to_uint64(w) \in Nat
           /\ to_uint64(w) < LimbMod /\ to_uint64(to_uint64(w)) = to_uint64(w)
  <1>1. w \in Nat /\ LimbMod \in Nat \ {0} /\ WordMod \in Nat /\ LimbMod <= WordMod
    BY WordFacts DEF Words
  <1> HIDE DEF WordMod
  <1>2. w % LimbMod \in 0..LimbMod - 1
    BY <1>1
  <1>3. (w % LimbMod) % LimbMod = w % LimbMod
    BY <1>1, <1>2
  <1> QED  BY <1>1, <1>2, <1>3 DEF to_uint64, Words

\* Bytes traced at a word, of a place that is its low limb.
LEMMA PlaceAdds ==
    ASSUME rw_trace \in Seq(Operation), NEW n \in Nat, n <= SizeBound, NEW m \in Stretch(n),
           NEW t, Adds(t, m), NEW write \in BOOLEAN, NEW index \in Words,
           NEW bytes \in Seq(Byte), to_uint64(index) + Len(bytes) <= LimbMod,
           \A k \in 1..Len(bytes) : to_uint64(index) + k - 1 \in DOMAIN m =>
                                       bytes[k] = m[to_uint64(index) + k - 1]
    PROVE  Adds(TraceBytes(t, write, index, bytes), m)
  <1> DEFINE at == to_uint64(index)
  <1>1. /\ at \in Nat /\ index \in Nat /\ Len(bytes) \in Nat /\ LimbMod \in Nat
        /\ DOMAIN m = 0..n - 1 /\ SizeBound < LimbMod /\ SizeBound \in Nat
    BY LimbWord, WordFacts DEF Stretch
  <1>2. ASSUME NEW k \in 1..Len(bytes), (index + k - 1) % WordMod \in DOMAIN m
        PROVE  bytes[k] = m[(index + k - 1) % WordMod]
    <2>1. k - 1 \in Nat /\ at + (k - 1) < LimbMod
      BY <1>1
    <2>2. (index + (k - 1)) % WordMod < LimbMod
      <3>1. index + (k - 1) = index + k - 1
        BY <1>1
      <3>2. (index + (k - 1)) % WordMod \in 0..n - 1
        BY <1>1, <1>2, <3>1
      <3> HIDE DEF WordMod
      <3> QED  BY <1>1, <3>2
    <2>3. (index + (k - 1)) % WordMod = at + (k - 1)
      BY <2>1, <2>2, WordAddress
    <2>4. index + (k - 1) = index + k - 1 /\ at + (k - 1) = at + k - 1
      BY <1>1
    <2> QED  BY <1>2, <2>3, <2>4
  <1> QED  BY <1>1, <1>2, BytesAdd

\* A part of the source is bytes.
LEMMA PartType ==
    ASSUME NEW c \in Seq(Byte), NEW i \in Nat, NEW n \in Nat, i + n <= Len(c)
    PROVE  SubSeq(c, i + 1, i + n) \in Seq(Byte) /\ Len(SubSeq(c, i + 1, i + n)) = n
  <1>1. Len(c) \in Nat
    OBVIOUS
  <1>2. \A k \in 1..n : i + k \in 1..Len(c)
    BY <1>1
  <1>3. SubSeq(c, i + 1, i + n) = [k \in 1..n |-> c[i + k]]
    <2>1. (i + n) - (i + 1) + 1 = n /\ \A k \in 1..n : (i + 1) + k - 1 = i + k
      BY <1>1
    <2> QED  BY <2>1
  <1>4. \A k \in 1..n : c[i + k] \in Byte
    BY <1>2
  <1>5. [k \in 1..n |-> c[i + k]] \in Seq(Byte)
    BY <1>4
  <1> QED  BY <1>3, <1>5

\* The zeros cleared behind the bytes copied.
LEMMA CopiedType ==
    ASSUME NEW c \in Seq(Byte), NEW n \in Nat
    PROVE  /\ c \o Zeros(n) \in Seq(Byte) /\ Len(c \o Zeros(n)) = Len(c) + n
           /\ Zeros(n) \in Seq(Byte) /\ Len(Zeros(n)) = n
           /\ \A k \in 1..Len(c) : (c \o Zeros(n))[k] = c[k]
  <1>1. Zeros(n) \in Seq(Byte) /\ Len(Zeros(n)) = n
    BY WordFacts DEF Zeros
  <1> QED  BY <1>1

\* keccak256: the word traced is read where the bytes hashed begin.
LEMMA HashData ==
    ASSUME DInv, NEW index \in Words, NEW n \in Words, keccak256(index, n)
    PROVE  Data' /\ Truthful
  <1> DEFINE check == check_copy(index, n)
             reads == ReadOperands(<<index, n>>)
             at    == to_uint64(index)
             s     == to_uint64(n)
             m     == Grown(check.size)
             left  == check.gas - 6 * num_words(s)
             bytes(stray) == ReadBytes(m, at, WordSize, stray)
             trace(stray) == IF s = 0 THEN reads ELSE TraceReads(reads, index, bytes(stray))
  <1>1. running /\ gas_limit' = gas_limit
    BY Starts DEF keccak256
  <1>2. index \in Nat /\ n \in Nat /\ at \in Nat /\ s \in Nat /\ WordSize \in Nat
    BY LimbWord, WordFacts
  <1>3. /\ Sized(check)
        /\ check.ok /\ s > 0 => at <= MaxBuffer
    BY <1>1, <1>2, CopySized
  <1>4. rw_trace \in Seq(Operation) /\ memory \in Stretch(size) /\ size \in Nat
    BY DEF DInv, Data, MInv, Numbers
  <1>5. m \in Stretch(check.size)
    BY <1>3, <1>4, GrownType DEF Sized
  <1>6. Adds(reads, m)
    <2>1. <<index, n>> \in Seq(Words) /\ Len(<<index, n>>) <= 4
      OBVIOUS
    <2> QED  BY <1>4, <2>1, OperandsAdd
  <1>7. \/ \E g : Halt("EVMC_OUT_OF_GAS", check, g, reads)
        \/ /\ check.ok
           /\ \E hash \in StoredWords, stray \in [1..WordSize -> StrayBytes] :
                  Continue(check, left, m, WriteResult(trace(stray), hash))
    BY DEF keccak256, OutOfGas
  <1> HIDE DEF check, reads, at, s, left
  <1>8. CASE \E g : Halt("EVMC_OUT_OF_GAS", check, g, reads)
    BY <1>1, <1>3, <1>6, <1>8, HaltData DEF Status
  <1> HIDE DEF m
  <1>9. ASSUME check.ok, NEW hash \in StoredWords, NEW stray \in [1..WordSize -> StrayBytes],
               Continue(check, left, m, WriteResult(trace(stray), hash))
        PROVE  Data' /\ Truthful
    <2>1. DOMAIN m = 0..check.size - 1 /\ \A a \in 0..check.size - 1 : m[a] \in Byte
      BY <1>5 DEF Stretch
    <2>2. \A k \in 1..WordSize : stray[k] \in Byte
      BY DataConstants
    <2>3. bytes(stray) \in Seq(Byte) /\ Len(bytes(stray)) = WordSize
          /\ \A k \in 1..WordSize : at + k - 1 \in DOMAIN m =>
                                      bytes(stray)[k] = m[at + k - 1]
      BY <1>2, <2>1, <2>2 DEF ReadBytes
    <2> HIDE DEF bytes
    <2>4. s # 0 => at + WordSize <= LimbMod
      BY <1>2, <1>3, <1>9, MemoryConstants
    <2>5. s # 0 => Adds(TraceReads(reads, index, bytes(stray)), m)
      BY <1>3, <1>4, <1>5, <1>6, <2>3, <2>4, PlaceAdds DEF TraceReads, Sized, at
    <2>6. Adds(trace(stray), m)
      BY <1>6, <2>5
    <2> HIDE DEF trace
    <2>7. hash \in Words
      BY WordConstants DEF Words
    <2>8. Adds(WriteResult(trace(stray), hash), m)
      BY <1>4, <2>6, <2>7, ResultAdds
    <2> QED  BY <1>1, <1>3, <1>5, <1>9, <2>8, ContinueData DEF DInv
  <1> QED  BY <1>7, <1>8, <1>9

\* What calldatacopy, codecopy, extcodecopy and datacopy take of their source.
LEMMA TakenType ==
    ASSUME NEW c \in Seq(Byte), NEW i \in Nat, NEW s \in Nat
    PROVE  LET src    == Smaller(Len(c), i)
               n      == Smaller(s, Len(c) - src)
               copied == SubSeq(c, src + 1, src + n)
           IN  copied \in Seq(Byte) /\ Len(copied) = n /\ n \in Nat /\ n <= s
  <1> DEFINE src == Smaller(Len(c), i)
             n   == Smaller(s, Len(c) - src)
  <1>1. Len(c) \in Nat
    OBVIOUS
  <1>2. src \in Nat /\ src <= Len(c)
    BY <1>1 DEF Smaller
  <1>3. n \in Nat /\ n <= s /\ src + n <= Len(c)
    <2> HIDE DEF src
    <2> QED  BY <1>1, <1>2 DEF Smaller
  <1> HIDE DEF src, n
  <1>4. SubSeq(c, src + 1, src + n) \in Seq(Byte) /\ Len(SubSeq(c, src + 1, src + n)) = n
    BY <1>2, <1>3, PartType
  <1> QED  BY <1>3, <1>4 DEF src, n

\* Bytes stored at the low limb of a word, the first of them traced at the word.
LEMMA CopyAdds ==
    ASSUME rw_trace \in Seq(Operation), NEW n \in Nat, n <= SizeBound,
           NEW grown \in Stretch(n), NEW t, NEW index \in Words, NEW bytes \in Seq(Byte),
           Adds(t, Overwrite(grown, to_uint64(index), bytes)),
           NEW copied \in Seq(Byte), Len(copied) <= Len(bytes),
           \A k \in 1..Len(copied) : bytes[k] = copied[k],
           to_uint64(index) + Len(copied) <= LimbMod
    PROVE  Adds(TraceWrites(t, index, copied), Overwrite(grown, to_uint64(index), bytes))
  <1> DEFINE at == to_uint64(index)
             m  == Overwrite(grown, at, bytes)
  <1>1. at \in Nat /\ Len(bytes) \in Nat /\ Len(copied) \in Nat
    BY LimbWord
  <1>2. /\ m \in Stretch(n)
        /\ \A a \in 0..n - 1 :
               m[a] = IF a \in at..at + Len(bytes) - 1 THEN bytes[a - at + 1] ELSE grown[a]
    <2>1. at \in Nat
      BY <1>1
    <2> HIDE DEF at
    <2> QED  BY ONLY <2>1, n \in Nat, grown \in Stretch(n), bytes \in Seq(Byte), OverwriteType
  <1> HIDE DEF m
  <1>3. ASSUME NEW k \in 1..Len(copied), at + k - 1 \in DOMAIN m
        PROVE  copied[k] = m[at + k - 1]
    <2>1. at + k - 1 \in 0..n - 1
      BY <1>2, <1>3 DEF Stretch
    <2>2. at + k - 1 \in at..at + Len(bytes) - 1 /\ (at + k - 1) - at + 1 = k
      BY <1>1
    <2> QED  BY <1>2, <2>1, <2>2
  <1>4. Adds(t, m)
    BY DEF m
  <1>5. Adds(TraceBytes(t, TRUE, index, copied), m)
    BY <1>2, <1>3, <1>4, PlaceAdds
  <1> QED  BY <1>5 DEF TraceWrites, m

\* The addresses of what was granted stay below 2^64.
LEMMA GrantedPlace ==
    ASSUME NEW index \in Words, NEW s \in Nat, NEW n \in Nat, n <= s,
           s > 0 => to_uint64(index) <= MaxBuffer /\ s <= MaxBuffer
    PROVE  to_uint64(index) + n <= LimbMod
  <1>1. /\ to_uint64(index) \in Nat /\ to_uint64(index) < LimbMod
        /\ MaxBuffer \in Nat /\ LimbMod \in Nat /\ 2 * MaxBuffer < LimbMod
    BY LimbWord, MemoryConstants
  <1> QED  BY <1>1

\* calldatacopy, codecopy: the bytes copied are traced where they are stored, the bytes
\* cleared behind them are not traced.
LEMMA CopyData ==
    ASSUME DInv, NEW to \in Words, NEW from \in Words, NEW n \in Words, CopySource(to, from, n)
    PROVE  Data' /\ Truthful
  <1> DEFINE check     == check_copy(to, n)
             reads     == ReadOperands(<<to, from, n>>)
             s         == to_uint64(n)
             src       == Smaller(Len(Source), to_uint64(from))
             copy_size == Smaller(s, Len(Source) - src)
             copied    == SubSeq(Source, src + 1, src + copy_size)
             bytes     == copied \o Zeros(s - copy_size)
             at        == to_uint64(to)
             left      == check.gas - copy_cost(s)
             grown     == Grown(check.size)
             m         == Overwrite(grown, at, bytes)
  <1>1. running /\ gas_limit' = gas_limit
    BY Starts DEF CopySource
  <1>2. to \in Nat /\ n \in Nat /\ at \in Nat /\ s \in Nat /\ to_uint64(from) \in Nat
    BY LimbWord
  <1>3. /\ Sized(check)
        /\ check.ok /\ s > 0 => at <= MaxBuffer /\ s <= MaxBuffer
    BY <1>1, <1>2, CopySized
  <1>4. rw_trace \in Seq(Operation) /\ memory \in Stretch(size) /\ size \in Nat
    BY DEF DInv, Data, MInv, Numbers
  <1>5. grown \in Stretch(check.size)
    BY <1>3, <1>4, GrownType DEF Sized
  <1>6. \A x : Adds(reads, x)
    <2>1. <<to, from, n>> \in Seq(Words) /\ Len(<<to, from, n>>) <= 4
      OBVIOUS
    <2> QED  BY <1>4, <2>1, OperandsAdd
  <1>7. \/ \E g : Halt("EVMC_OUT_OF_GAS", check, g, reads)
        \/ check.ok /\ Continue(check, left, m, TraceWrites(reads, to, copied))
    BY DEF CopySource, OutOfGas
  <1>8. copied \in Seq(Byte) /\ Len(copied) = copy_size /\ copy_size \in Nat /\ copy_size <= s
    BY <1>2, DataConstants, TakenType
  <1> HIDE DEF check, reads, s, copied, copy_size, left, grown
  <1>9. /\ bytes \in Seq(Byte) /\ Len(copied) <= Len(bytes)
        /\ \A k \in 1..Len(copied) : bytes[k] = copied[k]
    <2>1. s - copy_size \in Nat
      BY <1>2, <1>8
    <2>2. /\ bytes \in Seq(Byte) /\ Len(bytes) = Len(copied) + (s - copy_size)
          /\ \A k \in 1..Len(copied) : bytes[k] = copied[k]
      BY <1>8, <2>1, CopiedType
    <2> HIDE DEF bytes
    <2> QED  BY <1>8, <2>1, <2>2
  <1>10. CASE \E g : Halt("EVMC_OUT_OF_GAS", check, g, reads)
    BY <1>1, <1>3, <1>6, <1>10, HaltData DEF Status
  <1>11. CASE check.ok /\ Continue(check, left, m, TraceWrites(reads, to, copied))
    <2> HIDE DEF bytes
    <2>1. m \in Stretch(check.size)
      <3> HIDE DEF at
      <3> QED  BY <1>2, <1>3, <1>5, <1>9, OverwriteType DEF Sized
    <2>2. at + Len(copied) <= LimbMod
      BY <1>2, <1>3, <1>8, <1>11, GrantedPlace
    <2>3. Adds(TraceWrites(reads, to, copied), m)
      BY <1>3, <1>4, <1>5, <1>6, <1>8, <1>9, <2>2, CopyAdds DEF Sized
    <2> HIDE DEF m
    <2> QED  BY <1>1, <1>3, <1>11, <2>1, <2>3, ContinueData DEF DInv
  <1> QED  BY <1>7, <1>10, <1>11

\* returndatacopy: the bytes are traced at the place itself.
LEMMA ReturnCopyData ==
    ASSUME DInv, NEW to \in Words, NEW from \in Words, NEW n \in Words,
           returndatacopy(to, from, n)
    PROVE  Data' /\ Truthful
  <1> DEFINE check  == check_copy(to, n)
             reads  == ReadOperands(<<to, from, n>>)
             s      == to_uint64(n)
             src    == to_uint64(from)
             copied == SubSeq(Source, src + 1, src + s)
             at     == to_uint64(to)
             left   == check.gas - copy_cost(s)
             grown  == Grown(check.size)
             m      == Overwrite(grown, at, copied)
  <1>1. running /\ gas_limit' = gas_limit
    BY Starts DEF returndatacopy
  <1>2. /\ to \in Nat /\ n \in Nat /\ at \in Words /\ at \in Nat /\ to_uint64(at) = at
        /\ s \in Nat /\ src \in Nat
    BY LimbWord
  <1>3. /\ Sized(check)
        /\ check.ok /\ s > 0 => at <= MaxBuffer /\ s <= MaxBuffer
    BY <1>1, <1>2, CopySized
  <1>4. rw_trace \in Seq(Operation) /\ memory \in Stretch(size) /\ size \in Nat
    BY DEF DInv, Data, MInv, Numbers
  <1>5. grown \in Stretch(check.size)
    BY <1>3, <1>4, GrownType DEF Sized
  <1>6. \A x : Adds(reads, x)
    <2>1. <<to, from, n>> \in Seq(Words) /\ Len(<<to, from, n>>) <= 4
      OBVIOUS
    <2> QED  BY <1>4, <2>1, OperandsAdd
  <1>7. \/ \E g : \E failure \in Status : Halt(failure, check, g, reads)
        \/ /\ check.ok /\ src + s <= Len(Source)
           /\ Continue(check, left, m, TraceWrites(reads, at, copied))
    BY DEF returndatacopy, OutOfGas, Status
  <1>8. src + s <= Len(Source) => copied \in Seq(Byte) /\ Len(copied) = s
    BY <1>2, DataConstants, PartType
  <1> HIDE DEF check, reads, s, src, copied, left, grown, at
  <1>9. CASE \E g : \E failure \in Status : Halt(failure, check, g, reads)
    BY <1>1, <1>3, <1>6, <1>9, HaltData
  <1>10. CASE /\ check.ok /\ src + s <= Len(Source)
              /\ Continue(check, left, m, TraceWrites(reads, at, copied))
    <2>1. m \in Stretch(check.size)
      BY <1>2, <1>3, <1>5, <1>8, <1>10, OverwriteType DEF Sized
    <2>2. at + Len(copied) <= LimbMod
      BY <1>2, <1>3, <1>8, <1>10, GrantedPlace
    <2>3. Adds(TraceWrites(reads, at, copied), m)
      BY <1>2, <1>3, <1>4, <1>5, <1>6, <1>8, <1>10, <2>2, CopyAdds DEF Sized
    <2> HIDE DEF m
    <2> QED  BY <1>1, <1>3, <1>10, <2>1, <2>3, ContinueData DEF DInv
  <1> QED  BY <1>7, <1>9, <1>10

\* Bytes stored in what the memory grew to, of any instruction that goes on or fails
\* after having traced its operands and nothing about the memory it leaves.
LEMMA QuietData ==
    ASSUME DInv, running, gas_limit' = gas_limit, NEW check, Sized(check), NEW left,
           NEW at \in Nat, NEW reads, \A x : Adds(reads, x),
           \/ \E g : Halt("EVMC_OUT_OF_GAS", check, g, reads)
           \/ \E bytes \in Seq(Byte) :
                  Continue(check, left, Overwrite(Grown(check.size), at, bytes), reads)
    PROVE  Data' /\ Truthful
  <1>1. rw_trace \in Seq(Operation) /\ memory \in Stretch(size) /\ size \in Nat
    BY DEF DInv, Data, MInv, Numbers
  <1>2. Grown(check.size) \in Stretch(check.size)
    BY <1>1, GrownType DEF Sized
  <1>3. CASE \E g : Halt("EVMC_OUT_OF_GAS", check, g, reads)
    BY <1>3, HaltData DEF Status
  <1>4. ASSUME NEW bytes \in Seq(Byte),
               Continue(check, left, Overwrite(Grown(check.size), at, bytes), reads)
        PROVE  Data' /\ Truthful
    <2> DEFINE grown == Grown(check.size)
               m     == Overwrite(grown, at, bytes)
    <2>1. m \in Stretch(check.size)
      <3> HIDE DEF grown
      <3> QED  BY <1>2, OverwriteType DEF Sized, grown
    <2>2. Continue(check, left, m, reads)
      BY <1>4
    <2> HIDE DEF m
    <2> QED  BY <2>1, <2>2, ContinueData DEF DInv
  <1> QED  BY <1>3, <1>4

\* extcodecopy traces its operands only.
LEMMA CodeCopyData ==
    ASSUME DInv, NEW addr \in Words, NEW code \in Seq(Byte), NEW cold \in BOOLEAN,
           NEW to \in Words, NEW from \in Words, NEW n \in Words,
           extcodecopy(addr, code, cold, to, from, n)
    PROVE  Data' /\ Truthful
  <1> DEFINE check  == check_copy(to, n)
             reads  == ReadOperands(<<addr, to, from, n>>)
             s      == to_uint64(n)
             i      == Smaller(MaxBuffer, to_uint64(from))
             src    == Smaller(Len(code), i)
             copied == SubSeq(code, src + 1, src + Smaller(s, Len(code) - src))
             bytes  == copied \o Zeros(s - Len(copied))
             paid   == check.gas - copy_cost(s)
             left   == IF cold THEN paid - additional_cold_account_access_cost ELSE paid
             at     == to_uint64(to)
  <1>1. running /\ gas_limit' = gas_limit
    BY Starts DEF extcodecopy
  <1>2. to \in Nat /\ n \in Nat /\ at \in Nat /\ s \in Nat /\ i \in Nat
    BY LimbWord, MemoryConstants DEF Smaller
  <1>3. Sized(check)
    BY <1>1, <1>2, CopySized
  <1>4. \A x : Adds(reads, x)
    <2>1. <<addr, to, from, n>> \in Seq(Words) /\ Len(<<addr, to, from, n>>) <= 4
      OBVIOUS
    <2> QED  BY <2>1, OperandsAdd DEF DInv, Data
  <1>5. \/ \E g : Halt("EVMC_OUT_OF_GAS", check, g, reads)
        \/ Continue(check, left, Overwrite(Grown(check.size), at, bytes), reads)
    BY DEF extcodecopy, OutOfGas
  <1>6. bytes \in Seq(Byte)
    <2>1. copied \in Seq(Byte) /\ Len(copied) \in Nat /\ Len(copied) <= s
      <3> DEFINE taken == Smaller(s, Len(code) - src)
      <3> HIDE DEF i, s
      <3>1. copied \in Seq(Byte) /\ Len(copied) = taken /\ taken \in Nat /\ taken <= s
        BY ONLY code \in Seq(Byte), <1>2, TakenType
      <3> HIDE DEF copied, taken
      <3> QED  BY <3>1
    <2> HIDE DEF copied
    <2>2. s - Len(copied) \in Nat
      BY <1>2, <2>1
    <2> QED  BY <2>1, <2>2, CopiedType
  <1> HIDE DEF check, reads, bytes, left, at
  <1> QED  BY <1>1, <1>2, <1>3, <1>4, <1>5, <1>6, QuietData

\* mcopy traces its operands only; what it reads may never have been written.
LEMMA MoveData ==
    ASSUME DInv, NEW dst \in Words, NEW src \in Words, NEW n \in Words, mcopy(dst, src, n)
    PROVE  Data' /\ Truthful
  <1> DEFINE check == check_copy(Larger(dst, src), n)
             reads == ReadOperands(<<dst, src, n>>)
             s     == to_uint64(n)
             left  == check.gas - copy_cost(s)
             m     == Grown(check.size)
             at    == to_uint64(dst)
             from  == to_uint64(src)
             bytes(stray) == ReadBytes(m, from, s, stray)
  <1>1. running /\ gas_limit' = gas_limit
    BY Starts DEF mcopy
  <1>2. Larger(dst, src) \in Nat /\ n \in Nat /\ at \in Nat /\ s \in Nat /\ from \in Nat
    BY LimbWord DEF Larger
  <1>3. Sized(check)
    BY <1>1, <1>2, CopySized
  <1>4. \A x : Adds(reads, x)
    <2>1. <<dst, src, n>> \in Seq(Words) /\ Len(<<dst, src, n>>) <= 4
      OBVIOUS
    <2> QED  BY <2>1, OperandsAdd DEF DInv, Data
  <1>5. \/ \E g : Halt("EVMC_OUT_OF_GAS", check, g, reads)
        \/ \E stray \in [1..s -> StrayBytes] :
               Continue(check, left, Overwrite(m, at, bytes(stray)), reads)
    BY DEF mcopy, OutOfGas
  <1>6. m \in Stretch(check.size)
    BY <1>3, GrownType DEF Sized, DInv, Data, MInv, Numbers
  <1> HIDE DEF check, reads, left, at, s, from
  <1>7. ASSUME NEW stray \in [1..s -> StrayBytes] PROVE bytes(stray) \in Seq(Byte)
    <2> HIDE DEF m
    <2>1. DOMAIN m = 0..check.size - 1 /\ \A a \in 0..check.size - 1 : m[a] \in Byte
      BY <1>6 DEF Stretch
    <2>2. \A k \in 1..s : stray[k] \in Byte
      BY <1>7, DataConstants
    <2> QED  BY <1>2, <2>1, <2>2 DEF ReadBytes
  <1> HIDE DEF bytes
  <1>8. \/ \E g : Halt("EVMC_OUT_OF_GAS", check, g, reads)
        \/ \E b \in Seq(Byte) :
               Continue(check, left, Overwrite(Grown(check.size), at, b), reads)
    BY <1>5, <1>7 DEF m
  <1> QED  BY <1>1, <1>2, <1>3, <1>4, <1>8, QuietData

\* datacopy keeps the types; what it traces behind the copied bytes is not where they
\* are cleared.
LEMMA DataCopyData ==
    ASSUME DInv, NEW to \in Words, NEW from \in Words, NEW n \in Words, datacopy(to, from, n)
    PROVE  Data'
  <1> DEFINE check     == check_copy(to, n)
             reads     == ReadOperands(<<to, from, n>>)
             s         == to_uint64(n)
             src       == Smaller(Len(Source), to_uint64(from))
             copy_size == Smaller(s, Len(Source) - src)
             copied    == SubSeq(Source, src + 1, src + copy_size)
             cleared   == Zeros(s - copy_size)
             bytes     == copied \o cleared
             at        == to_uint64(to)
             left      == check.gas - copy_cost(s)
             grown     == Grown(check.size)
             m         == Overwrite(grown, at, bytes)
             trace     == TraceWrites(TraceWrites(reads, at, copied), at, cleared)
             none      == [a \in {} |-> 0]
  <1>1. running /\ gas_limit' = gas_limit
    BY Starts DEF datacopy
  <1>2. to \in Nat /\ n \in Nat /\ at \in Nat /\ s \in Nat /\ to_uint64(from) \in Nat
    BY LimbWord
  <1>3. Sized(check)
    BY <1>1, <1>2, CopySized
  <1>4. rw_trace \in Seq(Operation) /\ memory \in Stretch(size) /\ size \in Nat
    BY DEF DInv, Data, MInv, Numbers
  <1>5. grown \in Stretch(check.size)
    BY <1>3, <1>4, GrownType DEF Sized
  <1>6. \A x : Adds(reads, x)
    <2>1. <<to, from, n>> \in Seq(Words) /\ Len(<<to, from, n>>) <= 4
      OBVIOUS
    <2> QED  BY <1>4, <2>1, OperandsAdd
  <1>7. \/ \E g : Halt("EVMC_OUT_OF_GAS", check, g, reads)
        \/ Continue(check, left, m, trace)
    BY DEF datacopy, OutOfGas
  <1>8. copied \in Seq(Byte) /\ Len(copied) = copy_size /\ copy_size \in Nat /\ copy_size <= s
    BY <1>2, DataConstants, TakenType
  <1> HIDE DEF check, reads, s, copied, copy_size, left, grown, at
  <1>9. bytes \in Seq(Byte) /\ cleared \in Seq(Byte)
    <2>1. s - copy_size \in Nat
      BY <1>2, <1>8
    <2> QED  BY <1>8, <2>1, CopiedType
  <1>10. CASE \E g : Halt("EVMC_OUT_OF_GAS", check, g, reads)
    BY <1>1, <1>3, <1>6, <1>10, HaltData DEF Status
  <1> HIDE DEF bytes, cleared
  <1>11. CASE Continue(check, left, m, trace)
    <2>1. m \in Stretch(check.size)
      BY <1>2, <1>3, <1>5, <1>9, OverwriteType DEF Sized
    <2>2. DOMAIN none = {}
      OBVIOUS
    <2> HIDE DEF none, m
    <2>3. Adds(TraceWrites(reads, at, copied), none)
      BY <1>2, <1>4, <1>6, <1>8, <2>2, BytesAdd DEF TraceWrites
    <2>4. Adds(trace, none)
      BY <1>2, <1>4, <1>9, <2>2, <2>3, BytesAdd DEF TraceWrites
    <2> HIDE DEF trace
    <2> QED  BY <1>1, <1>3, <1>11, <2>1, <2>4, ContinueData DEF DInv
  <1> QED  BY <1>7, <1>10, <1>11

\* msize: the size fits a word.
LEMMA SizeData ==
    ASSUME DInv, msize
    PROVE  Data' /\ Truthful
  <1> DEFINE check == [size |-> size]
  <1>1. gas_limit' = gas_limit
    BY Starts DEF msize
  <1>2. /\ rw_trace \in Seq(Operation) /\ memory \in Stretch(size) /\ size \in Nat
        /\ size <= SizeBound
    BY DEF DInv, Data, MInv, Numbers
  <1>3. check.size = size /\ Sized(check)
    BY <1>2 DEF Sized
  <1>4. size \in Words
    BY <1>2, WordFacts DEF Words
  <1>5. Adds(rw_trace, memory)
    BY <1>2 DEF Adds
  <1>6. Adds(WriteResult(rw_trace, size), memory)
    BY <1>2, <1>4, <1>5, ResultAdds
  <1>7. Continue(check, gas, memory, WriteResult(rw_trace, size))
    BY DEF msize
  <1> HIDE DEF check
  <1> QED  BY <1>1, <1>2, <1>3, <1>6, <1>7, ContinueData DEF DInv

\* return_impl.
LEMMA ReturnData ==
    ASSUME DInv, NEW offset \in Words, NEW n \in Words, NEW status_code \in Status,
           return_impl(offset, n, status_code)
    PROVE  Data' /\ Truthful
  <1> DEFINE check == check_copy(offset, n)
             reads == ReadOperands(<<offset, n>>)
  <1>1. running /\ gas_limit' = gas_limit
    BY Starts DEF return_impl
  <1>2. Sized(check)
    BY <1>1, LimbWord, CopySized
  <1>3. \A x : Adds(reads, x)
    <2>1. <<offset, n>> \in Seq(Words) /\ Len(<<offset, n>>) <= 4
      OBVIOUS
    <2> QED  BY <2>1, OperandsAdd DEF DInv, Data
  <1>4. Grown(check.size) \in Stretch(check.size)
    BY <1>2, GrownType DEF Sized, DInv, Data, MInv, Numbers
  <1>5. \/ Halt("EVMC_OUT_OF_GAS", check, check.gas, reads)
        \/ Effect(check, check.gas, Grown(check.size), reads) /\ status' = status_code
    BY DEF return_impl, OutOfGas
  <1> HIDE DEF check, reads
  <1>6. CASE Halt("EVMC_OUT_OF_GAS", check, check.gas, reads)
    BY <1>1, <1>2, <1>3, <1>6, HaltData DEF Status
  <1>7. CASE Effect(check, check.gas, Grown(check.size), reads) /\ status' = status_code
    BY <1>1, <1>2, <1>3, <1>4, <1>7, EffectData DEF DInv
  <1> QED  BY <1>5, <1>6, <1>7

\* The frame starts with no memory and no trace.
LEMMA InitData ==
    ASSUME Init
    PROVE  DInv
  <1>1. /\ memory = [a \in {} |-> 0] /\ size = 0 /\ rw_trace = << >> /\ gas \in Nat
        /\ gas_limit = gas /\ status = "EVMC_SUCCESS"
    BY DataConstants DEF Init
  <1>2. memory \in Stretch(size)
    <2>1. 0..0 - 1 = {}
      OBVIOUS
    <2> QED  BY <1>1, <2>1 DEF Stretch
  <1>3. size <= SizeBound
    BY <1>1, WordFacts
  <1> QED  BY <1>1, <1>2, <1>3, InitMInv DEF DInv, Data, Status

\* Every step keeps the types; all but datacopy trace what they leave.
LEMMA NextData ==
    ASSUME DInv, [Next]_vars
    PROVE  DInv' /\ (executed' # Append(executed, "datacopy") => Truthful)
  <1> DEFINE Kept == Data' /\ Truthful
  <1>1. /\ Offsets \subseteq Words /\ Sizes \subseteq Words /\ StoredWords \subseteq Words
        /\ Widths \subseteq 0..WordSize
    BY WordConstants, MemoryConstants DEF Words
  <1>2. MInv'
    BY NextMInv DEF DInv
  <1>3. ASSUME \E index \in Offsets : mload(index) PROVE Kept
    BY <1>1, <1>3, LoadData
  <1>4. ASSUME \E width \in Widths, index \in Offsets, value \in StoredWords :
                   mstore(width, index, value)
        PROVE  Kept
    BY <1>1, <1>4, StoreData
  <1>5. ASSUME \E index \in Offsets, n \in Sizes : keccak256(index, n) PROVE Kept
    BY <1>1, <1>5, HashData
  <1>6. ASSUME \E to, from \in Offsets, n \in Sizes : CopySource(to, from, n) PROVE Kept
    BY <1>1, <1>6, CopyData
  <1>7. ASSUME NEW to \in Offsets, NEW from \in Offsets, NEW n \in Sizes,
               NEW addr \in StoredWords, NEW code \in {Source, << >>}, NEW cold \in BOOLEAN,
               extcodecopy(addr, code, cold, to, from, n)
        PROVE  Kept
    <2>1. code \in Seq(Byte)
      <3>1. Source \in Seq(Byte) /\ << >> \in Seq(Byte)
        BY DataConstants
      <3> QED  BY <3>1
    <2> QED  BY <1>1, <1>7, <2>1, CodeCopyData
  <1>8. ASSUME \E to, from \in Offsets, n \in Sizes : returndatacopy(to, from, n) PROVE Kept
    BY <1>1, <1>8, ReturnCopyData
  <1>9. ASSUME \E to, from \in Offsets, n \in Sizes : datacopy(to, from, n)
        PROVE  Data' /\ executed' = Append(executed, "datacopy")
    BY <1>1, <1>9, DataCopyData DEF datacopy, Execute
  <1>10. ASSUME \E to, from \in Offsets, n \in Sizes : mcopy(to, from, n) PROVE Kept
    BY <1>1, <1>10, MoveData
  <1>11. ASSUME msize PROVE Kept
    BY <1>11, SizeData
  <1>12. ASSUME \E offset \in Offsets, n \in Sizes,
                   status_code \in {"EVMC_SUCCESS", "EVMC_REVERT"} :
                   return_impl(offset, n, status_code)
         PROVE  Kept
    BY <1>1, <1>12, ReturnData DEF Status
  <1>13. ASSUME UNCHANGED vars PROVE Kept
    <2>1. rw_trace' = rw_trace /\ Len(rw_trace) \in Nat
      BY <1>13 DEF vars, DInv, Data
    <2>2. Truthful
      BY <2>1 DEF Truthful
    <2> QED  BY <1>13, <2>2 DEF vars, DInv, Data
  <1> HIDE DEF Kept
  <1>14. Kept \/ (Data' /\ executed' = Append(executed, "datacopy"))
    BY <1>3, <1>4, <1>5, <1>6, <1>7, <1>8, <1>9, <1>10, <1>11, <1>12, <1>13 DEF Next, Done
  <1> QED  BY <1>2, <1>14 DEF Kept, DInv

\* The numbers and the bytes of the memory are right in every state.
LEMMA MemoryData == Spec => []DInv
  <1>1. Init => DInv
    BY InitData
  <1>2. DInv /\ [Next]_vars => DInv'
    BY NextData
  <1> QED  BY <1>1, <1>2, PTL DEF Spec

\* The memory holds bytes and is a whole number of words, the output and the trace have
\* the types of the code: every word traced, of loads and of msize too, is a word.
THEOREM MemoryTypes == Spec => []TypeOK
  <1>1. DInv => TypeOK
    BY DEF DInv, MInv, Numbers, Data, Status, Stretch, TypeOK
  <1> QED  BY <1>1, MemoryData, PTL

\* No handler traces a byte before it is stored or after it is overwritten, but datacopy
\* (the order of store and trace in mstore, and the addresses the copies trace).
THEOREM TraceOfStep == Spec => TraceTruthful
  <1>1. ASSUME DInv, [Next]_vars
        PROVE  [executed' # Append(executed, "datacopy") =>
                \A k \in Len(rw_trace) + 1..Len(rw_trace') :
                    rw_trace'[k].op = MEMORY_OP /\ rw_trace'[k].address \in DOMAIN memory' =>
                        rw_trace'[k].value = memory'[rw_trace'[k].address]]_vars
    BY <1>1, NextData DEF Truthful
  <1> QED  BY <1>1, MemoryData, PTL DEF Spec, TraceTruthful

-----------------------------------------------------------------------------
(* What the trace says of the memory.                                      *)

\* The operation k of the trace t writes the byte at address a.
Wrote(t, k, a) == t[k].op = MEMORY_OP /\ t[k].is_write /\ t[k].address = a

\* The last write to address a in the trace t, if there is one, wrote v; v is 0 if there is
\* none.
LastWrote(t, a, v) ==
    \/ v = 0 /\ \A k \in 1..Len(t) : ~ Wrote(t, k, a)
    \/ \E k \in 1..Len(t) : /\ Wrote(t, k, a) /\ t[k].value = v
                            /\ \A j \in 1..Len(t) : Wrote(t, j, a) => j <= k

\* The trace t tells every byte of m, and writes none that m does not have: a byte the
\* memory grows by is a zero nothing was written to.
Tells(t, m) ==
    \A a \in Nat :
        /\ a \in DOMAIN m => LastWrote(t, a, m[a])
        /\ a \notin DOMAIN m => \A k \in 1..Len(t) : ~ Wrote(t, k, a)

\* t goes on from rw_trace and writes nothing.
Quiet(t) ==
    /\ t \in Seq(Operation)
    /\ Len(rw_trace) <= Len(t)
    /\ \A k \in 1..Len(rw_trace) : t[k] = rw_trace[k]
    /\ \A k \in Len(rw_trace) + 1..Len(t) : ~ (t[k].op = MEMORY_OP /\ t[k].is_write)

\* The memory of no byte, of which nothing is said.
Nowhere == [a \in {} |-> 0]

\* A longer trace adds nothing false about no memory at all.
LEMMA QuietAdds ==
    ASSUME NEW t \in Seq(Operation), Len(rw_trace) <= Len(t)
    PROVE  Adds(t, Nowhere) /\ DOMAIN Nowhere = {}
  BY DEF Adds, Nowhere

\* The operation traced of a byte.
ByteOp(write, a, n, v) ==
    [op |-> MEMORY_OP, address |-> a, rw_id |-> n, is_write |-> write, value |-> v]

\* The operations of the bytes traced after t.
LEMMA BytesTraced ==
    ASSUME rw_trace \in Seq(Operation), NEW t \in Seq(Operation), Len(rw_trace) <= Len(t),
           NEW write \in BOOLEAN, NEW address \in Nat, NEW bytes \in Seq(Byte)
    PROVE  LET u == TraceBytes(t, write, address, bytes)
           IN  /\ u \in Seq(Operation) /\ Len(u) = Len(t) + Len(bytes)
               /\ \A k \in 1..Len(t) : u[k] = t[k]
               /\ \A k \in 1..Len(bytes) :
                      u[Len(t) + k] = ByteOp(write, (address + k - 1) % WordMod,
                                             Len(t) + k - 1, bytes[k])
  <1> DEFINE u == TraceBytes(t, write, address, bytes)
  <1>1. Adds(t, Nowhere) /\ DOMAIN Nowhere = {}
    BY QuietAdds
  <1>2. \A k \in 1..Len(bytes) :
            (address + k - 1) % WordMod \in DOMAIN Nowhere =>
                bytes[k] = Nowhere[(address + k - 1) % WordMod]
    BY <1>1
  <1>3. /\ Adds(u, Nowhere) /\ Len(u) = Len(t) + Len(bytes)
        /\ \A k \in 1..Len(t) : u[k] = t[k]
        /\ \A k \in 1..Len(bytes) :
               u[Len(t) + k] = [op |-> MEMORY_OP,
                                address |-> (address + k - 1) % WordMod,
                                rw_id |-> Len(t) + k - 1, is_write |-> write,
                                value |-> bytes[k]]
    BY <1>1, <1>2, BytesAdd, SMTT(60)
  <1> HIDE DEF u
  <1>4. \A k \in 1..Len(bytes) :
            u[Len(t) + k] = ByteOp(write, (address + k - 1) % WordMod, Len(t) + k - 1,
                                   bytes[k])
    BY <1>3, Zenon DEF ByteOp
  <1>5. u \in Seq(Operation)
    BY <1>3 DEF Adds
  <1> QED  BY <1>3, <1>4, <1>5 DEF u

\* Operations that write nothing, after others that did not.
LEMMA QuietOn ==
    ASSUME rw_trace \in Seq(Operation), NEW t, Quiet(t), NEW u \in Seq(Operation),
           NEW n \in Nat, Len(u) = Len(t) + n, \A k \in 1..Len(t) : u[k] = t[k],
           \A k \in 1..n : ~ (u[Len(t) + k].op = MEMORY_OP /\ u[Len(t) + k].is_write)
    PROVE  Quiet(u)
  <1>1. Len(t) \in Nat /\ Len(rw_trace) \in Nat /\ Len(rw_trace) <= Len(t)
    BY DEF Quiet
  <1>2. \A k \in 1..Len(rw_trace) : u[k] = rw_trace[k]
    BY <1>1 DEF Quiet
  <1>3. ASSUME NEW k \in Len(rw_trace) + 1..Len(u)
        PROVE  ~ (u[k].op = MEMORY_OP /\ u[k].is_write)
    <2>1. CASE k <= Len(t)
      <3>1. k \in 1..Len(t) /\ k \in Len(rw_trace) + 1..Len(t)
        BY <1>1, <2>1
      <3> QED  BY <3>1 DEF Quiet
    <2>2. CASE ~ (k <= Len(t))
      <3>1. k - Len(t) \in 1..n /\ Len(t) + (k - Len(t)) = k
        BY <1>1, <2>2
      <3>2. ~ (u[Len(t) + (k - Len(t))].op = MEMORY_OP /\ u[Len(t) + (k - Len(t))].is_write)
        BY <3>1
      <3> QED  BY <3>1, <3>2
    <2> QED  BY <2>1, <2>2
  <1> QED  BY <1>1, <1>2, <1>3 DEF Quiet

\* The operands, a result and the bytes read write no byte.
LEMMA QuietOperands ==
    ASSUME rw_trace \in Seq(Operation), NEW args \in Seq(Words), Len(args) <= 4
    PROVE  Quiet(ReadOperands(args))
  <1> DEFINE u == ReadOperands(args)
  <1>1. Quiet(rw_trace) /\ STACK_OP # MEMORY_OP
    BY DEF Quiet, STACK_OP, MEMORY_OP
  <1>2. /\ Adds(u, Nowhere) /\ Len(u) = Len(rw_trace) + Len(args)
        /\ \A k \in 1..Len(rw_trace) : u[k] = rw_trace[k]
        /\ \A k \in 1..Len(args) : u[Len(rw_trace) + k].op = STACK_OP
    BY OperandsAdd
  <1> HIDE DEF u
  <1>3. u \in Seq(Operation) /\ Len(args) \in Nat
    BY <1>2 DEF Adds
  <1>4. Quiet(u)
    BY <1>1, <1>2, <1>3, QuietOn
  <1> QED  BY <1>4 DEF u

\* The result written on the stack.
LEMMA QuietResult ==
    ASSUME rw_trace \in Seq(Operation), NEW t, Quiet(t), NEW value \in Words
    PROVE  Quiet(WriteResult(t, value))
  <1> DEFINE u == WriteResult(t, value)
  <1>1. Adds(t, Nowhere) /\ STACK_OP # MEMORY_OP
    BY QuietAdds DEF Quiet, STACK_OP, MEMORY_OP
  <1>2. /\ Adds(u, Nowhere) /\ Len(u) = Len(t) + 1
        /\ \A k \in 1..Len(t) : u[k] = t[k]
        /\ u[Len(t) + 1].op = STACK_OP
    BY <1>1, ResultAdds
  <1> HIDE DEF u
  <1>3. u \in Seq(Operation)
    BY <1>2 DEF Adds
  <1>4. \A k \in 1..1 : ~ (u[Len(t) + k].op = MEMORY_OP /\ u[Len(t) + k].is_write)
    BY <1>1, <1>2
  <1>5. Quiet(u)
    BY <1>2, <1>3, <1>4, QuietOn
  <1> QED  BY <1>5 DEF u

\* The bytes of the memory that are read.
LEMMA QuietReads ==
    ASSUME rw_trace \in Seq(Operation), NEW t, Quiet(t), NEW address \in Nat,
           NEW bytes \in Seq(Byte)
    PROVE  Quiet(TraceReads(t, address, bytes))
  <1> DEFINE u == TraceBytes(t, FALSE, address, bytes)
  <1>1. Len(bytes) \in Nat /\ t \in Seq(Operation) /\ Len(rw_trace) <= Len(t)
    BY DEF Quiet
  <1>2. /\ u \in Seq(Operation) /\ Len(u) = Len(t) + Len(bytes)
        /\ \A k \in 1..Len(t) : u[k] = t[k]
        /\ \A k \in 1..Len(bytes) :
               u[Len(t) + k] = ByteOp(FALSE, (address + k - 1) % WordMod,
                                      Len(t) + k - 1, bytes[k])
    BY <1>1, BytesTraced
  <1>3. u = TraceReads(t, address, bytes)
    BY DEF TraceReads
  <1> HIDE DEF u
  <1>4. ASSUME NEW k \in 1..Len(bytes) PROVE ~ u[Len(t) + k].is_write
    <2> DEFINE a == (address + k - 1) % WordMod
               i == Len(t) + k - 1
               v == bytes[k]
    <2>1. u[Len(t) + k] = ByteOp(FALSE, a, i, v)
      BY <1>2, Zenon
    <2> HIDE DEF a, i, v
    <2> QED  BY <2>1 DEF ByteOp
  <1>5. Quiet(u)
    BY <1>1, <1>2, <1>4, QuietOn
  <1> QED  BY <1>3, <1>5

\* Nothing is the last write of more places, or of other values, for operations that
\* write nothing.
LEMMA LastQuiet ==
    ASSUME rw_trace \in Seq(Operation), NEW t, Quiet(t), NEW a, NEW v
    PROVE  /\ LastWrote(rw_trace, a, v) => LastWrote(t, a, v)
           /\ (\A k \in 1..Len(rw_trace) : ~ Wrote(rw_trace, k, a)) =>
                  \A k \in 1..Len(t) : ~ Wrote(t, k, a)
  <1>1. Len(t) \in Nat /\ Len(rw_trace) \in Nat /\ Len(rw_trace) <= Len(t)
    BY DEF Quiet
  <1>2. ASSUME NEW k \in 1..Len(t), Wrote(t, k, a)
        PROVE  k \in 1..Len(rw_trace) /\ Wrote(rw_trace, k, a)
    <2>1. k \in 1..Len(rw_trace) \/ k \in Len(rw_trace) + 1..Len(t)
      BY <1>1
    <2> QED  BY <1>2, <2>1 DEF Quiet, Wrote
  <1>3. ASSUME NEW k \in 1..Len(rw_trace)
        PROVE  k \in 1..Len(t) /\ t[k] = rw_trace[k]
    BY <1>1 DEF Quiet
  <1>4. ASSUME LastWrote(rw_trace, a, v) PROVE LastWrote(t, a, v)
    <2>1. CASE v = 0 /\ \A k \in 1..Len(rw_trace) : ~ Wrote(rw_trace, k, a)
      BY <1>2, <2>1 DEF LastWrote
    <2>2. ASSUME NEW k \in 1..Len(rw_trace), Wrote(rw_trace, k, a), rw_trace[k].value = v,
                 \A j \in 1..Len(rw_trace) : Wrote(rw_trace, j, a) => j <= k
          PROVE  LastWrote(t, a, v)
      <3>1. k \in 1..Len(t) /\ Wrote(t, k, a) /\ t[k].value = v
        BY <1>3, <2>2 DEF Wrote
      <3>2. \A j \in 1..Len(t) : Wrote(t, j, a) => j <= k
        BY <1>2, <2>2
      <3> QED  BY <3>1, <3>2 DEF LastWrote
    <2> QED  BY <1>4, <2>1, <2>2 DEF LastWrote
  <1> QED  BY <1>2, <1>4

\* The memory may grow while nothing is written.
LEMMA TellsQuiet ==
    ASSUME size \in Nat, memory \in Stretch(size), rw_trace \in Seq(Operation),
           Tells(rw_trace, memory), NEW n \in Nat, size <= n, NEW t, Quiet(t)
    PROVE  Tells(t, Grown(n))
  <1>1. /\ DOMAIN memory = 0..size - 1 /\ DOMAIN Grown(n) = 0..n - 1
        /\ \A a \in 0..n - 1 : Grown(n)[a] = IF a < size THEN memory[a] ELSE 0
    BY DEF Stretch, Grown
  <1> SUFFICES ASSUME NEW a \in Nat
               PROVE  /\ a \in DOMAIN Grown(n) => LastWrote(t, a, Grown(n)[a])
                      /\ a \notin DOMAIN Grown(n) => \A k \in 1..Len(t) : ~ Wrote(t, k, a)
    BY DEF Tells
  <1>2. CASE a < size
    <2>1. a \in DOMAIN memory /\ a \in DOMAIN Grown(n) /\ Grown(n)[a] = memory[a]
      BY <1>1, <1>2
    <2>2. LastWrote(rw_trace, a, memory[a])
      BY <2>1 DEF Tells
    <2>3. LastWrote(t, a, memory[a])
      BY <2>2, LastQuiet
    <2> QED  BY <2>1, <2>3
  <1>3. CASE ~ (a < size)
    <2>1. a \notin DOMAIN memory /\ (a \in DOMAIN Grown(n) => Grown(n)[a] = 0)
      BY <1>1, <1>3
    <2>2. \A k \in 1..Len(rw_trace) : ~ Wrote(rw_trace, k, a)
      BY <2>1 DEF Tells
    <2>3. \A k \in 1..Len(t) : ~ Wrote(t, k, a)
      BY <2>2, LastQuiet
    <2> QED  BY <2>1, <2>3 DEF LastWrote
  <1> QED  BY <1>2, <1>3

\* Bytes written where they are traced.
LEMMA TellsWrites ==
    ASSUME rw_trace \in Seq(Operation), NEW t \in Seq(Operation), Len(rw_trace) <= Len(t),
           NEW n \in Nat, n <= SizeBound, NEW grown \in Stretch(n), NEW m \in Stretch(n),
           Tells(t, grown), NEW at \in Nat, NEW bytes \in Seq(Byte),
           Len(bytes) > 0 => at + Len(bytes) <= n,
           \A a \in 0..n - 1 :
               m[a] = IF a \in at..at + Len(bytes) - 1 THEN bytes[a - at + 1] ELSE grown[a]
    PROVE  Tells(TraceWrites(t, at, bytes), m)
  <1> DEFINE u      == TraceBytes(t, TRUE, at, bytes)
             length == Len(t)
             count  == Len(bytes)
  <1>1. /\ length \in Nat /\ count \in Nat /\ SizeBound \in Nat
        /\ DOMAIN m = 0..n - 1 /\ DOMAIN grown = 0..n - 1
    BY WordFacts DEF Stretch
  <1>2. /\ u \in Seq(Operation) /\ Len(u) = length + count
        /\ \A k \in 1..length : u[k] = t[k]
        /\ \A k \in 1..count :
               u[length + k] = ByteOp(TRUE, (at + k - 1) % WordMod, length + k - 1, bytes[k])
    BY BytesTraced
  <1>3. u = TraceWrites(t, at, bytes)
    BY DEF TraceWrites
  <1> HIDE DEF u
  <1>4. ASSUME NEW k \in 1..count
        PROVE  /\ at + k - 1 \in 0..n - 1 /\ u[length + k].value = bytes[k]
               /\ \A a \in Nat : Wrote(u, length + k, a) <=> a = at + k - 1
    <2>1. at + k - 1 \in 0..n - 1 /\ at + k - 1 \in Nat /\ at + k - 1 < SizeBound
      BY <1>1
    <2>2. (at + k - 1) % WordMod = at + k - 1
      BY <2>1, PlaceAddress
    <2> DEFINE i == at + k - 1
               id == length + k - 1
               v == bytes[k]
    <2>3. u[length + k] = ByteOp(TRUE, (at + k - 1) % WordMod, id, v)
      BY <1>2, Zenon
    <2>4. u[length + k] = ByteOp(TRUE, i, id, v)
      BY <2>2, <2>3, Zenon
    <2> HIDE DEF i, id, v
    <2>5. u[length + k].op = MEMORY_OP
      BY <2>4 DEF ByteOp
    <2>6. u[length + k].is_write
      BY <2>4 DEF ByteOp
    <2>7. u[length + k].address = i
      BY <2>4 DEF ByteOp
    <2>8. u[length + k].value = v
      BY <2>4 DEF ByteOp
    <2> QED  BY <2>1, <2>5, <2>6, <2>7, <2>8 DEF Wrote, i, v
  <1>5. ASSUME NEW k \in 1..length, NEW a
        PROVE  k \in 1..Len(u) /\ (Wrote(u, k, a) <=> Wrote(t, k, a))
    BY <1>1, <1>2 DEF Wrote
  <1> SUFFICES ASSUME NEW a \in Nat
               PROVE  /\ a \in DOMAIN m => LastWrote(u, a, m[a])
                      /\ a \notin DOMAIN m => \A k \in 1..Len(u) : ~ Wrote(u, k, a)
    BY <1>3 DEF Tells
  <1> HIDE DEF length, count
  <1>6. CASE a \in at..at + count - 1
    <2> DEFINE i == a - at + 1
    <2>1. i \in 1..count /\ at + i - 1 = a
      BY <1>1, <1>6
    <2>2. a \in DOMAIN m /\ m[a] = bytes[i] /\ length + i \in 1..Len(u)
      BY <1>1, <1>2, <1>4, <1>6, <2>1 DEF count
    <2>3. Wrote(u, length + i, a) /\ u[length + i].value = m[a]
      BY <1>4, <2>1, <2>2
    <2>4. ASSUME NEW j \in 1..Len(u), Wrote(u, j, a) PROVE j <= length + i
      <3>1. CASE j <= length
        BY <1>1, <2>1, <3>1
      <3>2. CASE ~ (j <= length)
        <4>1. PICK k \in 1..count : length + k = j
          <5>1. j - length \in 1..count /\ length + (j - length) = j
            BY <1>1, <1>2, <3>2
          <5> QED  BY <5>1
        <4>2. Wrote(u, length + k, a)
          BY <2>4, <4>1
        <4>3. a = at + k - 1
          BY <1>4, <4>2, Zenon
        <4> QED  BY <1>1, <2>1, <4>1, <4>3
      <3> QED  BY <3>1, <3>2
    <2> QED  BY <2>2, <2>3, <2>4 DEF LastWrote
  <1>7. CASE ~ (a \in at..at + count - 1)
    <2>1. ASSUME NEW j \in 1..Len(u), Wrote(u, j, a)
          PROVE  j \in 1..length /\ Wrote(t, j, a)
      <3>1. CASE j <= length
        BY <1>1, <1>5, <2>1, <3>1
      <3>2. CASE ~ (j <= length)
        <4>1. j - length \in 1..count /\ length + (j - length) = j
          BY <1>1, <1>2, <3>2
        <4>2. a = at + (j - length) - 1
          BY <1>4, <2>1, <4>1, SMTT(60)
        <4> QED  BY <1>1, <1>7, <4>1, <4>2
      <3> QED  BY <3>1, <3>2
    <2>2. CASE a \in DOMAIN m
      <3>1. m[a] = grown[a] /\ a \in DOMAIN grown
        BY <1>1, <1>7, <2>2 DEF count
      <3>2. LastWrote(t, a, m[a])
        BY <3>1 DEF Tells
      <3>3. CASE m[a] = 0 /\ \A k \in 1..length : ~ Wrote(t, k, a)
        BY <2>1, <3>3 DEF LastWrote
      <3>4. ASSUME NEW k \in 1..length, Wrote(t, k, a), t[k].value = m[a],
                   \A j \in 1..length : Wrote(t, j, a) => j <= k
            PROVE  LastWrote(u, a, m[a])
        <4>1. k \in 1..Len(u) /\ Wrote(u, k, a) /\ u[k].value = m[a]
          BY <1>2, <1>5, <3>4
        <4>2. \A j \in 1..Len(u) : Wrote(u, j, a) => j <= k
          BY <2>1, <3>4
        <4> QED  BY <4>1, <4>2 DEF LastWrote
      <3> QED  BY <2>2, <3>2, <3>3, <3>4 DEF LastWrote, length
    <2>3. CASE a \notin DOMAIN m
      <3>1. \A k \in 1..length : ~ Wrote(t, k, a)
        BY <1>1, <2>3 DEF Tells, length
      <3> QED  BY <2>1, <2>3, <3>1
    <2> QED  BY <2>2, <2>3
  <1> QED  BY <1>6, <1>7

\* A handler that leaves what the memory grew to and wrote nothing.
LEMMA TellsEffect ==
    ASSUME DInv, Tells(rw_trace, memory), NEW check, Sized(check), NEW g, NEW trace,
           Quiet(trace), Effect(check, g, Grown(check.size), trace)
    PROVE  Tells(rw_trace', memory')
  <1>1. Tells(trace, Grown(check.size))
    BY TellsQuiet DEF DInv, Data, MInv, Numbers, Sized
  <1> QED  BY <1>1 DEF Effect

\* A handler that fails has traced its operands only.
LEMMA TellsHalt ==
    ASSUME DInv, Tells(rw_trace, memory), NEW check, Sized(check), NEW g, NEW trace,
           Quiet(trace), NEW failure, Halt(failure, check, g, trace)
    PROVE  Tells(rw_trace', memory')
  BY TellsEffect DEF Halt

\* Bytes read from a memory that may end before them.
LEMMA ReadType ==
    ASSUME NEW n \in Nat, NEW m \in Stretch(n), NEW at \in Nat, NEW s \in Nat,
           NEW stray \in [1..s -> StrayBytes]
    PROVE  ReadBytes(m, at, s, stray) \in Seq(Byte)
  <1>1. DOMAIN m = 0..n - 1 /\ \A a \in 0..n - 1 : m[a] \in Byte
    BY DEF Stretch
  <1>2. \A k \in 1..s : stray[k] \in Byte
    BY DataConstants
  <1> QED  BY <1>1, <1>2 DEF ReadBytes

\* mload reads.
LEMMA LoadTells ==
    ASSUME DInv, Tells(rw_trace, memory), NEW index \in Words, mload(index)
    PROVE  Tells(rw_trace', memory')
  <1> DEFINE check == check_memory(index, WordSize)
             reads == ReadOperands(<<index>>)
             m     == Grown(check.size)
             at    == to_uint64(index)
             bytes == [k \in 1..WordSize |-> m[at + k - 1]]
             trace == WriteResult(TraceReads(reads, at, bytes), load(bytes))
  <1>1. running
    BY Starts DEF mload
  <1>2. index \in Nat /\ at \in Nat /\ WordSize \in Nat \ {0} /\ WordSize <= MaxBuffer
    BY WordFacts, LimbWord, MemoryConstants
  <1>3. Sized(check) /\ (check.ok => at + WordSize <= check.size)
    BY <1>1, <1>2, MemorySized
  <1>4. rw_trace \in Seq(Operation) /\ memory \in Stretch(size) /\ size \in Nat
    BY DEF DInv, Data, MInv, Numbers
  <1>5. m \in Stretch(check.size)
    BY <1>3, <1>4, GrownType DEF Sized
  <1>6. Quiet(reads) /\ Adds(reads, m)
    <2>1. <<index>> \in Seq(Words) /\ Len(<<index>>) <= 4
      OBVIOUS
    <2> QED  BY <1>4, <2>1, QuietOperands, OperandsAdd
  <1>7. \/ Halt("EVMC_OUT_OF_GAS", check, check.gas, reads)
        \/ check.ok /\ Effect(check, check.gas, m, trace)
    BY DEF mload, OutOfGas, Continue
  <1> HIDE DEF check, reads, at
  <1>8. CASE Halt("EVMC_OUT_OF_GAS", check, check.gas, reads)
    BY <1>3, <1>6, <1>8, TellsHalt
  <1>9. CASE check.ok /\ Effect(check, check.gas, m, trace)
    <2> HIDE DEF m
    <2>1. bytes \in Seq(Byte) /\ Len(bytes) = WordSize
      BY <1>2, <1>3, <1>5, <1>9, WordBytes DEF Sized
    <2> HIDE DEF bytes
    <2>2. load(bytes) \in Words
      BY <1>2, <2>1, LoadRange DEF Words, WordMod
    <2>3. Quiet(trace)
      BY <1>2, <1>4, <1>6, <2>1, <2>2, QuietReads, QuietResult
    <2> HIDE DEF trace
    <2> QED  BY <1>3, <1>9, <2>3, TellsEffect DEF m
  <1> QED  BY <1>7, <1>8, <1>9

\* mstore<T>: the word traced covers the bytes stored, and is what it was elsewhere.
LEMMA StoreTells ==
    ASSUME DInv, Tells(rw_trace, memory), NEW width \in 0..WordSize, NEW index \in Words,
           NEW value \in Words, mstore(width, index, value)
    PROVE  Tells(rw_trace', memory')
  <1> DEFINE check  == check_memory(index, WordSize)
             reads  == ReadOperands(<<index, value>>)
             at     == to_uint64(index)
             grown  == Grown(check.size)
             stored == store(value, width)
             m      == Overwrite(grown, at, stored)
             bytes  == [k \in 1..WordSize |-> m[at + k - 1]]
  <1>1. running
    BY Starts DEF mstore
  <1>2. index \in Nat /\ at \in Nat /\ WordSize \in Nat \ {0} /\ WordSize <= MaxBuffer
    BY WordFacts, LimbWord, MemoryConstants
  <1>3. Sized(check) /\ (check.ok => at + WordSize <= check.size)
    BY <1>1, <1>2, MemorySized
  <1>4. rw_trace \in Seq(Operation) /\ memory \in Stretch(size) /\ size \in Nat
    BY DEF DInv, Data, MInv, Numbers
  <1>5. grown \in Stretch(check.size)
    BY <1>3, <1>4, GrownType DEF Sized
  <1>6. stored \in Seq(Byte) /\ Len(stored) = width
    BY StoreType DEF store
  <1>7. Quiet(reads)
    <2>1. <<index, value>> \in Seq(Words) /\ Len(<<index, value>>) <= 4
      OBVIOUS
    <2> QED  BY <1>4, <2>1, QuietOperands
  <1>8. \/ Halt("EVMC_OUT_OF_GAS", check, check.gas, reads)
        \/ /\ check.ok
           /\ memory' = m /\ rw_trace' = TraceWrites(reads, at, bytes)
    BY DEF mstore, OutOfGas, Continue, Effect
  <1>9. Tells(reads, grown)
    BY <1>3, <1>4, <1>7, TellsQuiet DEF Sized
  <1> HIDE DEF check, reads, at, grown, stored
  <1>10. CASE Halt("EVMC_OUT_OF_GAS", check, check.gas, reads)
    BY <1>3, <1>7, <1>10, TellsHalt
  <1>11. CASE check.ok /\ memory' = m /\ rw_trace' = TraceWrites(reads, at, bytes)
    <2> DEFINE n == check.size
    <2>1. n \in Nat /\ n <= SizeBound /\ at + WordSize <= n
      BY <1>3, <1>11 DEF Sized
    <2>2. grown \in Stretch(n)
      BY <1>5
    <2> HIDE DEF n
    <2>3. /\ m \in Stretch(n)
          /\ \A a \in 0..n - 1 :
                 m[a] = IF a \in at..at + Len(stored) - 1 THEN stored[a - at + 1] ELSE grown[a]
      <3>1. at \in Nat /\ stored \in Seq(Byte) /\ n \in Nat
        BY <1>2, <1>6, <2>1
      <3> QED  BY ONLY <3>1, <2>2, OverwriteType
    <2> HIDE DEF m
    <2>4. bytes \in Seq(Byte) /\ Len(bytes) = WordSize
      BY <1>2, <2>1, <2>3, WordBytes
    <2>5. \A a \in 0..n - 1 :
              m[a] = IF a \in at..at + Len(bytes) - 1 THEN bytes[a - at + 1] ELSE grown[a]
      <3>1. ASSUME NEW a \in 0..n - 1, a \in at..at + Len(bytes) - 1
            PROVE  m[a] = bytes[a - at + 1]
        <4>1. a - at + 1 \in 1..WordSize /\ at + (a - at + 1) - 1 = a
          BY <1>2, <2>4, <3>1
        <4>2. bytes[a - at + 1] = m[at + (a - at + 1) - 1]
          BY <4>1
        <4> QED  BY <4>1, <4>2
      <3>2. ASSUME NEW a \in 0..n - 1, ~ (a \in at..at + Len(bytes) - 1)
            PROVE  m[a] = grown[a]
        <4>1. ~ (a \in at..at + Len(stored) - 1)
          <5> HIDE DEF bytes
          <5> QED  BY <1>2, <1>6, <2>4, <3>2
        <4> QED  BY <2>3, <4>1
      <3> QED  BY <3>1, <3>2
    <2> HIDE DEF bytes
    <2>6. Tells(TraceWrites(reads, at, bytes), m)
      <3>1. /\ at \in Nat /\ n \in Nat /\ n <= SizeBound
            /\ Len(bytes) > 0 => at + Len(bytes) <= n
        BY <1>2, <2>1, <2>4
      <3>2. reads \in Seq(Operation) /\ Len(rw_trace) <= Len(reads)
        BY <1>7 DEF Quiet
      <3>3. m \in Stretch(n)
        BY <2>3
      <3>4. bytes \in Seq(Byte)
        BY <2>4
      <3> QED  BY ONLY <1>4, <1>9, <2>2, <2>5, <3>1, <3>2, <3>3, <3>4, TellsWrites, SMTT(60)
    <2> QED  BY <1>11, <2>6
  <1> QED  BY <1>8, <1>10, <1>11

\* keccak256 reads.
LEMMA HashTells ==
    ASSUME DInv, Tells(rw_trace, memory), NEW index \in Words, NEW n \in Words,
           keccak256(index, n)
    PROVE  Tells(rw_trace', memory')
  <1> DEFINE check == check_copy(index, n)
             reads == ReadOperands(<<index, n>>)
             at    == to_uint64(index)
             s     == to_uint64(n)
             m     == Grown(check.size)
             bytes(stray) == ReadBytes(m, at, WordSize, stray)
             trace(stray) == IF s = 0 THEN reads ELSE TraceReads(reads, index, bytes(stray))
  <1>1. running
    BY Starts DEF keccak256
  <1>2. index \in Nat /\ n \in Nat /\ at \in Nat /\ s \in Nat /\ WordSize \in Nat
    BY LimbWord, WordFacts
  <1>3. Sized(check)
    BY <1>1, <1>2, CopySized
  <1>4. rw_trace \in Seq(Operation) /\ memory \in Stretch(size) /\ size \in Nat
    BY DEF DInv, Data, MInv, Numbers
  <1>5. m \in Stretch(check.size)
    BY <1>3, <1>4, GrownType DEF Sized
  <1>6. Quiet(reads)
    <2>1. <<index, n>> \in Seq(Words) /\ Len(<<index, n>>) <= 4
      OBVIOUS
    <2> QED  BY <1>4, <2>1, QuietOperands
  <1>7. \/ \E g : Halt("EVMC_OUT_OF_GAS", check, g, reads)
        \/ \E g : \E hash \in StoredWords, stray \in [1..WordSize -> StrayBytes] :
               Effect(check, g, m, WriteResult(trace(stray), hash))
    BY DEF keccak256, OutOfGas, Continue
  <1> HIDE DEF check, reads, at, s
  <1>8. CASE \E g : Halt("EVMC_OUT_OF_GAS", check, g, reads)
    BY <1>3, <1>6, <1>8, TellsHalt
  <1>9. ASSUME NEW g, NEW hash \in StoredWords, NEW stray \in [1..WordSize -> StrayBytes],
               Effect(check, g, m, WriteResult(trace(stray), hash))
        PROVE  Tells(rw_trace', memory')
    <2> HIDE DEF m
    <2>1. bytes(stray) \in Seq(Byte)
      BY <1>2, <1>3, <1>5, ReadType DEF Sized
    <2> HIDE DEF bytes
    <2>2. Quiet(trace(stray))
      BY <1>2, <1>4, <1>6, <2>1, QuietReads
    <2> HIDE DEF trace
    <2>3. hash \in Words
      BY WordConstants DEF Words
    <2>4. Quiet(WriteResult(trace(stray), hash))
      BY <1>4, <2>2, <2>3, QuietResult
    <2> QED  BY <1>3, <1>9, <2>4, TellsEffect DEF m
  <1> QED  BY <1>7, <1>8, <1>9

\* returndatacopy traces the bytes where it stores them.
LEMMA ReturnCopyTells ==
    ASSUME DInv, Tells(rw_trace, memory), NEW to \in Words, NEW from \in Words,
           NEW n \in Words, returndatacopy(to, from, n)
    PROVE  Tells(rw_trace', memory')
  <1> DEFINE check  == check_copy(to, n)
             reads  == ReadOperands(<<to, from, n>>)
             s      == to_uint64(n)
             src    == to_uint64(from)
             copied == SubSeq(Source, src + 1, src + s)
             at     == to_uint64(to)
             grown  == Grown(check.size)
             m      == Overwrite(grown, at, copied)
  <1>1. running
    BY Starts DEF returndatacopy
  <1>2. to \in Nat /\ n \in Nat /\ at \in Nat /\ s \in Nat /\ src \in Nat
    BY LimbWord
  <1>3. Sized(check) /\ (check.ok /\ s > 0 => at + s <= check.size)
    BY <1>1, <1>2, CopySized
  <1>4. rw_trace \in Seq(Operation) /\ memory \in Stretch(size) /\ size \in Nat
    BY DEF DInv, Data, MInv, Numbers
  <1>5. grown \in Stretch(check.size)
    BY <1>3, <1>4, GrownType DEF Sized
  <1>6. Quiet(reads)
    <2>1. <<to, from, n>> \in Seq(Words) /\ Len(<<to, from, n>>) <= 4
      OBVIOUS
    <2> QED  BY <1>4, <2>1, QuietOperands
  <1>7. \/ \E g, failure : Halt(failure, check, g, reads)
        \/ /\ check.ok /\ src + s <= Len(Source)
           /\ memory' = m /\ rw_trace' = TraceWrites(reads, at, copied)
    BY DEF returndatacopy, OutOfGas, Continue, Effect
  <1>8. src + s <= Len(Source) => copied \in Seq(Byte) /\ Len(copied) = s
    BY <1>2, DataConstants, PartType
  <1>9. Tells(reads, grown)
    BY <1>3, <1>4, <1>6, TellsQuiet DEF Sized
  <1> HIDE DEF check, reads, s, src, copied, grown, at
  <1>10. CASE \E g, failure : Halt(failure, check, g, reads)
    BY <1>3, <1>6, <1>10, TellsHalt
  <1>11. CASE /\ check.ok /\ src + s <= Len(Source)
              /\ memory' = m /\ rw_trace' = TraceWrites(reads, at, copied)
    <2> DEFINE k == check.size
    <2>1. /\ k \in Nat /\ k <= SizeBound /\ copied \in Seq(Byte)
          /\ Len(copied) > 0 => at + Len(copied) <= k
      BY <1>3, <1>8, <1>11 DEF Sized
    <2>2. grown \in Stretch(k)
      BY <1>5
    <2> HIDE DEF k
    <2>3. /\ m \in Stretch(k)
          /\ \A a \in 0..k - 1 :
                 m[a] = IF a \in at..at + Len(copied) - 1 THEN copied[a - at + 1] ELSE grown[a]
      BY <1>2, <2>1, <2>2, OverwriteType
    <2> HIDE DEF m
    <2>4. Tells(TraceWrites(reads, at, copied), m)
      BY <1>2, <1>4, <1>6, <1>9, <2>1, <2>2, <2>3, TellsWrites DEF Quiet
    <2> QED  BY <1>11, <2>4
  <1> QED  BY <1>7, <1>10, <1>11

\* msize, return_impl and revert read.
LEMMA SizeTells ==
    ASSUME DInv, Tells(rw_trace, memory), msize
    PROVE  Tells(rw_trace', memory')
  <1>1. /\ rw_trace \in Seq(Operation) /\ memory \in Stretch(size) /\ size \in Nat
        /\ size <= SizeBound
    BY DEF DInv, Data, MInv, Numbers
  <1>2. size \in Words
    BY <1>1, WordFacts DEF Words
  <1>3. Quiet(rw_trace)
    BY <1>1 DEF Quiet
  <1>4. Quiet(WriteResult(rw_trace, size))
    BY <1>1, <1>2, <1>3, QuietResult
  <1>5. Grown(size) = memory
    BY <1>1 DEF Grown, Stretch
  <1>6. memory' = memory /\ rw_trace' = WriteResult(rw_trace, size)
    BY DEF msize, Continue, Effect
  <1> QED  BY <1>1, <1>4, <1>5, <1>6, TellsQuiet

\* return_impl traces its operands only.
LEMMA ReturnTells ==
    ASSUME DInv, Tells(rw_trace, memory), NEW offset \in Words, NEW n \in Words,
           NEW status_code, return_impl(offset, n, status_code)
    PROVE  Tells(rw_trace', memory')
  <1> DEFINE check == check_copy(offset, n)
             reads == ReadOperands(<<offset, n>>)
  <1>1. running
    BY Starts DEF return_impl
  <1>2. Sized(check)
    BY <1>1, LimbWord, CopySized
  <1>3. Quiet(reads)
    <2>1. <<offset, n>> \in Seq(Words) /\ Len(<<offset, n>>) <= 4
      OBVIOUS
    <2> QED  BY <2>1, QuietOperands DEF DInv, Data
  <1>4. Effect(check, check.gas, Grown(check.size), reads)
    BY DEF return_impl, OutOfGas, Halt
  <1> HIDE DEF check, reads
  <1> QED  BY <1>2, <1>3, <1>4, TellsEffect

\* The names the handlers leave in executed.
Instructions == {"mload", "mstore", "keccak256", "returndatacopy", "msize", "return_impl"}
                    \cup Untraced

\* Only instructions that trace their writes have run.
Telling == \A k \in 1..Len(executed) : executed[k] \notin Untraced

\* The invariant behind MemoryTraced.
TInv ==
    /\ executed \in Seq(Instructions)
    /\ Telling => Tells(rw_trace, memory)

\* An instruction is appended to those executed: if only such instructions have run with
\* it, then they had before, and it is one.
LEMMA Executes ==
    ASSUME executed \in Seq(Instructions), NEW instruction \in Instructions, Execute(instruction)
    PROVE  executed' \in Seq(Instructions) /\ (Telling' => Telling /\ instruction \notin Untraced)
  <1> DEFINE longer == Append(executed, instruction)
  <1>1. executed' = longer /\ Len(executed) \in Nat
    BY DEF Execute
  <1>2. /\ executed' \in Seq(Instructions) /\ Len(executed') = Len(executed) + 1
        /\ executed'[Len(executed) + 1] = instruction
        /\ \A k \in 1..Len(executed) : executed'[k] = executed[k]
    <2>1. /\ longer \in Seq(Instructions) /\ Len(longer) = Len(executed) + 1
          /\ longer[Len(executed) + 1] = instruction
          /\ \A k \in 1..Len(executed) : longer[k] = executed[k]
      BY <1>1
    <2> HIDE DEF longer
    <2> QED  BY <1>1, <2>1
  <1>3. ASSUME Telling' PROVE Telling /\ instruction \notin Untraced
    <2>1. \A k \in 1..Len(executed) + 1 : executed'[k] \notin Untraced
      BY <1>2, <1>3 DEF Telling
    <2>2. Len(executed) + 1 \in 1..Len(executed) + 1
      BY <1>1
    <2>3. instruction \notin Untraced
      BY <1>2, <2>1, <2>2
    <2>4. ASSUME NEW k \in 1..Len(executed) PROVE executed[k] \notin Untraced
      <3>1. k \in 1..Len(executed) + 1
        BY <1>1
      <3> QED  BY <1>2, <2>1, <3>1
    <2> QED  BY <2>3, <2>4 DEF Telling
  <1> QED  BY <1>2, <1>3

\* At the start there is no memory and nothing is traced.
LEMMA InitTInv ==
    ASSUME Init
    PROVE  TInv
  <1>1. executed = << >> /\ rw_trace = << >> /\ memory = [a \in {} |-> 0]
    BY DEF Init
  <1>2. Len(rw_trace) = 0 /\ DOMAIN memory = {}
    BY <1>1
  <1>3. Tells(rw_trace, memory)
    BY <1>2 DEF Tells
  <1>4. executed \in Seq(Instructions)
    BY <1>1
  <1> QED  BY <1>3, <1>4 DEF TInv

\* An instruction that traces its writes, or one that is in Untraced.
LEMMA InstructionTInv ==
    ASSUME TInv, NEW instruction \in Instructions, Execute(instruction),
           \/ instruction \in Untraced
           \/ Tells(rw_trace, memory) => Tells(rw_trace', memory')
    PROVE  TInv'
  BY Executes DEF TInv

\* Every instruction keeps the invariant: the quiet ones, those that write what they
\* trace, and those in Untraced, after which it says nothing more.
LEMMA NextTInv ==
    ASSUME DInv, TInv, [Next]_vars
    PROVE  TInv'
  <1>1. /\ Offsets \subseteq Words /\ Sizes \subseteq Words /\ StoredWords \subseteq Words
        /\ Widths \subseteq 0..WordSize
    BY WordConstants, MemoryConstants DEF Words
  <1>2. ASSUME \E index \in Offsets : mload(index) PROVE TInv'
    <2>1. Execute("mload") /\ (Tells(rw_trace, memory) => Tells(rw_trace', memory'))
      BY <1>1, <1>2, LoadTells DEF mload
    <2>2. "mload" \in Instructions
      BY DEF Instructions
    <2> QED  BY <2>1, <2>2, InstructionTInv
  <1>3. ASSUME \E width \in Widths, index \in Offsets, value \in StoredWords :
                   mstore(width, index, value)
        PROVE  TInv'
    <2>1. Execute("mstore") /\ (Tells(rw_trace, memory) => Tells(rw_trace', memory'))
      BY <1>1, <1>3, StoreTells DEF mstore
    <2>2. "mstore" \in Instructions
      BY DEF Instructions
    <2> QED  BY <2>1, <2>2, InstructionTInv
  <1>4. ASSUME \E index \in Offsets, n \in Sizes : keccak256(index, n) PROVE TInv'
    <2>1. Execute("keccak256") /\ (Tells(rw_trace, memory) => Tells(rw_trace', memory'))
      BY <1>1, <1>4, HashTells DEF keccak256
    <2>2. "keccak256" \in Instructions
      BY DEF Instructions
    <2> QED  BY <2>1, <2>2, InstructionTInv
  <1>5. ASSUME \E to, from \in Offsets, n \in Sizes : returndatacopy(to, from, n) PROVE TInv'
    <2>1. Execute("returndatacopy") /\ (Tells(rw_trace, memory) => Tells(rw_trace', memory'))
      BY <1>1, <1>5, ReturnCopyTells DEF returndatacopy
    <2>2. "returndatacopy" \in Instructions
      BY DEF Instructions
    <2> QED  BY <2>1, <2>2, InstructionTInv
  <1>6. ASSUME msize PROVE TInv'
    <2>1. Execute("msize") /\ (Tells(rw_trace, memory) => Tells(rw_trace', memory'))
      BY <1>6, SizeTells DEF msize
    <2>2. "msize" \in Instructions
      BY DEF Instructions
    <2> QED  BY <2>1, <2>2, InstructionTInv
  <1>7. ASSUME \E offset \in Offsets, n \in Sizes,
                   status_code \in {"EVMC_SUCCESS", "EVMC_REVERT"} :
                   return_impl(offset, n, status_code)
        PROVE  TInv'
    <2>1. Execute("return_impl") /\ (Tells(rw_trace, memory) => Tells(rw_trace', memory'))
      BY <1>1, <1>7, ReturnTells DEF return_impl
    <2>2. "return_impl" \in Instructions
      BY DEF Instructions
    <2> QED  BY <2>1, <2>2, InstructionTInv
  <1>8. ASSUME NEW instruction \in Untraced, Execute(instruction) PROVE TInv'
    BY <1>8, InstructionTInv DEF Instructions
  <1>9. ASSUME \E to, from \in Offsets, n \in Sizes : CopySource(to, from, n) PROVE TInv'
    BY <1>8, <1>9 DEF CopySource, Untraced
  <1>10. ASSUME NEW to, NEW from, NEW n, NEW addr, NEW code, NEW cold,
                extcodecopy(addr, code, cold, to, from, n)
         PROVE  TInv'
    BY <1>8, <1>10 DEF extcodecopy, Untraced
  <1>11. ASSUME \E to, from \in Offsets, n \in Sizes : datacopy(to, from, n) PROVE TInv'
    BY <1>8, <1>11 DEF datacopy, Untraced
  <1>12. ASSUME \E to, from \in Offsets, n \in Sizes : mcopy(to, from, n) PROVE TInv'
    BY <1>8, <1>12 DEF mcopy, Untraced
  <1>13. ASSUME UNCHANGED vars PROVE TInv'
    BY <1>13 DEF vars, TInv, Telling, Tells, LastWrote, Wrote
  <1> QED  BY <1>2, <1>3, <1>4, <1>5, <1>6, <1>7, <1>9, <1>10, <1>11, <1>12, <1>13
           DEF Next, Done

\* The last write to an address is the one TracedByte chooses.
LEMMA TellsBytes ==
    ASSUME rw_trace \in Seq(Operation), NEW a, NEW v, LastWrote(rw_trace, a, v)
    PROVE  TracedByte(a, Len(rw_trace)) = v
  <1> DEFINE writes == {k \in 1..Len(rw_trace) : /\ rw_trace[k].op = MEMORY_OP
                                                 /\ rw_trace[k].is_write
                                                 /\ rw_trace[k].address = a}
             last   == CHOOSE k \in writes : \A j \in writes : j <= k
  <1>1. \A k \in 1..Len(rw_trace) : k \in writes <=> Wrote(rw_trace, k, a)
    BY DEF Wrote
  <1>2. writes \subseteq 1..Len(rw_trace) /\ Len(rw_trace) \in Nat
    OBVIOUS
  <1>3. TracedByte(a, Len(rw_trace)) = IF writes = {} THEN 0 ELSE rw_trace[last].value
    BY DEF TracedByte
  <1> HIDE DEF writes
  <1>4. CASE v = 0 /\ \A k \in 1..Len(rw_trace) : ~ Wrote(rw_trace, k, a)
    BY <1>1, <1>2, <1>3, <1>4
  <1>5. ASSUME NEW k \in 1..Len(rw_trace), Wrote(rw_trace, k, a), rw_trace[k].value = v,
               \A j \in 1..Len(rw_trace) : Wrote(rw_trace, j, a) => j <= k
        PROVE  TracedByte(a, Len(rw_trace)) = v
    <2>1. k \in writes /\ \A j \in writes : j <= k
      BY <1>1, <1>2, <1>5
    <2>2. last \in writes /\ \A j \in writes : j <= last
      BY <2>1, Zenon
    <2> HIDE DEF last
    <2>3. last = k
      BY <1>2, <2>1, <2>2
    <2> QED  BY <1>3, <1>5, <2>1, <2>3
  <1> QED  BY <1>4, <1>5 DEF LastWrote

\* While only instructions that trace their writes have run, the memory is what the trace
\* says (mstore, mstore8, returndatacopy and the growing of the memory).
THEOREM TraceOfMemory == Spec => []MemoryTraced
  <1>1. Init => DInv /\ TInv
    BY InitData, InitTInv
  <1>2. DInv /\ TInv /\ [Next]_vars => DInv' /\ TInv'
    BY NextData, NextTInv
  <1>3. ASSUME DInv, TInv PROVE MemoryTraced
    <2> SUFFICES ASSUME Telling, NEW a \in DOMAIN memory
                 PROVE  memory[a] = TracedByte(a, Len(rw_trace))
      BY DEF MemoryTraced, Telling
    <2>1. rw_trace \in Seq(Operation) /\ a \in Nat
      BY <1>3 DEF DInv, Data, MInv, Numbers, Stretch
    <2>2. LastWrote(rw_trace, a, memory[a])
      BY <1>3, <2>1 DEF TInv, Tells
    <2> QED  BY <2>1, <2>2, TellsBytes
  <1> QED  BY <1>1, <1>2, <1>3, PTL DEF Spec

=============================================================================
