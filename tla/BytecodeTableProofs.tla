------------------------ MODULE BytecodeTableProofs ------------------------
(***************************************************************************)
(* Proofs about BytecodeTable: for every set of codes and every number of  *)
(* frames, process_bytecode_input only ever appends to the table, and      *)
(* behind the header byte it marks exactly the instructions of the code.   *)
(*                                                                         *)
(* The argument: the next row is always one past the end of the table, and *)
(* j plus PUSH_SIZE is always where the walk over the code is.             *)
(***************************************************************************)
EXTENDS BytecodeTable, WalkProofs

\* The remainder of a number is below the modulus.
LEMMA Remainder ==
    ASSUME NEW n \in Int, NEW m \in Nat \ {0}
    PROVE  n % m \in 0..m - 1
  OBVIOUS

\* A size_t holds every byte, and zero is an element of the field.
LEMMA Moduli ==
    /\ SizeMod \in Nat \ {0} /\ SizeMod > 255 /\ FieldMod \in Nat \ {0}
    /\ 0 \in 0..SizeMod - 1 /\ 0 \in 0..FieldMod - 1
    /\ Byte \subseteq 0..SizeMod - 1
  BY ModAssumption DEF Byte

\* The rows of the code being assigned reach to the end of the table.
AtEnd == start_row_index + j = Len(table)

\* The inductive invariant of the types.
TypeInv == TypeOK /\ AtEnd

\* A row one past the end of the table is appended to it.
LEMMA RowAppended ==
    ASSUME TypeInv, NEW row \in Row, SetRow(row)
    PROVE  /\ table' = Append(table, row)
           /\ table' \in Seq(Row) /\ Len(table') = Len(table) + 1
           /\ table'[start_row_index + j + 1] = row
           /\ \A r \in 1..Len(table) : table'[r] = table[r]
  <1>1. /\ table \in Seq(Row) /\ Len(table) \in Nat
        /\ start_row_index + j + 1 = Len(table) + 1
    BY DEF TypeInv, TypeOK, AtEnd
  <1>2. table' = Append(table, row)
    BY <1>1 DEF SetRow
  <1> QED  BY <1>1, <1>2

\* The row of the header byte, and what an iteration of the loop writes.
HeaderOf(byte) ==
    [tag |-> 0, index |-> 0, value |-> byte, is_opcode |-> 0,
     push_size |-> 0, length_left |-> byte, value_rlc |-> 0]
RowFor(byte) ==
    [tag |-> 1, index |-> j - 1, value |-> byte,
     is_opcode |-> IF push_size = 0 THEN 1 ELSE 0,
     push_size |-> push_size', length_left |-> prev_length', value_rlc |-> prev_vrlc']

\* The iteration for j = 0 appends a row of the right type.
LEMMA HeaderAppends ==
    ASSUME TypeInv, HeaderRow
    PROVE  /\ bytecode[1] \in Byte /\ HeaderOf(bytecode[1]) \in Row
           /\ SetRow(HeaderOf(bytecode[1]))
  <1>1. bytecode[1] \in Byte
    BY DEF TypeInv, TypeOK, HeaderRow
  <1>2. bytecode[1] \in Nat /\ bytecode[1] \in 0..SizeMod - 1 /\ 0 \in 0..FieldMod - 1
    BY <1>1, Moduli DEF Byte
  <1>3. HeaderOf(bytecode[1]) \in Row
    BY <1>1, <1>2 DEF HeaderOf, Row
  <1> QED  BY <1>1, <1>3 DEF HeaderRow, HeaderOf

\* The other iterations append a row of the right type.
LEMMA ByteAppends ==
    ASSUME TypeInv, ByteRow
    PROVE  LET byte == bytecode[j + 1]
           IN  /\ byte \in Byte /\ RowFor(byte) \in Row /\ SetRow(RowFor(byte))
               /\ push_size' = NextPushSize(byte) /\ push_size' \in 0..32
               /\ prev_length' \in 0..SizeMod - 1 /\ prev_vrlc' \in 0..FieldMod - 1
  <1> DEFINE byte == bytecode[j + 1]
  <1>1. byte \in Byte /\ j - 1 \in Nat
    BY DEF TypeInv, TypeOK, ByteRow
  <1>2. push_size' = NextPushSize(byte)
    BY DEF ByteRow
  <1>3. push_size' \in 0..32
    <2>1. push_size \in 0..32 /\ byte \in 0..255
      BY <1>1 DEF TypeInv, TypeOK, Byte
    <2> HIDE DEF byte
    <2> QED  BY <1>2, <2>1 DEF NextPushSize
  <1>4. prev_length' \in 0..SizeMod - 1
    <2>1. prev_length - 1 \in Int
      BY DEF TypeInv, TypeOK
    <2>2. prev_length' = (prev_length - 1) % SizeMod
      BY DEF ByteRow
    <2> QED  BY <2>1, <2>2, Remainder, Moduli
  <1>5. prev_vrlc' \in 0..FieldMod - 1
    <2>1. prev_vrlc * rlc_challenge + byte \in Int
      <3>1. prev_vrlc \in Int /\ byte \in Int
        <4>1. prev_vrlc \in 0..FieldMod - 1
          BY DEF TypeInv, TypeOK
        <4> HIDE DEF byte
        <4> QED  BY <1>1, <4>1, Moduli DEF Byte
      <3> HIDE DEF byte
      <3> QED  BY <3>1 DEF rlc_challenge
    <2>2. prev_vrlc' = (prev_vrlc * rlc_challenge + byte) % FieldMod
      BY DEF ByteRow
    <2> QED  BY <2>1, <2>2, Remainder, Moduli
  <1>6. SetRow(RowFor(byte))
    BY DEF ByteRow, RowFor
  <1> HIDE DEF byte
  <1>7. RowFor(byte) \in Row
    BY <1>1, <1>3, <1>4, <1>5 DEF RowFor, Row
  <1> QED  BY <1>1, <1>2, <1>3, <1>4, <1>5, <1>6, <1>7 DEF byte

\* Every step keeps the types, and the next row past the end of the table.
LEMMA NextTypeInv ==
    ASSUME TypeInv, [Next]_vars
    PROVE  TypeInv'
  <1>1. CASE Start
    BY <1>1, CodesAssumption, Moduli DEF Start, TypeInv, TypeOK, AtEnd
  <1>2. CASE HeaderRow
    <2> DEFINE row == HeaderOf(bytecode[1])
    <2>1. bytecode[1] \in Byte /\ row \in Row /\ SetRow(row)
      BY <1>2, HeaderAppends
    <2> HIDE DEF row
    <2>2. table' \in Seq(Row) /\ Len(table') = Len(table) + 1
      BY <2>1, RowAppended
    <2>3. prev_length' \in 0..SizeMod - 1 /\ prev_vrlc' \in 0..FieldMod - 1
      <3>1. prev_length' = bytecode[1] /\ prev_vrlc' = 0
        BY <1>2 DEF HeaderRow
      <3> QED  BY <2>1, <3>1, Moduli
    <2> QED  BY <1>2, <2>2, <2>3 DEF HeaderRow, TypeInv, TypeOK, AtEnd
  <1>3. CASE ByteRow
    <2> DEFINE row == RowFor(bytecode[j + 1])
    <2>1. /\ row \in Row /\ SetRow(row) /\ push_size' \in 0..32
          /\ prev_length' \in 0..SizeMod - 1 /\ prev_vrlc' \in 0..FieldMod - 1
      BY <1>3, ByteAppends
    <2> HIDE DEF row
    <2>2. table' \in Seq(Row) /\ Len(table') = Len(table) + 1
      BY <2>1, RowAppended
    <2>3. /\ UNCHANGED <<bytecode, running, frames, start_row_index>>
          /\ j' = j + 1 /\ j < Len(bytecode)
      BY <1>3 DEF ByteRow
    <2> QED  BY <2>1, <2>2, <2>3 DEF TypeInv, TypeOK, AtEnd
  <1>4. CASE Finish \/ UNCHANGED vars
    BY <1>4 DEF Finish, vars, TypeInv, TypeOK, AtEnd
  <1> QED  BY <1>1, <1>2, <1>3, <1>4 DEF Next, Done

\* The types hold throughout.
LEMMA TypeInvariance == Spec => []TypeInv
  <1>1. Init => TypeInv
    <2> SUFFICES ASSUME Init PROVE TypeInv
      OBVIOUS
    <2>1. /\ bytecode \in Seq(Byte) /\ Len(bytecode) = 0
          /\ table \in Seq(Row) /\ Len(table) = 0
      BY DEF Init
    <2>2. /\ j = 0 /\ start_row_index = 0 /\ frames = 0 /\ push_size = 0
          /\ running = FALSE
      BY DEF Init
    <2>3. prev_length \in 0..SizeMod - 1 /\ prev_vrlc \in 0..FieldMod - 1
      BY Moduli DEF Init
    <2>4. running \in BOOLEAN
      BY <2>2, Zenon
    <2>5. /\ frames \in Nat /\ j \in 0..Len(bytecode)
          /\ start_row_index \in Nat /\ push_size \in 0..32 /\ AtEnd
      BY <2>1, <2>2 DEF AtEnd
    <2> QED  BY <2>1, <2>3, <2>4, <2>5 DEF TypeInv, TypeOK
  <1>2. TypeInv /\ [Next]_vars => TypeInv'
    BY NextTypeInv
  <1> QED  BY <1>1, <1>2, PTL DEF Spec

\* The loop of process_bytecode_input and its rows keep their types: no push has more
\* than 32 bytes of data to come, and no column leaves the field.
THEOREM TypeCorrect == Spec => []TypeOK
  <1>1. TypeInv => TypeOK
    BY DEF TypeInv
  <1> QED  BY <1>1, TypeInvariance, PTL

\* process_bytecode_input never writes a row of the table again, whatever the codes.
THEOREM RowsKept == Spec => EarlierRowsKept
  <1>1. TypeInv /\ [Next]_vars => [\A r \in 1..Len(table) : table'[r] = table[r]]_vars
    <2> SUFFICES ASSUME TypeInv, Next
                 PROVE  \A r \in 1..Len(table) : table'[r] = table[r]
      OBVIOUS
    <2>1. CASE HeaderRow
      BY <2>1, HeaderAppends, RowAppended
    <2>2. CASE ByteRow
      BY <2>2, ByteAppends, RowAppended
    <2>3. CASE Start \/ Finish \/ Done
      BY <2>3 DEF Start, Finish, Done, vars
    <2> QED  BY <2>1, <2>2, <2>3 DEF Next
  <1> QED  BY <1>1, TypeInvariance, PTL DEF Spec, EarlierRowsKept

-----------------------------------------------------------------------------
(* What IS_OPCODE and PUSH_SIZE say.                                       *)

Body == Tail(bytecode)

\* Where the next instruction of the body is, as the loop sees it.
NextOp == j - 1 + push_size

\* The walk over the body has come to NextOp, and the bytes from j up to there are data.
WalkInv ==
    j > 0 => /\ Walked(Rev, Body, NextOp)
             /\ \A p \in Instructions(Rev, Body) : p < NextOp => p < j - 1

\* A row with data to come beyond the row above the next one says how much.
Pending == \A k \in 2..j : k + RowOf(k).push_size >= j => push_size = k + RowOf(k).push_size - j

OpcodesMarked ==
    \A k \in 2..j : (RowOf(k).is_opcode = 1) <=> IsInstruction(Rev, Body, k - 2)

\* The inductive invariant of the classification.
BodyInv == WalkInv /\ Pending /\ OpcodesMarked /\ PushSizeCounts

\* The body is a code, a byte shorter, and byte p of it is byte p + 1 of the code.
LEMMA BodyType ==
    ASSUME TypeInv, Len(bytecode) > 0
    PROVE  /\ Body \in Seq(Byte) /\ Len(Body) = Len(bytecode) - 1 /\ Len(Body) \in Nat
           /\ \A p \in 1..Len(Body) : Body[p] = bytecode[p + 1]
  BY DEF TypeInv, TypeOK, Body

\* Before PRAGUE, NextPushSize is the size of the data of the instruction at a byte.
LEMMA PushSizeIsData ==
    ASSUME Rev # PRAGUE, NEW byte \in Byte, push_size = 0
    PROVE  InstructionSize(Rev, byte) = NextPushSize(byte) + 1
  <1>1. InstructionSize(Rev, byte) = IF byte \in PushOps THEN byte - (OP_PUSH1 - 1) + 1 ELSE 1
    BY LegacySizes, RevAssumption
  <1> QED  BY <1>1 DEF NextPushSize, PushOps, OP_PUSH1, OP_PUSH32, Byte

\* An iteration at the start of an instruction of the body, or among its data.
LEMMA ByteWalks ==
    ASSUME Rev # PRAGUE, TypeInv, WalkInv, ByteRow
    PROVE  /\ WalkInv'
           /\ push_size = 0 <=> IsInstruction(Rev, Body, j - 1)
  <1> DEFINE byte == bytecode[j + 1]
  <1>1. /\ byte \in Byte /\ push_size' = NextPushSize(byte) /\ push_size' \in 0..32
        /\ push_size \in 0..32 /\ j \in Nat /\ j > 0 /\ j < Len(bytecode) /\ j' = j + 1
        /\ Body' = Body /\ Len(bytecode) > 0 /\ Len(bytecode) \in Nat
    BY ByteAppends DEF ByteRow, TypeInv, TypeOK, Body
  <1>2. /\ Body \in Seq(Byte) /\ Len(Body) = Len(bytecode) - 1 /\ Len(Body) \in Nat
        /\ Body[j] = byte
    BY <1>1, BodyType
  <1>3. /\ Walked(Rev, Body, NextOp)
        /\ \A p \in Instructions(Rev, Body) : p < NextOp => p < j - 1
    BY <1>1 DEF WalkInv
  <1>4. NextOp = j - 1 + push_size /\ NextOp' = j + push_size'
    BY <1>1 DEF NextOp
  <1> HIDE DEF byte
  <1>5. j - 1 \in 0..Len(Body) - 1 /\ j - 1 \in Nat /\ j - 1 < Len(Body)
    BY <1>1, <1>2
  <1>6. CASE push_size = 0
    <2>1. NextOp = j - 1
      BY <1>1, <1>4, <1>6
    <2>2. j - 1 \in Instructions(Rev, Body)
      BY <1>3, <1>5, <2>1 DEF Walked
    <2>3. SizeAt(Rev, Body, j - 1) = push_size' + 1
      BY <1>1, <1>2, <1>6, PushSizeIsData DEF SizeAt
    <2>4. (j - 1) + SizeAt(Rev, Body, j - 1) = NextOp'
      BY <1>1, <1>4, <2>3
    <2>5. /\ Walked(Rev, Body, NextOp')
          /\ \A p \in Instructions(Rev, Body) : p < NextOp' => p <= j - 1
      BY <1>2, <1>3, <1>5, <2>1, <2>4, WalkStep, RevAssumption
    <2>6. ASSUME NEW p \in Instructions(Rev, Body), p < NextOp'
          PROVE  p < j
      BY <1>1, <1>2, <2>5, <2>6, InstructionFacts, RevAssumption
    <2> QED  BY <1>1, <1>6, <2>2, <2>5, <2>6 DEF WalkInv, Instructions
  <1>7. CASE push_size # 0
    <2>1. push_size' = push_size - 1
      BY <1>1, <1>7 DEF NextPushSize
    <2>2. NextOp' = NextOp /\ j - 1 < NextOp
      BY <1>1, <1>4, <1>7, <2>1
    <2>3. j - 1 \notin Instructions(Rev, Body)
      BY <1>1, <1>3, <2>2
    <2>4. ~IsInstruction(Rev, Body, j - 1)
      BY <1>5, <2>3 DEF Instructions
    <2>5. ASSUME NEW p \in Instructions(Rev, Body), p < NextOp'
          PROVE  p < j
      BY <1>1, <1>2, <1>3, <2>2, <2>5, InstructionFacts, RevAssumption
    <2> QED  BY <1>1, <1>3, <1>7, <2>2, <2>4, <2>5 DEF WalkInv
  <1> QED  BY <1>6, <1>7

\* An iteration for j > 0 classifies its byte, and the rows before keep their meaning.
LEMMA ByteClassifies ==
    ASSUME Rev # PRAGUE, TypeInv, BodyInv, ByteRow
    PROVE  BodyInv'
  <1> DEFINE byte == bytecode[j + 1]
  <1>1. /\ SetRow(RowFor(byte)) /\ RowFor(byte) \in Row
        /\ push_size' = NextPushSize(byte) /\ push_size' \in 0..32
        /\ push_size \in 0..32 /\ j \in Nat /\ j > 0 /\ j' = j + 1
        /\ Body' = Body /\ start_row_index' = start_row_index /\ start_row_index \in Nat
    BY ByteAppends DEF ByteRow, TypeInv, TypeOK, Body
  <1>2. WalkInv' /\ (push_size = 0 <=> IsInstruction(Rev, Body, j - 1))
    BY ByteWalks DEF BodyInv
  <1>3. /\ \A k \in 2..j : RowOf(k)' = RowOf(k) /\ RowOf(k) \in Row
        /\ \A k \in Nat : k = j + 1 => RowOf(k)' = RowFor(byte)
    <2>1. /\ table'[start_row_index + j + 1] = RowFor(byte)
          /\ \A r \in 1..Len(table) : table'[r] = table[r]
      BY <1>1, RowAppended
    <2>2. ASSUME NEW k \in 2..j
          PROVE  RowOf(k)' = RowOf(k) /\ RowOf(k) \in Row
      <3>1. start_row_index + k \in 1..Len(table) /\ table \in Seq(Row)
        BY <1>1 DEF TypeInv, TypeOK, AtEnd
      <3> QED  BY <1>1, <2>1, <3>1 DEF RowOf
    <2> HIDE DEF byte
    <2>3. ASSUME NEW k \in Nat, k = j + 1
          PROVE  RowOf(k)' = RowFor(byte)
      <3>1. start_row_index' + k = start_row_index + j + 1
        BY <1>1, <2>3
      <3> QED  BY <2>1, <3>1 DEF RowOf
    <2> QED  BY <2>2, <2>3
  <1>4. /\ RowFor(byte).is_opcode = IF push_size = 0 THEN 1 ELSE 0
        /\ RowFor(byte).push_size = push_size'
    BY DEF RowFor
  <1> HIDE DEF byte
  <1>5. \A k \in 2..j : RowOf(k).push_size \in Int
    BY <1>3 DEF Row
  <1>6. push_size # 0 => push_size' = push_size - 1
    BY <1>1 DEF NextPushSize
  <1>7. Pending'
    <2>1. ASSUME NEW k \in 2..j + 1, k + RowOf(k)'.push_size >= j + 1
          PROVE  push_size' = k + RowOf(k)'.push_size - (j + 1)
      <3>1. CASE k = j + 1
        BY <1>1, <1>3, <1>4, <2>1, <3>1
      <3>2. CASE k \in 2..j
        <4>1. RowOf(k)' = RowOf(k) /\ RowOf(k).push_size \in Int
          BY <1>3, <1>5, <3>2
        <4>2. push_size = k + RowOf(k).push_size - j
          BY <1>1, <2>1, <3>2, <4>1 DEF BodyInv, Pending
        <4> QED  BY <1>1, <1>6, <2>1, <4>1, <4>2
      <3> QED  BY <1>1, <3>1, <3>2
    <2> QED  BY <1>1, <2>1 DEF Pending, RowOf
  <1>8. OpcodesMarked'
    <2>1. ASSUME NEW k \in 2..j + 1
          PROVE  (RowOf(k)'.is_opcode = 1) <=> IsInstruction(Rev, Body, k - 2)
      <3>1. CASE k = j + 1
        <4>1. k - 2 = j - 1
          BY <1>1, <3>1
        <4> QED  BY <1>2, <1>3, <1>4, <3>1, <4>1
      <3>2. CASE k \in 2..j
        BY <1>3, <3>2 DEF BodyInv, OpcodesMarked
      <3> QED  BY <1>1, <3>1, <3>2
    <2> QED  BY <1>1, <2>1 DEF OpcodesMarked, RowOf
  <1>9. PushSizeCounts'
    <2>1. ASSUME NEW k \in 2..j + 1, NEW m \in 2..j + 1, k < m
          PROVE  /\ m <= k + RowOf(k)'.push_size => RowOf(m)'.is_opcode = 0
                 /\ m = k + RowOf(k)'.push_size + 1 => RowOf(m)'.is_opcode = 1
      <3>1. k \in 2..j
        BY <1>1, <2>1
      <3>2. RowOf(k)' = RowOf(k) /\ RowOf(k).push_size \in Int
        BY <1>3, <1>5, <3>1
      <3>3. CASE m \in 2..j
        <4>1. RowOf(m)' = RowOf(m)
          BY <1>3, <3>3
        <4> QED  BY <2>1, <3>1, <3>2, <3>3, <4>1 DEF BodyInv, PushSizeCounts
      <3>4. CASE m = j + 1
        <4>1. RowOf(m)'.is_opcode = IF push_size = 0 THEN 1 ELSE 0
          BY <1>3, <1>4, <3>4
        <4>2. k + RowOf(k).push_size >= j => push_size = k + RowOf(k).push_size - j
          BY <3>1 DEF BodyInv, Pending
        <4> QED  BY <1>1, <3>1, <3>2, <3>4, <4>1, <4>2
      <3> QED  BY <1>1, <3>3, <3>4
    <2> QED  BY <1>1, <2>1 DEF PushSizeCounts, RowOf
  <1> QED  BY <1>2, <1>7, <1>8, <1>9 DEF BodyInv

\* Every step keeps the classification.
LEMMA NextBodyInv ==
    ASSUME Rev # PRAGUE, TypeInv, BodyInv, [Next]_vars
    PROVE  BodyInv'
  <1>1. CASE Start
    BY <1>1 DEF Start, BodyInv, WalkInv, Pending, OpcodesMarked, PushSizeCounts
  <1>2. CASE HeaderRow
    <2>1. j = 0 /\ j' = 1 /\ push_size' = 0 /\ bytecode' = bytecode /\ Len(bytecode) > 0
      BY <1>2 DEF HeaderRow
    <2>2. Body' = Body /\ Body \in Seq(Byte) /\ NextOp' = 0
      BY <2>1, BodyType DEF Body, NextOp
    <2>3. /\ Walked(Rev, Body, 0)
          /\ \A p \in Instructions(Rev, Body) : ~(p < 0)
      BY <2>2, WalkStart, InstructionFacts, RevAssumption
    <2>4. WalkInv'
      BY <2>2, <2>3 DEF WalkInv
    <2> QED  BY <2>1, <2>4 DEF BodyInv, Pending, OpcodesMarked, PushSizeCounts
  <1>3. CASE ByteRow
    BY <1>3, ByteClassifies
  <1>4. CASE Finish \/ UNCHANGED vars
    BY <1>4 DEF Finish, vars, BodyInv, WalkInv, NextOp, Body, Pending, OpcodesMarked,
                PushSizeCounts, RowOf
  <1> QED  BY <1>1, <1>2, <1>3, <1>4 DEF Next, Done

\* Before PRAGUE, process_bytecode_input marks as opcodes exactly the instructions of
\* the code behind the header byte, whatever the code, and PUSH_SIZE counts their data.
\* (At PRAGUE it does not: DUPN and SWAPN have an immediate that it takes for an opcode.)
THEOREM BodyCorrect == Rev # PRAGUE => (Spec => []BodyClassified)
  <1> SUFFICES ASSUME Rev # PRAGUE PROVE Spec => []BodyClassified
    OBVIOUS
  <1>1. Init => BodyInv
    BY DEF Init, BodyInv, WalkInv, Pending, OpcodesMarked, PushSizeCounts
  <1>2. TypeInv /\ BodyInv /\ [Next]_vars => BodyInv'
    BY NextBodyInv
  <1>3. BodyInv => BodyClassified
    BY DEF BodyInv, OpcodesMarked, BodyClassified, Body
  <1> QED  BY <1>1, <1>2, <1>3, TypeInvariance, PTL DEF Spec

=============================================================================
