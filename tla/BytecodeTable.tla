--------------------------- MODULE BytecodeTable ---------------------------
(***************************************************************************)
(* The bytecode circuit table: process_bytecode_input appends one row per  *)
(* byte of the code of every frame.  The first byte gets the header row,   *)
(* whatever it is; the others are classified as opcodes or push data.      *)
(*                                                                         *)
(* The keccak hash of the code and the lookup constants of a row are left  *)
(* out; field elements are the naturals below FieldMod, and a size_t the   *)
(* naturals below SizeMod.                                                 *)
(***************************************************************************)
EXTENDS EvmCode

CONSTANTS
    Codes,      \* the codes frames run
    Rev,        \* the revision the frames run at
    FieldMod,   \* order of the field
    SizeMod,    \* number of values of size_t, 2^64 in the code
    MaxCodes    \* bound: frames of a behaviour

ASSUME CodesAssumption == Codes \subseteq Seq(Byte)
ASSUME RevAssumption   == Rev \in Revision
ASSUME ModAssumption   == FieldMod \in Nat \ {0} /\ SizeMod \in Nat \ 0..255
ASSUME BoundAssumption == MaxCodes \in Nat

VARIABLES
    bytecode,         \* the code being assigned
    running,          \* process_bytecode_input is in its loop
    frames,           \* number of frames so far
    j,                \* its loop variable (cur is always equal to it)
    start_row_index,
    prev_length,
    prev_vrlc,
    push_size,
    table             \* the rows of bytecode_table

vars == <<bytecode, running, frames, j, start_row_index, prev_length,
          prev_vrlc, push_size, table>>

rlc_challenge == 15

\* Mutant of Start: the rows of every code start at the top of the table.
Start_at_top ==
    /\ ~ running
    /\ frames < MaxCodes
    /\ bytecode' \in Codes
    /\ frames' = frames + 1
    /\ running' = TRUE
    /\ j' = 0
    /\ start_row_index' = 0
    /\ prev_length' = 0
    /\ prev_vrlc' = 0
    /\ push_size' = 0
    /\ UNCHANGED table

\* handle_bytecode for the code of the next frame.
Start ==
    /\ ~ running
    /\ frames < MaxCodes
    /\ bytecode' \in Codes
    /\ frames' = frames + 1
    /\ running' = TRUE
    /\ j' = 0
    /\ start_row_index' = Len(table)
    /\ prev_length' = 0
    /\ prev_vrlc' = 0
    /\ push_size' = 0
    /\ UNCHANGED table

\* bytecode_table.witness(column, start_row_index + cur) = ... for all columns.
SetRow(row) ==
    LET r == start_row_index + j + 1
    IN  table' = IF r <= Len(table) THEN [table EXCEPT ![r] = row]
                                    ELSE Append(table, row)

\* The iteration for j = 0.
HeaderRow ==
    /\ running
    /\ j = 0
    /\ j < Len(bytecode)
    /\ SetRow([tag |-> 0, index |-> 0, value |-> bytecode[1], is_opcode |-> 0,
               push_size |-> 0, length_left |-> bytecode[1], value_rlc |-> 0])
    /\ prev_length' = bytecode[1]
    /\ prev_vrlc' = 0
    /\ push_size' = 0
    /\ j' = j + 1
    /\ UNCHANGED <<bytecode, running, frames, start_row_index>>

\* Mutant of NextPushSize: PUSH32 is not a push.
NextPushSize_below_32(byte) ==
    IF push_size # 0 THEN push_size - 1
    ELSE IF byte > 95 /\ byte < 127 THEN byte - 95 ELSE 0

\* Mutant of NextPushSize: one byte of data too many.
NextPushSize_one_more(byte) ==
    IF push_size # 0 THEN push_size - 1
    ELSE IF byte > 95 /\ byte < 128 THEN byte - 94 ELSE 0

\* push_size after a byte.
NextPushSize(byte) ==
    IF push_size # 0 THEN push_size - 1
    ELSE IF byte > 95 /\ byte < 128 THEN byte - 95 ELSE 0

\* The iterations for j > 0.
ByteRow ==
    /\ running
    /\ j > 0
    /\ j < Len(bytecode)
    /\ LET byte == bytecode[j + 1]
       IN  /\ prev_length' = (prev_length - 1) % SizeMod
           /\ push_size' = NextPushSize(byte)
           /\ prev_vrlc' = (prev_vrlc * rlc_challenge + byte) % FieldMod
           /\ SetRow([tag |-> 1, index |-> j - 1, value |-> byte,
                      is_opcode |-> IF push_size = 0 THEN 1 ELSE 0,
                      push_size |-> push_size', length_left |-> prev_length',
                      value_rlc |-> prev_vrlc'])
    /\ j' = j + 1
    /\ UNCHANGED <<bytecode, running, frames, start_row_index>>

Finish ==
    /\ running
    /\ j = Len(bytecode)
    /\ running' = FALSE
    /\ UNCHANGED <<bytecode, frames, j, start_row_index, prev_length,
                   prev_vrlc, push_size, table>>

Init ==
    /\ bytecode = << >>
    /\ running = FALSE
    /\ frames = 0
    /\ j = 0
    /\ start_row_index = 0
    /\ prev_length = 0
    /\ prev_vrlc = 0
    /\ push_size = 0
    /\ table = << >>

Done == ~ running /\ frames = MaxCodes /\ UNCHANGED vars

Next == Start \/ HeaderRow \/ ByteRow \/ Finish \/ Done

Spec == Init /\ [][Next]_vars

-----------------------------------------------------------------------------
(* Properties.                                                             *)

Row == [tag : {0, 1}, index : Nat, value : Byte, is_opcode : {0, 1},
        push_size : 0..32, length_left : 0..SizeMod - 1,
        value_rlc : 0..FieldMod - 1]

\* The loop and its rows have the types of process_bytecode_input; a push never
\* has more than 32 bytes of data to come.
TypeOK ==
    /\ bytecode \in Seq(Byte)
    /\ running \in BOOLEAN
    /\ frames \in Nat
    /\ j \in 0..Len(bytecode)
    /\ start_row_index \in Nat
    /\ prev_length \in 0..SizeMod - 1
    /\ prev_vrlc \in 0..FieldMod - 1
    /\ push_size \in 0..32
    /\ table \in Seq(Row)

\* The row of byte number k of the code being assigned.
RowOf(k) == table[start_row_index + k]

\* PUSH_SIZE counts the data bytes still to come: a row whose PUSH_SIZE is n is
\* followed by n data rows and then by an opcode row, as far as the code goes.
PushSizeCounts ==
    \A k, m \in 2..j :
        k < m => LET n == RowOf(k).push_size
                 IN  /\ m <= k + n => RowOf(m).is_opcode = 0
                     /\ m = k + n + 1 => RowOf(m).is_opcode = 1

\* Behind the header byte, IS_OPCODE marks exactly the instructions of the code
\* that follows it, as dispatch() would walk that code, and PUSH_SIZE says in each row
\* how many bytes of data are still to come.
BodyClassified ==
    /\ \A k \in 2..j :
          (RowOf(k).is_opcode = 1) <=> IsInstruction(Rev, Tail(bytecode), k - 2)
    /\ PushSizeCounts

\* The rows of the codes of earlier frames are never written again.
EarlierRowsKept ==
    [][\A r \in 1..Len(table) : table'[r] = table[r]]_vars

=============================================================================
