------------------------------ MODULE RwTable ------------------------------
(***************************************************************************)
(* The RW circuit table.  Each frame of the interpreter collects rw_trace; *)
(* when its dispatch() returns, handle_rw() sorts the trace and appends    *)
(* one row per operation.  A nested call runs to its end inside a handler  *)
(* of its caller, so its rows come first and the caller's trace waits.     *)
(*                                                                         *)
(* What the handlers trace is modelled by its effect: reads and writes of  *)
(* stack, memory and storage locations.  A location is the part of an      *)
(* operation that names the cell: op, address and storage_key.  Stack and  *)
(* memory cells belong to the frame, storage cells to the account.         *)
(***************************************************************************)
EXTENDS Integers, Sequences, FiniteSets

CONSTANTS
    ChunkBase,      \* values of a chunk column, 2^16 in the code
    AddressChunks,  \* 10 in the code
    KeyChunks,      \* 16 in the code
    Locations,      \* the cells handlers access
    Stored,         \* the storage cells that exist in the accounts of VMHost
    Values,         \* the words in cells
    MaxOperations,  \* bound: operations traced in a behaviour
    MaxFrames       \* bound: frames of a behaviour

START_OP   == 0
STACK_OP   == 1
MEMORY_OP  == 2
STORAGE_OP == 3
PADDING_OP == 12

NumberChunks == 2   \* chunks of ID and of RW_ID

ASSUME ChunkAssumption ==
    /\ ChunkBase \in Nat \ {0, 1}
    /\ AddressChunks \in Nat \ {0}
    /\ KeyChunks \in Nat \ {0}
ASSUME LocationAssumption ==
    Locations \subseteq [op : {STACK_OP, MEMORY_OP, STORAGE_OP},
                         address : 0..ChunkBase ^ AddressChunks - 1,
                         storage_key : 0..ChunkBase ^ KeyChunks - 1]
ASSUME StoredAssumption == Stored \subseteq {l \in Locations : l.op = STORAGE_OP}
ASSUME ValueAssumption == Values \subseteq Nat /\ 0 \in Values

\* The number of operations fits the two chunks of RW_ID, as 2^32 does in the code.
ASSUME BoundAssumption ==
    /\ MaxOperations \in 0..ChunkBase ^ NumberChunks
    /\ MaxFrames \in Nat

\* Arithmetic of the place values of chunks.
ASSUME PlaceValues ==
    /\ ChunkBase ^ 0 = 1
    /\ \A n \in 0..NumberChunks + AddressChunks + KeyChunks :
          /\ ChunkBase ^ n \in Nat \ {0}
          /\ ChunkBase ^ (n + 1) = ChunkBase * ChunkBase ^ n

VARIABLES
    traces,      \* the rw_trace of every frame on the call stack, innermost last
    cells,       \* the frame's own cells, for every frame on the call stack
    storage,     \* the storage maps of the accounts of VMHost
    next_frame,  \* number of frames started, to tell frames apart in properties
    frames,      \* the number of each frame on the call stack
    sorted,      \* the trace handle_rw is working on, after std::sort
    i,           \* its loop variable
    start_row_index,
    phase,       \* "run" or "process"
    table        \* the rows of rw_table

vars == <<traces, cells, storage, next_frame, frames, sorted, i,
          start_row_index, phase, table>>

depth == Len(traces)

-----------------------------------------------------------------------------
(* Tracing.                                                                *)

StorageLocations == {l \in Locations : l.op = STORAGE_OP}
LocalLocations   == Locations \ StorageLocations

FreshCells == [l \in LocalLocations |-> 0]

\* evaluate() gives every frame the call_id 0.
call_id == 0

\* stack_operation, memory_operation, storage_operation with rw_trace.size()
\* as rw_id, appended to the trace of the running frame.
push_back(l, is_write, value, value_prev) ==
    traces' = [traces EXCEPT ![depth] =
                  Append(@, [op |-> l.op, id |-> call_id, address |-> l.address,
                             field |-> 0, storage_key |-> l.storage_key,
                             rw_id |-> Len(@), is_write |-> is_write,
                             value |-> value, value_prev |-> value_prev])]

\* The handlers that access memory or storage trace the operands they take
\* from the stack first.
HasOperands(l) ==
    l.op = STACK_OP \/ \E k \in DOMAIN traces[depth] : traces[depth][k].op = STACK_OP

\* The operations traced so far: those with a row and those of running frames.
Traced == Len(table) + Cardinality(UNION {{d} \X DOMAIN traces[d] : d \in 1..depth})

MayTrace == phase = "run" /\ depth > 0 /\ Traced < MaxOperations

TraceLocalRead(l) ==
    /\ MayTrace /\ HasOperands(l)
    /\ push_back(l, FALSE, cells[depth][l], 0)
    /\ UNCHANGED <<cells, storage, next_frame, frames, sorted, i,
                   start_row_index, phase, table>>

TraceLocalWrite(l, v) ==
    /\ MayTrace /\ HasOperands(l)
    /\ push_back(l, TRUE, v, 0)
    /\ cells' = [cells EXCEPT ![depth][l] = v]
    /\ UNCHANGED <<storage, next_frame, frames, sorted, i, start_row_index,
                   phase, table>>

\* VMHost::get_storage: a key that is not in the map reads as zero.
get_storage(l) == IF l \in DOMAIN storage THEN storage[l] ELSE 0

\* VMHost::set_storage: a key that is not in the map stays out of it.
set_storage(l, v) ==
    storage' = IF l \in DOMAIN storage THEN [storage EXCEPT ![l] = v] ELSE storage

\* The storage access of sload: the value read is also the previous value.
TraceStorageRead(l) ==
    /\ MayTrace /\ HasOperands(l)
    /\ push_back(l, FALSE, get_storage(l), get_storage(l))
    /\ UNCHANGED <<cells, storage, next_frame, frames, sorted, i,
                   start_row_index, phase, table>>

\* The storage access of sstore: traced with the value get_storage returns, then
\* made.  The gas check that follows may end the frame, but takes nothing back.
TraceStorageWrite(l, v) ==
    /\ MayTrace /\ HasOperands(l)
    /\ push_back(l, TRUE, v, get_storage(l))
    /\ set_storage(l, v)
    /\ UNCHANGED <<cells, next_frame, frames, sorted, i, start_row_index,
                   phase, table>>

\* A call or create handler starts a frame with a state of its own.
Enter ==
    /\ phase = "run"
    /\ depth > 0
    /\ next_frame < MaxFrames
    /\ traces' = Append(traces, << >>)
    /\ cells' = Append(cells, FreshCells)
    /\ frames' = Append(frames, next_frame)
    /\ next_frame' = next_frame + 1
    /\ UNCHANGED <<storage, sorted, i, start_row_index, phase, table>>

-----------------------------------------------------------------------------
(* process_rw_operations.                                                  *)

\* Mutant of less: operations on a location are sorted latest first.
less_latest_first(a, b) ==
    IF a.op # b.op THEN a.op < b.op
    ELSE IF a.address # b.address THEN a.address < b.address
    ELSE IF a.field # b.field THEN a.field < b.field
    ELSE IF a.storage_key # b.storage_key THEN a.storage_key < b.storage_key
    ELSE a.rw_id > b.rw_id

\* Mutant of less: the storage key is not compared.
less_no_key(a, b) ==
    IF a.op # b.op THEN a.op < b.op
    ELSE IF a.address # b.address THEN a.address < b.address
    ELSE a.rw_id < b.rw_id

\* rw_operation::operator<, which does not compare id.
less(a, b) ==
    IF a.op # b.op THEN a.op < b.op
    ELSE IF a.address # b.address THEN a.address < b.address
    ELSE IF a.field # b.field THEN a.field < b.field
    ELSE IF a.storage_key # b.storage_key THEN a.storage_key < b.storage_key
    ELSE a.rw_id < b.rw_id

\* std::sort with operator<: the operation with n - 1 smaller ones comes n-th.  No
\* two operations of a trace are equal in the order, their rw_id differ.
sort(trace) ==
    LET rank(k) == Cardinality({j \in DOMAIN trace : less(trace[j], trace[k])})
    IN  [n \in DOMAIN trace |-> trace[CHOOSE k \in DOMAIN trace : rank(k) = n - 1]]

\* Mutant of Leave: the rows of every frame start at the top of the table.
Leave_at_top ==
    /\ phase = "run"
    /\ depth > 0
    /\ phase' = "process"
    /\ sorted' = sort(traces[depth])
    /\ i' = 0
    /\ start_row_index' = 0
    /\ UNCHANGED <<traces, cells, storage, next_frame, frames, table>>

\* dispatch() returned: handle_rw sorts the trace and starts its loop after the
\* last row of the table.
Leave ==
    /\ phase = "run"
    /\ depth > 0
    /\ phase' = "process"
    /\ sorted' = sort(traces[depth])
    /\ i' = 0
    /\ start_row_index' = Len(table)
    /\ UNCHANGED <<traces, cells, storage, next_frame, frames, table>>

\* The n chunks of a number, most significant first.
Chunks(x, n) == [j \in 1..n |-> (x \div ChunkBase ^ (n - j)) % ChunkBase]

\* The values of the columns of the vector sorting, in its order.
sorting(o) ==
    <<o.op>> \o Chunks(o.id, NumberChunks) \o Chunks(o.address, AddressChunks)
    \o <<o.field>> \o Chunks(o.storage_key, KeyChunks)
    \o Chunks(o.rw_id, NumberChunks)

SortingSize == 1 + NumberChunks + AddressChunks + 1 + KeyChunks + NumberChunks

\* Mutant of GroupColumns: the last chunk of the storage key is left out.
GroupColumns_short == SortingSize - NumberChunks - 1

\* The columns before RW_ID: 30 in the code.
GroupColumns == SortingSize - NumberChunks

\* The first column in which two rows differ, SortingSize if there is none.
diff_ind(a, b) ==
    CHOOSE d \in 0..SortingSize :
        /\ \A k \in 1..d : sorting(a)[k] = sorting(b)[k]
        /\ d < SortingSize => sorting(a)[d + 1] # sorting(b)[d + 1]

\* The lookup columns of a row, with the other columns as the table creates
\* them, and the frame it came from.
NewRow(o) ==
    [operation |-> o, diff_ind |-> 0, difference |-> 0, value_before |-> 0,
     is_first |-> 0, is_last |-> 0, frame |-> frames[depth]]

\* The row of the operation number k of the frame is assigned.
SetRow(rows, k, row) ==
    LET r == start_row_index + k
    IN  IF r <= Len(rows) THEN [rows EXCEPT ![r] = row] ELSE Append(rows, row)

\* The first row of a frame: the loop body ends at "if (i == 0) continue".
FillFirstRow ==
    /\ phase = "process"
    /\ i = 0
    /\ i < Len(sorted)
    /\ table' = SetRow(table, 1, NewRow(sorted[1]))
    /\ i' = i + 1
    /\ UNCHANGED <<traces, cells, storage, next_frame, frames, sorted,
                   start_row_index, phase>>

\* Mutant of ClosesGroup: no mark before a group of storage rows.
ClosesGroup_local(o, d) == d < GroupColumns /\ o.op # STORAGE_OP

\* The conditions of IS_LAST on the row above and of IS_FIRST on the row of o.
ClosesGroup(o, d) == d < GroupColumns /\ o.op # START_OP
OpensGroup(o, d)  == d < GroupColumns /\ o.op \notin {START_OP, PADDING_OP}

\* The row of operation o below the row above, with its advice columns.
AdviceRow(o, above) ==
    LET d == diff_ind(above.operation, o)
    IN  [NewRow(o) EXCEPT
            !.diff_ind     = d,
            !.value_before = IF d < GroupColumns THEN o.value_prev ELSE above.value_before,
            !.is_first     = IF OpensGroup(o, d) THEN 1 ELSE 0,
            !.difference   = sorting(o)[d + 1] - sorting(above.operation)[d + 1]]

\* Mutant of FillRow: the loop variable is advanced twice.
FillRow_twice ==
    /\ phase = "process"
    /\ i > 0
    /\ i < Len(sorted)
    /\ table' = SetRow(table, i + 1,
                     AdviceRow(sorted[i + 1], table[start_row_index + i]))
    /\ i' = i + 2
    /\ UNCHANGED <<traces, cells, storage, next_frame, frames, sorted,
                   start_row_index, phase>>

\* The other rows, with their advice columns; IS_LAST is set on the row above.
FillRow ==
    /\ phase = "process"
    /\ i > 0
    /\ i < Len(sorted)
    /\ LET above == table[start_row_index + i]
           row   == AdviceRow(sorted[i + 1], above)
       IN  table' = SetRow([table EXCEPT ![start_row_index + i].is_last =
                                IF ClosesGroup(row.operation, row.diff_ind)
                                THEN 1 ELSE @], i + 1, row)
    /\ i' = i + 1
    /\ UNCHANGED <<traces, cells, storage, next_frame, frames, sorted,
                   start_row_index, phase>>

\* The loop is over, the caller's handler goes on.
Return ==
    /\ phase = "process"
    /\ i = Len(sorted)
    /\ phase' = "run"
    /\ traces' = SubSeq(traces, 1, depth - 1)
    /\ cells' = SubSeq(cells, 1, depth - 1)
    /\ frames' = SubSeq(frames, 1, depth - 1)
    /\ UNCHANGED <<storage, next_frame, sorted, i, start_row_index, table>>

Init ==
    /\ traces = << << >> >>
    /\ cells = <<FreshCells>>
    /\ storage \in [Stored -> Values]
    /\ next_frame = 1
    /\ frames = <<0>>
    /\ sorted = << >>
    /\ i = 0
    /\ start_row_index = 0
    /\ phase = "run"
    /\ table = << >>

Done == phase = "run" /\ depth = 0 /\ UNCHANGED vars

Next ==
    \/ \E l \in LocalLocations :
          TraceLocalRead(l) \/ \E v \in Values : TraceLocalWrite(l, v)
    \/ \E l \in StorageLocations :
          TraceStorageRead(l) \/ \E v \in Values : TraceStorageWrite(l, v)
    \/ Enter \/ Leave \/ FillFirstRow \/ FillRow \/ Return \/ Done

Spec == Init /\ [][Next]_vars

-----------------------------------------------------------------------------
(* Properties.                                                             *)

Location(o) == [op |-> o.op, address |-> o.address, storage_key |-> o.storage_key]

\* Row r of the table continues the group of the row above: same frame, same
\* location.
Continues(r) ==
    /\ r > 1
    /\ table[r - 1].frame = table[r].frame
    /\ Location(table[r - 1].operation) = Location(table[r].operation)

\* Row r opens its frame in the table.
OpensFrame(r) == r = 1 \/ table[r - 1].frame # table[r].frame

Operation == [op : {STACK_OP, MEMORY_OP, STORAGE_OP}, id : {call_id},
              address : 0..ChunkBase ^ AddressChunks - 1, field : {0},
              storage_key : 0..ChunkBase ^ KeyChunks - 1, rw_id : Nat,
              is_write : BOOLEAN, value : Values, value_prev : Values]

\* The traces, the rows and the loop have the types of process_rw_operations.
TypeOK ==
    /\ phase \in {"run", "process"}
    /\ traces \in Seq(Seq(Operation))
    /\ cells \in Seq([LocalLocations -> Values])
    /\ storage \in [Stored -> Values]
    /\ sorted \in Seq(Operation)
    /\ i \in 0..Len(sorted)
    /\ \A r \in 1..Len(table) :
           /\ table[r].operation \in Operation
           /\ table[r].diff_ind \in 0..SortingSize - 1
           /\ table[r].is_first \in {0, 1} /\ table[r].is_last \in {0, 1}

\* The order of operator< is the order of the sorting columns: below its
\* frame's first row every row has a column of vector sorting to point at
\* (sorting[diff_ind] exists) and a positive DIFFERENCE.
RowsIncrease ==
    \A r \in 1..Len(table) :
        ~ OpensFrame(r) =>
            /\ table[r].diff_ind < SortingSize
            /\ table[r].difference > 0

\* The memory argument on the assigned rows: a read row has the value of the row
\* above if it continues a group, and the value the location had before the
\* frame if it opens one.  Storage is shared by the frames, and what a called
\* frame stored is in that frame's rows alone: about storage rows this is said
\* of a frame that made no calls.
ReadsAgree ==
    \A r \in 1..Len(table) :
        /\ ~ table[r].operation.is_write
        /\ table[r].operation.op = STORAGE_OP => next_frame = 1
        =>
            table[r].operation.value =
                IF Continues(r) THEN table[r - 1].operation.value
                                ELSE table[r].value_before

\* VALUE_BEFORE is the same all over a group: the value_prev of the group's
\* first operation in execution order.  The first row of a frame never gets one
\* and passes its zero on, which is right only because it is a stack row.
ValueBeforeExact ==
    \A r, q \in 1..Len(table) :
        /\ table[r].frame = table[q].frame
        /\ Location(table[r].operation) = Location(table[q].operation)
        /\ \A p \in 1..Len(table) :
               /\ table[p].frame = table[q].frame
               /\ Location(table[p].operation) = Location(table[q].operation)
               => table[q].operation.rw_id <= table[p].operation.rw_id
        => table[r].value_before = table[q].operation.value_prev

\* IS_FIRST and IS_LAST mark the boundaries between the groups of a frame: once
\* a frame is assigned, every row but the last has IS_LAST exactly when the row
\* below opens a group, which then has IS_FIRST.
GroupMarks ==
    \A r \in 2..Len(table) :
        ~ OpensFrame(r) =>
            /\ (table[r].is_first = 1) <=> ~ Continues(r)
            /\ (table[r - 1].is_last = 1) <=> ~ Continues(r)

\* The rows of frames that have returned are never written again, neither by
\* their caller's rows nor by the IS_LAST of a row below.
EarlierFramesKept ==
    [][\A r \in 1..Len(table) :
           depth = 0 \/ table[r].frame # frames[depth] => table'[r] = table[r]]_vars

=============================================================================
