----------------------------- MODULE MCRwTable -----------------------------
(***************************************************************************)
(* Small instances of RwTable.  Chunks have four values, so that numbers   *)
(* have a high and a low chunk: two stack slots that differ in the high    *)
(* chunk, two keys of one account that differ in the low one.              *)
(***************************************************************************)
EXTENDS RwTable

Cell(op, address, storage_key) ==
    [op |-> op, address |-> address, storage_key |-> storage_key]

FrameCells  == {Cell(STACK_OP, 1, 0), Cell(STACK_OP, 4, 0),
                Cell(STORAGE_OP, 2, 5), Cell(STORAGE_OP, 2, 6)}

StoredCells == {c \in FrameCells : c.op = STORAGE_OP}

=============================================================================
