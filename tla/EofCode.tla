------------------------------ MODULE EofCode ------------------------------
(***************************************************************************)
(* EOF containers: validate_eof(), the header parser that analyze() uses   *)
(* once a container is known to be valid, and the execution of the code    *)
(* sections as far as validation promises something about it: where the    *)
(* program counter is, how high the stack is and who returns where.        *)
(*                                                                         *)
(* Each loop of the validator is one action per iteration.  A container is *)
(* a sequence of bytes and offsets are the code's, so offset 0 is byte     *)
(* container[1].  Words, memory and gas are left out of the execution: any *)
(* branch may be taken, and any instruction may run out of gas.            *)
(***************************************************************************)
EXTENDS EvmCode

CONSTANTS
    Containers,    \* the containers validated
    Revs,          \* the revisions they are validated for
    SectionLimit,  \* CODE_SECTION_NUMBER_LIMIT, 1024 in the code
    InOutLimit,    \* OUTPUTS_INPUTS_NUMBER_LIMIT, 0x7F in the code
    StackLimit,    \* STACK_SIZE_LIMIT and StackSpace::limit, 1024 in the code
    WordSize       \* 32 in the code

ASSUME EofConstants ==
    /\ \A c \in Containers : c \in Seq(Byte)
    /\ Revs \subseteq Revision
    /\ {SectionLimit, InOutLimit, StackLimit, WordSize} \subseteq Nat \ {0}
    /\ InOutLimit <= 127 /\ SectionLimit <= 1024

VARIABLES
    container,    \* the container, fixed
    phase,        \* the function that is running
    verdict,      \* what validate_eof() returned, or "pending"
    it,           \* parsers: the offset of the next byte
    state,        \* parsers: State::section_id, section_size or terminated
    section_id,   \* parsers: the section whose size is read
    expected,     \* parsers: expected_section_id
    section_num,  \* parsers: the number of code sections
    headers,      \* parsers: section_headers
    header,       \* the EOF1Header of validate_eof1(), then the analysis's
    validated,    \* history: the EOF1Header of validate_eof1()
    code_idx,     \* the code section that is validated
    i,            \* the offset in it
    is_returning, \* it may return to its caller
    rjumpdests,   \* destinations of its relative jumps
    immediates,   \* immediate_map
    heights,      \* stack_heights, of this and of the sections before
    worklist,     \* the offsets to visit, the last one next
    pos,          \* execution: the offset in executable_code
    height,       \* execution: the height of the stack
    call_stack,   \* execution: state.call_stack
    calls         \* history: the section and the stack base of every call

parser  == <<it, state, section_id, expected, section_num, headers>>
section == <<code_idx, i, is_returning, rjumpdests, immediates, heights, worklist>>
machine == <<pos, height, call_stack, calls>>
vars    == <<container, phase, verdict, parser, header, validated, section, machine>>

-----------------------------------------------------------------------------
(* Bytes, sections and opcodes.                                            *)

VERSION      == 1
TERMINATOR   == 0
TYPE_SECTION == 1
CODE_SECTION == 2
DATA_SECTION == 4

NON_RETURNING_FUNCTION == 128
MAX_STACK_HEIGHT       == StackLimit - 1
LOC_UNVISITED          == -1
LOC_IMMEDIATE          == -2

OP_RJUMP     == 224
OP_RJUMPI    == 225
OP_RJUMPV    == 226
OP_CALLF     == 227
OP_RETF      == 228
OP_JUMPF     == 229
OP_DATALOADN == 233
OP_CALLCODE  == 242
OP_RETURN    == 243
OP_REVERT    == 253
OP_SELFDESTRUCT == 255

\* traits[op].is_terminating.
TerminatingOps == {OP_STOP, OP_RETURN, OP_RETF, OP_JUMPF, OP_REVERT, OP_INVALID,
                   OP_SELFDESTRUCT}

\* get_baseline_cost_table(rev, 1).
eof_cost_tables == [rev \in Revision |-> [op \in Byte |->
    IF rev = PRAGUE /\ op \in {OP_JUMP, OP_JUMPI, OP_PC, OP_CALLCODE, OP_SELFDESTRUCT}
    THEN undefined ELSE gas_costs[rev][op]]]

\* What lies past the end is never read (ReadsInside); it reads as zero here.
At(p) == IF p < Len(container) THEN container[p + 1] ELSE 0
read_uint16_be(p) == At(p) * 256 + At(p + 1)
read_int16_be(p) ==
    LET n == read_uint16_be(p) IN IF n >= 32768 THEN n - 65536 ELSE n

to_int8(n) == LET m == n % 256 IN IF m >= 128 THEN m - 256 ELSE m

\* The sum of the first n sizes.
Total(sizes, n) ==
    LET upto[k \in 0..n] == IF k = 0 THEN 0 ELSE upto[k - 1] + sizes[k]
    IN  upto[n]

NoHeaders == [id \in {TYPE_SECTION, CODE_SECTION, DATA_SECTION} |-> << >>]
NoHeader  == [version |-> 0, code_sizes |-> << >>, code_offsets |-> << >>,
              data_size |-> 0, types |-> << >>]

eof_header_size(h) == 2 + 1 + 2 * 3 + 1 + 2 + Len(h[CODE_SECTION]) * 2 + 1

TypesAt(offset, size) ==
    [k \in 1..(size + 3) \div 4 |->
        [inputs |-> At(offset + 4 * (k - 1)), outputs |-> At(offset + 4 * (k - 1) + 1),
         max_stack_height |-> read_uint16_be(offset + 4 * (k - 1) + 2)]]

\* The header that both parsers assemble from the section headers.
CodeOffsets(h) ==
    [k \in 1..Len(h[CODE_SECTION]) |->
        (eof_header_size(h) + h[TYPE_SECTION][1] + Total(h[CODE_SECTION], k - 1)) % 65536]
Assemble(h) ==
    [version |-> At(2), code_sizes |-> h[CODE_SECTION], code_offsets |-> CodeOffsets(h),
     data_size |-> h[DATA_SECTION][1],
     types |-> TypesAt(eof_header_size(h), h[TYPE_SECTION][1])]

-----------------------------------------------------------------------------
(* validate_eof: the prefix and the version.                               *)

Reject(error) ==
    /\ verdict' = error /\ phase' = "rejected"
    /\ UNCHANGED <<container, header, validated, section, machine>>

Advance(next) ==
    /\ phase' = next
    /\ UNCHANGED <<container, verdict, machine>>

validate_eof ==
    /\ phase = "start"
    /\ UNCHANGED <<state, section_id, expected, section_num, headers>>
    /\ \/ /\ ~is_eof_container(container) /\ Reject("invalid_prefix")
          /\ UNCHANGED it
       \/ /\ is_eof_container(container)
          /\ Len(container) < 3 \/ At(2) # VERSION
          /\ Reject("eof_version_unknown") /\ UNCHANGED it
       \/ /\ is_eof_container(container) /\ Len(container) >= 3 /\ At(2) = VERSION
          /\ \E rev \in Revs :
                \/ rev < PRAGUE /\ Reject("eof_version_unknown") /\ UNCHANGED it
                \/ /\ rev >= PRAGUE /\ Advance("headers") /\ it' = 3
                   /\ UNCHANGED <<header, validated, section>>

-----------------------------------------------------------------------------
(* validate_eof_headers: the section headers, in their fixed order.        *)

\* The inner loop over the sizes of the code sections has begun and is not done; it
\* goes on without looking for the end of the container.
AmongSizes == state = "section_size" /\ section_id = CODE_SECTION
              /\ headers[CODE_SECTION] # << >>

ReadingHeaders ==
    phase = "headers" /\ state # "terminated" /\ (it # Len(container) \/ AmongSizes)

Missing(id) ==
    CASE id = TERMINATOR   -> "header_terminator_missing"
      [] id = TYPE_SECTION -> "type_section_missing"
      [] id = CODE_SECTION -> "code_section_missing"
      [] OTHER             -> "data_section_missing"

\* Two bytes do not fit before the end.  Mutant: off by one.
Incomplete_late(p) == p > Len(container) - 1
Incomplete(p) == p >= Len(container) - 1

HeaderId ==
    /\ ReadingHeaders /\ state = "section_id"
    /\ UNCHANGED headers
    /\ section_id' = At(it)
    /\ LET num == read_uint16_be(it + 1) IN
       \/ /\ At(it) # expected /\ Reject(Missing(expected))
          /\ it' = it + 1 /\ UNCHANGED <<state, expected, section_num>>
       \/ /\ At(it) = expected /\ expected = TERMINATOR
          /\ Advance("headers") /\ UNCHANGED <<header, validated, section>>
          /\ it' = it + 1 /\ state' = "terminated" /\ UNCHANGED <<expected, section_num>>
       \/ /\ At(it) = expected /\ expected \in {TYPE_SECTION, DATA_SECTION}
          /\ Advance("headers") /\ UNCHANGED <<header, validated, section>>
          /\ it' = it + 1 /\ state' = "section_size"
          /\ expected' = IF expected = TYPE_SECTION THEN CODE_SECTION ELSE TERMINATOR
          /\ UNCHANGED section_num
       \/ /\ At(it) = expected /\ expected = CODE_SECTION
          /\ Incomplete(it + 1) /\ Reject("incomplete_section_number")
          /\ it' = it + 1 /\ UNCHANGED <<state, expected, section_num>>
       \/ /\ At(it) = expected /\ expected = CODE_SECTION /\ ~Incomplete(it + 1)
          /\ it' = it + 3 /\ section_num' = num
          /\ \/ /\ num \notin 1..SectionLimit
                /\ Reject(IF num = 0 THEN "zero_section_size" ELSE "too_many_code_sections")
                /\ UNCHANGED <<state, expected>>
             \/ /\ num \in 1..SectionLimit
                /\ Advance("headers") /\ UNCHANGED <<header, validated, section>>
                /\ state' = "section_size" /\ expected' = DATA_SECTION

\* One size; the inner loop of the code sections reads section_num of them.
HeaderSize ==
    /\ ReadingHeaders /\ state = "section_size"
    /\ UNCHANGED <<section_id, expected, section_num>>
    /\ LET size == read_uint16_be(it)
           read == [headers EXCEPT ![section_id] = Append(@, size)]
           more == section_id = CODE_SECTION /\ Len(read[CODE_SECTION]) < section_num
       IN  \/ /\ Incomplete(it) /\ Reject("incomplete_section_size")
              /\ UNCHANGED <<it, state, headers>>
           \/ /\ ~Incomplete(it) /\ size = 0 /\ section_id # DATA_SECTION
              /\ Reject("zero_section_size")
              /\ it' = it + 2 /\ UNCHANGED <<state, headers>>
           \/ /\ ~Incomplete(it) /\ (size # 0 \/ section_id = DATA_SECTION)
              /\ Advance("headers") /\ UNCHANGED <<header, validated, section>>
              /\ it' = it + 2 /\ headers' = read
              /\ state' = IF more THEN state ELSE "section_id"

BodiesSize ==
    headers[TYPE_SECTION][1] + Total(headers[CODE_SECTION], Len(headers[CODE_SECTION]))
    + headers[DATA_SECTION][1]

\* The loop is over: the sizes must account for the rest of the container.
HeaderEnd ==
    /\ phase = "headers" /\ ~ReadingHeaders
    /\ UNCHANGED parser
    /\ IF state # "terminated" THEN Reject("section_headers_not_terminated")
       ELSE IF BodiesSize # Len(container) - it THEN Reject("invalid_section_bodies_size")
       ELSE IF headers[TYPE_SECTION][1] # Len(headers[CODE_SECTION]) * 4
            THEN Reject("invalid_type_section_size")
       ELSE Advance("types") /\ UNCHANGED <<header, validated, section>>

-----------------------------------------------------------------------------
(* validate_types and the header of validate_eof1.                         *)

validate_types ==
    LET h     == Assemble(headers)
        types == h.types
        Indices == 1..Len(types)
        InOut(t)   == \/ t.outputs > InOutLimit /\ t.outputs # NON_RETURNING_FUNCTION
                      \/ t.inputs > InOutLimit
        TooHigh(t) == t.max_stack_height > MAX_STACK_HEIGHT
    IN  /\ phase = "types"
        /\ UNCHANGED parser
        /\ \/ /\ types[1].inputs # 0 \/ types[1].outputs # NON_RETURNING_FUNCTION
              /\ Reject("invalid_first_section_type")
           \/ /\ types[1].inputs = 0 /\ types[1].outputs = NON_RETURNING_FUNCTION
              /\ \E k \in Indices :
                    /\ \A j \in 1..k - 1 : ~InOut(types[j]) /\ ~TooHigh(types[j])
                    /\ InOut(types[k]) \/ TooHigh(types[k])
                    /\ Reject(IF InOut(types[k]) THEN "inputs_outputs_num_above_limit"
                                                 ELSE "max_stack_height_above_limit")
           \/ /\ types[1].inputs = 0 /\ types[1].outputs = NON_RETURNING_FUNCTION
              /\ \A k \in Indices : ~InOut(types[k]) /\ ~TooHigh(types[k])
              /\ Advance("instructions")
              /\ header' = h /\ validated' = h
              /\ code_idx' = 1 /\ i' = 0 /\ is_returning' = FALSE
              /\ UNCHANGED <<rjumpdests, immediates, heights, worklist>>

-----------------------------------------------------------------------------
(* The loops over a code section.  Code(p) is byte p of section code_idx.  *)

Code(p)   == At(header.code_offsets[code_idx] + p)
Word16(p) == read_uint16_be(header.code_offsets[code_idx] + p)
Rel16(p)  == read_int16_be(header.code_offsets[code_idx] + p)
CodeSize  == header.code_sizes[code_idx]
TypeOf(fid) == header.types[fid + 1]      \* code_types[fid]
OwnType     == header.types[code_idx]

\* Bytes of immediate data, the jump table of RJUMPV included.
ImmediateSize(p) ==
    immediate_size[Code(p)] + (IF Code(p) = OP_RJUMPV THEN (Code(p + 1) + 1) * 2 ELSE 0)

Returns(outputs) == outputs # NON_RETURNING_FUNCTION

\* DATALOADN at an index without a whole word of data.
DataOutside(index) == header.data_size < WordSize \/ index > header.data_size - WordSize

\* What validate_instructions finds wrong with the instruction at i.
BadInstruction ==
    LET op  == Code(i)
        fid == Word16(i + 1)
        uses_fid == op \in {OP_CALLF, OP_JUMPF}
    IN  IF eof_cost_tables[PRAGUE][op] = undefined THEN "undefined_instruction"
        ELSE IF i + immediate_size[op] >= CodeSize THEN "truncated_instruction"
        ELSE IF i + ImmediateSize(i) >= CodeSize THEN "truncated_instruction"
        ELSE IF uses_fid /\ fid >= Len(header.types) THEN "invalid_code_section_index"
        ELSE IF op = OP_CALLF /\ ~Returns(TypeOf(fid).outputs)
             THEN "callf_to_non_returning_function"
        ELSE IF op = OP_DATALOADN /\ DataOutside(fid) THEN "invalid_dataloadn_index"
        ELSE "none"

\* RETF, and JUMPF into a returning function, make this one returning.
\* Mutant: only JUMPF is seen to.
ReturnsAt_jumpf(p) == Code(p) = OP_JUMPF /\ Returns(TypeOf(Word16(p + 1)).outputs)
ReturnsAt(p) ==
    \/ Code(p) = OP_RETF
    \/ Code(p) = OP_JUMPF /\ Returns(TypeOf(Word16(p + 1)).outputs)

validate_instructions ==
    /\ phase = "instructions" /\ i < CodeSize
    /\ UNCHANGED parser
    /\ \/ BadInstruction # "none" /\ Reject(BadInstruction)
       \/ /\ BadInstruction = "none"
          /\ i' = i + ImmediateSize(i) + 1
          /\ is_returning' = (is_returning \/ ReturnsAt(i))
          /\ Advance(phase)
          /\ UNCHANGED <<header, validated, code_idx, rjumpdests, immediates, heights,
                         worklist>>

InstructionsEnd ==
    /\ phase = "instructions" /\ i >= CodeSize
    /\ UNCHANGED parser
    /\ \/ /\ is_returning # Returns(OwnType.outputs)
          /\ Reject("invalid_non_returning_flag")
       \/ /\ is_returning = Returns(OwnType.outputs)
          /\ Advance("rjumps")
          /\ i' = 0 /\ rjumpdests' = {} /\ immediates' = {}
          /\ UNCHANGED <<header, validated, code_idx, is_returning, heights, worklist>>

\* The offsets the instruction at p may jump to, in the order of its table.
Targets(p) ==
    CASE Code(p) \in {OP_RJUMP, OP_RJUMPI} -> <<p + 3 + Rel16(p + 1)>>
      [] Code(p) = OP_RJUMPV ->
            [k \in 1..Code(p + 1) + 1 |-> p + 1 + ImmediateSize(p) + Rel16(p + 2 * k)]
      [] OTHER -> << >>

validate_rjump_destinations ==
    /\ phase = "rjumps" /\ i < CodeSize
    /\ UNCHANGED parser
    /\ LET dests == {Targets(i)[k] : k \in DOMAIN Targets(i)} IN
       \/ /\ ~(dests \subseteq 0..CodeSize - 1)
          /\ Reject("invalid_rjump_destination")
       \/ /\ dests \subseteq 0..CodeSize - 1
          /\ rjumpdests' = rjumpdests \cup dests
          /\ immediates' = immediates \cup (i + 1)..(i + ImmediateSize(i))
          /\ i' = i + ImmediateSize(i) + 1
          /\ Advance(phase)
          /\ UNCHANGED <<header, validated, code_idx, is_returning, heights, worklist>>

JumpsIntoImmediate_never == FALSE
JumpsIntoImmediate == rjumpdests \cap immediates # {}

RjumpsEnd ==
    /\ phase = "rjumps" /\ i >= CodeSize
    /\ UNCHANGED parser
    /\ \/ JumpsIntoImmediate /\ Reject("invalid_rjump_destination")
       \/ /\ ~JumpsIntoImmediate
          /\ Advance("heights")
          /\ heights' = Append(heights, [p \in 0..CodeSize - 1 |->
                            IF p = 0 THEN OwnType.inputs ELSE LOC_UNVISITED])
          /\ worklist' = <<0>>
          /\ UNCHANGED <<header, validated, code_idx, i, is_returning, rjumpdests,
                         immediates>>

-----------------------------------------------------------------------------
(* validate_max_stack_height: every instruction has one stack height,      *)
(* found by following the code from offset 0.                              *)

\* The instruction on top of the worklist and the height it starts with.
Visited == worklist[Len(worklist)]
Height  == heights[code_idx][Visited]
Callee  == TypeOf(Word16(Visited + 1))

\* stack_height_required, which CALLF, JUMPF and RETF take from the types.
Required ==
    CASE Code(Visited) = OP_CALLF -> to_int8(Callee.inputs)
      [] Code(Visited) = OP_JUMPF ->
            IF Returns(Callee.outputs)
            THEN to_int8(OwnType.outputs + Callee.inputs - Callee.outputs)
            ELSE to_int8(Callee.inputs)
      [] Code(Visited) = OP_RETF -> to_int8(OwnType.outputs)
      [] OTHER -> stack_height_required[Code(Visited)]

\* What CALLF does to the stack.  Mutant: the outputs are forgotten.
Change_kept(inputs, outputs) == to_int8(0 - inputs)
Change(inputs, outputs) == to_int8(outputs - inputs)

HeightAfter ==
    Height + (IF Code(Visited) = OP_CALLF THEN Change(Callee.inputs, Callee.outputs)
                                          ELSE stack_height_change[Code(Visited)])

BadHeight ==
    LET op      == Code(Visited)
        returns == op = OP_JUMPF /\ Returns(Callee.outputs)
    IN  IF /\ op \in {OP_CALLF, OP_JUMPF}
           /\ Height + Callee.max_stack_height - Callee.inputs > StackLimit
        THEN "stack_overflow"
        ELSE IF returns /\ OwnType.outputs < Callee.outputs
             THEN "jumpf_destination_incompatible_outputs"
        ELSE IF (returns /\ Height > Required) \/ (op = OP_RETF /\ Height > OwnType.outputs)
             THEN "stack_higher_than_outputs_required"
        ELSE IF Height < Required THEN "stack_underflow"
        ELSE "none"

\* The successors in the order of validate_successor: the next instruction, unless
\* this one never falls through, then the jump targets.
FallsThrough == Code(Visited) \notin TerminatingOps \cup {OP_RJUMP}
Following    == Visited + ImmediateSize(Visited) + 1
Successors   == (IF FallsThrough THEN <<Following>> ELSE << >>) \o Targets(Visited)

\* The heights once the immediate data of the instruction is marked.
Marked == [p \in 0..CodeSize - 1 |->
              IF p \in (Visited + 1)..(Following - 1) THEN LOC_IMMEDIATE
                                                      ELSE heights[code_idx][p]]

\* Another path came to a successor with another height.  Mutant: no comparison.
Mismatch_never == FALSE
Mismatch ==
    \E k \in DOMAIN Successors : Marked[Successors[k]] \notin {LOC_UNVISITED, HeightAfter}

\* The successors to visit: not visited yet, and each once.  Mutant: the target of a
\* backward jump is visited again.
Fresh_again(succ, k) == Marked[succ[k]] = LOC_UNVISITED \/ succ[k] <= Visited
Fresh(succ, k) ==
    Marked[succ[k]] = LOC_UNVISITED /\ \A j \in 1..k - 1 : succ[j] # succ[k]

\* The worklist once the successors to visit are pushed on what is left of it.
Pushed ==
    LET upto[k \in 0..Len(Successors)] ==
            IF k = 0 THEN SubSeq(worklist, 1, Len(worklist) - 1)
            ELSE IF Fresh(Successors, k) THEN Append(upto[k - 1], Successors[k])
            ELSE upto[k - 1]
    IN  upto[Len(Successors)]

validate_max_stack_height ==
    LET news == {Successors[k] : k \in {j \in DOMAIN Successors : Fresh(Successors, j)}}
    IN  /\ phase = "heights" /\ worklist # << >>
        /\ UNCHANGED parser
        /\ \/ BadHeight # "none" /\ Reject(BadHeight)
           \/ /\ BadHeight = "none" /\ FallsThrough /\ Following >= CodeSize
              /\ Reject("no_terminating_instruction")
           \/ /\ BadHeight = "none" /\ (FallsThrough => Following < CodeSize)
              /\ Mismatch /\ Reject("stack_height_mismatch")
           \/ /\ BadHeight = "none" /\ (FallsThrough => Following < CodeSize) /\ ~Mismatch
              /\ heights' = [heights EXCEPT ![code_idx] =
                                [p \in 0..CodeSize - 1 |->
                                    IF p \in news THEN HeightAfter ELSE Marked[p]]]
              /\ worklist' = Pushed
              /\ Advance(phase)
              /\ UNCHANGED <<header, validated, code_idx, i, is_returning, rjumpdests,
                             immediates>>

\* The section is done; validate_eof1 goes on with the next one or succeeds, and
\* then nothing of the parser's state is left.
HeightsEnd ==
    LET own == heights[code_idx]
        max == CHOOSE h \in {own[p] : p \in DOMAIN own} : \A p \in DOMAIN own : own[p] <= h
    IN  /\ phase = "heights" /\ worklist = << >>
        /\ \/ /\ \E p \in DOMAIN own : own[p] = LOC_UNVISITED
              /\ Reject("unreachable_instructions") /\ UNCHANGED parser
           \/ /\ \A p \in DOMAIN own : own[p] # LOC_UNVISITED
              /\ max # OwnType.max_stack_height
              /\ Reject("invalid_max_stack_height") /\ UNCHANGED parser
           \/ /\ \A p \in DOMAIN own : own[p] # LOC_UNVISITED
              /\ max = OwnType.max_stack_height
              /\ UNCHANGED <<container, machine, validated, heights, worklist,
                             section_id, expected, section_num>>
              /\ i' = 0 /\ is_returning' = FALSE
              /\ rjumpdests' = {} /\ immediates' = {}
              /\ \/ /\ code_idx < Len(header.code_sizes)
                    /\ code_idx' = code_idx + 1 /\ phase' = "instructions"
                    /\ UNCHANGED <<verdict, header, it, state, headers>>
                 \/ /\ code_idx = Len(header.code_sizes)
                    /\ verdict' = "success" /\ phase' = "read"
                    /\ it' = 3 /\ state' = "section_id" /\ headers' = NoHeaders
                    /\ header' = NoHeader /\ UNCHANGED code_idx

-----------------------------------------------------------------------------
(* read_valid_eof1_header: a section header per iteration, its format      *)
(* taken for granted.                                                      *)

SizesAt(p, n) == [k \in 1..n |-> read_uint16_be(p + 2 * (k - 1))]

ReadSection ==
    /\ phase = "read" /\ At(it) # TERMINATOR
    /\ LET id  == At(it)
           num == read_uint16_be(it + 1)
       IN  \/ /\ id = CODE_SECTION
              /\ headers' = [headers EXCEPT ![id] = @ \o SizesAt(it + 3, num)]
              /\ it' = it + 3 + 2 * num
           \/ /\ id # CODE_SECTION
              /\ headers' = [headers EXCEPT ![id] = Append(@, num)]
              /\ it' = it + 3
    /\ UNCHANGED <<container, phase, verdict, state, section_id, expected, section_num,
                   header, validated, section, machine>>

\* Mutant of ReadHeader: the offsets of the code forget the type section.
ReadHeader_short(h) ==
    [Assemble(h) EXCEPT !.code_offsets =
        [k \in DOMAIN @ |-> @[k] - h[TYPE_SECTION][1]]]
ReadHeader(h) == Assemble(h)

\* The header is complete; analyze_eof1 makes the code sections one buffer and
\* dispatch() starts with its first byte.
AnalyzeEof1 ==
    /\ phase = "read" /\ At(it) = TERMINATOR
    /\ header' = ReadHeader(headers)
    /\ phase' = "run"
    /\ pos' = 0 /\ height' = 0 /\ call_stack' = << >>
    /\ calls' = <<[section |-> 1, base |-> 0]>>
    /\ UNCHANGED <<container, verdict, parser, validated, section>>

-----------------------------------------------------------------------------
(* Execution of the code sections.                                         *)

Offset(fid) == header.code_offsets[fid + 1] - header.code_offsets[1]
Executed(p) == At(header.code_offsets[1] + p)
Operand(p)  == read_uint16_be(header.code_offsets[1] + p)
Jump(p)     == read_int16_be(header.code_offsets[1] + p)
opcode      == Executed(pos)

\* check_requirements, but for the gas.
Requirement ==
    IF ~has_const_gas_cost[opcode] /\ eof_cost_tables[PRAGUE][opcode] < 0
    THEN "UNDEFINED_INSTRUCTION"
    ELSE IF stack_height_change[opcode] > 0 /\ height = StackLimit THEN "STACK_OVERFLOW"
    ELSE IF height < stack_height_required[opcode] THEN "STACK_UNDERFLOW"
    ELSE "SUCCESS"

Runs(op) == phase = "run" /\ opcode = op /\ Requirement = "SUCCESS"

Ends ==
    /\ phase' = "done"
    /\ UNCHANGED <<container, verdict, parser, header, validated, section, machine>>

Moves(next, change) ==
    /\ pos' = next /\ height' = height + change
    /\ UNCHANGED <<container, phase, verdict, parser, header, validated, section>>

\* The requirements are not met, the gas does not suffice, the switch has no case.
Fails == phase = "run" /\ Ends

Halts ==
    /\ \E op \in {OP_STOP, OP_RETURN, OP_REVERT, OP_INVALID} : Runs(op)
    /\ Ends

\* Instructions that go to the next one.
Plain ==
    /\ \E op \in MappedOps \ (TerminatingOps \cup {OP_RJUMP, OP_RJUMPI, OP_RJUMPV, OP_CALLF,
                                                   OP_DUPN, OP_SWAPN}) : Runs(op)
    /\ Moves(pos + 1 + immediate_size[opcode], stack_height_change[opcode])
    /\ UNCHANGED <<call_stack, calls>>

\* dupn and swapn check the height their immediate asks for themselves.
Indexed ==
    /\ Runs(OP_DUPN) \/ Runs(OP_SWAPN)
    /\ LET n == Executed(pos + 1) + 1
           enough == IF opcode = OP_DUPN THEN height >= n ELSE height > n
       IN  \/ ~enough /\ Ends
           \/ /\ enough
              /\ Moves(pos + 2, stack_height_change[opcode])
              /\ UNCHANGED <<call_stack, calls>>

rjump ==
    /\ Runs(OP_RJUMP)
    /\ Moves(pos + 3 + Jump(pos + 1), 0)
    /\ UNCHANGED <<call_stack, calls>>

rjumpi ==
    /\ Runs(OP_RJUMPI)
    /\ \/ Moves(pos + 3, -1)
       \/ Moves(pos + 3 + Jump(pos + 1), -1)
    /\ UNCHANGED <<call_stack, calls>>

rjumpv ==
    LET max_index == Executed(pos + 1)
        pc_post   == pos + 2 + (max_index + 1) * 2
    IN  /\ Runs(OP_RJUMPV)
        /\ \/ Moves(pc_post, -1)
           \/ \E case \in 0..max_index : Moves(pc_post + Jump(pos + 2 + case * 2), -1)
        /\ UNCHANGED <<call_stack, calls>>

\* The stack the callee may need on top of what is there.
Overflows(fid) ==
    height + TypeOf(fid).max_stack_height - TypeOf(fid).inputs > StackLimit

\* Mutant of CallStackFull: off by one.
CallStackFull_late == Len(call_stack) > StackLimit
CallStackFull == Len(call_stack) >= StackLimit

callf ==
    LET fid == Operand(pos + 1) IN
    /\ Runs(OP_CALLF)
    /\ \/ (Overflows(fid) \/ CallStackFull) /\ Ends
       \/ /\ ~Overflows(fid) /\ ~CallStackFull
          /\ call_stack' = Append(call_stack, pos + 3)
          /\ calls' = Append(calls, [section |-> fid + 1,
                                     base |-> height - TypeOf(fid).inputs])
          /\ Moves(Offset(fid), 0)

retf ==
    /\ Runs(OP_RETF) /\ call_stack # << >>
    /\ call_stack' = SubSeq(call_stack, 1, Len(call_stack) - 1)
    /\ calls' = SubSeq(calls, 1, Len(calls) - 1)
    /\ Moves(call_stack[Len(call_stack)], 0)

jumpf ==
    LET fid == Operand(pos + 1) IN
    /\ Runs(OP_JUMPF)
    /\ \/ Overflows(fid) /\ Ends
       \/ /\ ~Overflows(fid)
          /\ calls' = [calls EXCEPT ![Len(calls)] =
                          [section |-> fid + 1, base |-> height - TypeOf(fid).inputs]]
          /\ UNCHANGED call_stack
          /\ Moves(Offset(fid), 0)

-----------------------------------------------------------------------------
(* The specification.                                                      *)

Init ==
    /\ container \in Containers /\ phase = "start" /\ verdict = "pending"
    /\ it = 0 /\ state = "section_id" /\ section_id = 0 /\ expected = TYPE_SECTION
    /\ section_num = 0 /\ headers = NoHeaders
    /\ header = NoHeader /\ validated = NoHeader
    /\ code_idx = 1 /\ i = 0 /\ is_returning = FALSE /\ rjumpdests = {}
    /\ immediates = {} /\ heights = << >> /\ worklist = << >>
    /\ pos = 0 /\ height = 0 /\ call_stack = << >> /\ calls = << >>

Validate ==
    \/ validate_eof \/ HeaderId \/ HeaderSize \/ HeaderEnd \/ validate_types
    \/ validate_instructions \/ InstructionsEnd
    \/ validate_rjump_destinations \/ RjumpsEnd
    \/ validate_max_stack_height \/ HeightsEnd

Run == \/ Fails \/ Halts \/ Plain \/ Indexed \/ rjump \/ rjumpi \/ rjumpv
       \/ callf \/ retf \/ jumpf

Finished == phase \in {"rejected", "done"} /\ UNCHANGED vars

Next == Validate \/ ReadSection \/ AnalyzeEof1 \/ Run \/ Finished

Spec == Init /\ [][Next]_vars
FairSpec == Spec /\ WF_vars(Validate)

-----------------------------------------------------------------------------
(* Properties.                                                             *)

\* Every part of the state has its type, and the parts of the section loops are
\* within the section they are about.
TypeOK ==
    /\ phase \in {"start", "headers", "types", "instructions", "rjumps", "heights",
                  "read", "run", "done", "rejected"}
    /\ phase \in {"instructions", "rjumps", "heights"} =>
          /\ code_idx \in DOMAIN header.code_sizes
          /\ immediates \cup rjumpdests \subseteq 0..CodeSize - 1
          /\ {worklist[k] : k \in DOMAIN worklist} \subseteq 0..CodeSize - 1
    /\ height \in 0..StackLimit /\ Len(call_stack) <= StackLimit

\* Neither header parser reads past the end of the container: the validator checks
\* before it reads, and read_valid_eof1_header, which never checks, follows it.
ReadsInside == it <= Len(container)

\* Of a valid container the unchecked parser finds the header the validator checked,
\* and types, code sections and data then take up the container to its last byte.
ParsersAgree ==
    phase = "run" =>
        /\ header = validated
        /\ header.code_offsets[1] + Total(header.code_sizes, Len(header.code_sizes))
             + header.data_size = Len(container)

\* Running valid code, dispatch() never meets an undefined instruction, and the
\* stack is never too low or too high for an instruction: only the handlers
\* of CALLF, JUMPF, DUPN and SWAPN and the gas can end it early.
RequirementsMet == phase = "run" => Requirement = "SUCCESS"

\* Where the instructions of a section start.
Starts(k) ==
    LET byte(p)   == At(header.code_offsets[k] + p)
        length(p) == 1 + immediate_size[byte(p)]
                       + (IF byte(p) = OP_RJUMPV THEN (byte(p + 1) + 1) * 2 ELSE 0)
        start[p \in 0..header.code_sizes[k] - 1] ==
            p = 0 \/ \E q \in 0..p - 1 : start[q] /\ q + length(q) = p
    IN  {p \in 0..header.code_sizes[k] - 1 : start[p]}

\* Running valid code, the program counter is always at the start of an instruction
\* of the section that was called, never in immediate data or past its end.
OnInstruction ==
    phase = "run" =>
        LET c == calls[Len(calls)] IN pos - Offset(c.section - 1) \in Starts(c.section)

\* Running valid code, the stack is as high above its base as the validator found
\* for this instruction, on whatever path and after whatever calls it is reached.
HeightsAsValidated ==
    phase = "run" =>
        LET c == calls[Len(calls)]
        IN  height - c.base = heights[c.section][pos - Offset(c.section - 1)]

\* Running valid code, the handlers that look at nothing before they read find what
\* they read: RETF a return address on the call stack, CALLF and JUMPF a section of
\* the header, DATALOADN a whole word of the data section.
UncheckedAccessSafe ==
    phase = "run" =>
        /\ opcode = OP_RETF => call_stack # << >>
        /\ opcode \in {OP_CALLF, OP_JUMPF} => Operand(pos + 1) < Len(header.types)
        /\ opcode = OP_DATALOADN => Operand(pos + 1) + WordSize <= header.data_size

\* validate_eof() returns for every container, loops of relative jumps included.
ValidationTerminates == <>(verdict # "pending")

=============================================================================
