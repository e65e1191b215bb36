----------------------------- MODULE EofProofs -----------------------------
(***************************************************************************)
(* What validate_eof() promises and the execution relies on, for every     *)
(* container and all limits: the parsers stay inside the container and     *)
(* agree on its header, and valid code runs from instruction to            *)
(* instruction with the stack heights that the validator found.            *)
(***************************************************************************)
EXTENDS EofCode, WalkProofs, NaturalsInduction, WellFoundedInduction, SequenceTheorems

-----------------------------------------------------------------------------
(* A container and a code section of it, as values.                        *)

\* At, read_uint16_be and read_int16_be of a container c.
Get(c, p)   == IF p < Len(c) THEN c[p + 1] ELSE 0
Get16(c, p) == Get(c, p) * 256 + Get(c, p + 1)

\* The bytes of section k of the header v.
CodeOf(c, v, k) == [p \in Nat |-> Get(c, v.code_offsets[k] + p)]

\* The words in a code, the size of the immediate data at p and where the next
\* instruction is.
WordOf(b, p)   == b[p] * 256 + b[p + 1]
OffsetOf(b, p) == IF WordOf(b, p) >= 32768 THEN WordOf(b, p) - 65536 ELSE WordOf(b, p)
DataOf(b, p)   ==
    immediate_size[b[p]] + (IF b[p] = OP_RJUMPV THEN (b[p + 1] + 1) * 2 ELSE 0)
After(b, p)    == p + DataOf(b, p) + 1

\* The instructions of a code of n bytes: the least set that holds the first byte
\* and, with an instruction, the next one.
ClosedUnderAfter(b, n, S) == 0 \in S /\ \A p \in S : After(b, p) < n => After(b, p) \in S
StartsOf(b, n) ==
    {p \in 0..n - 1 : \A S \in SUBSET (0..n - 1) : ClosedUnderAfter(b, n, S) => p \in S}

\* A loop over the instructions may stand at s.
WalkedTo(b, n, s) ==
    /\ s < n => s \in StartsOf(b, n)
    /\ \A p \in StartsOf(b, n) : p < s => After(b, p) <= s

\* The destinations of the relative jump at p.
Dests(b, p) ==
    IF b[p] \in {OP_RJUMP, OP_RJUMPI} THEN {p + 3 + OffsetOf(b, p + 1)}
    ELSE IF b[p] = OP_RJUMPV
    THEN {p + 1 + DataOf(b, p) + OffsetOf(b, p + 2 * j) : j \in 1..b[p + 1] + 1}
    ELSE {}

-----------------------------------------------------------------------------
(* What the validator establishes.                                         *)

\* A header that validate_types accepts.
TypeRecord == [inputs : Nat, outputs : Nat, max_stack_height : Nat]
WellFormed(v) ==
    LET n == Len(v.code_sizes) IN
    /\ n \in 1..SectionLimit
    /\ v.code_sizes \in [1..n -> Nat \ {0}] /\ v.code_offsets \in [1..n -> Nat]
    /\ v.data_size \in Nat
    /\ v.types \in [1..n -> TypeRecord]
    /\ \A k \in 1..n :
          /\ v.types[k].inputs <= InOutLimit
          /\ v.types[k].outputs <= InOutLimit \/ v.types[k].outputs = NON_RETURNING_FUNCTION
          /\ v.types[k].max_stack_height <= MAX_STACK_HEIGHT
    /\ v.types[1].inputs = 0 /\ v.types[1].outputs = NON_RETURNING_FUNCTION

\* The instruction at p passed validate_instructions.
Checked(b, n, v, p) ==
    /\ b[p] \in Byte /\ eof_cost_tables[PRAGUE][b[p]] # undefined
    /\ After(b, p) <= n
    /\ b[p] \in {OP_CALLF, OP_JUMPF} => WordOf(b, p + 1) < Len(v.types)
    /\ b[p] = OP_CALLF => Returns(v.types[WordOf(b, p + 1) + 1].outputs)
    /\ b[p] = OP_DATALOADN => WordOf(b, p + 1) + WordSize <= v.data_size

\* It is a RETF or a JUMPF that returns for the function.
ReturnsBy(b, v, p) ==
    \/ b[p] = OP_RETF
    \/ b[p] = OP_JUMPF /\ Returns(v.types[WordOf(b, p + 1) + 1].outputs)

\* It passed validate_max_stack_height, in a section of type own with heights H.
Settled(b, n, v, own, H, p) ==
    LET op     == b[p]
        callee == v.types[WordOf(b, p + 1) + 1]
        change == IF op = OP_CALLF THEN callee.outputs - callee.inputs
                                   ELSE stack_height_change[op]
    IN  /\ H[p] >= stack_height_required[op]
        /\ op \in {OP_CALLF, OP_JUMPF} => H[p] >= callee.inputs
        /\ op = OP_JUMPF /\ Returns(callee.outputs) =>
               H[p] = own.outputs + callee.inputs - callee.outputs
        /\ op = OP_RETF => H[p] = own.outputs
        /\ op \notin TerminatingOps \cup {OP_RJUMP} =>
               After(b, p) < n /\ H[After(b, p)] = H[p] + change
        /\ \A d \in Dests(b, p) : H[d] = H[p] + stack_height_change[op]

\* Every instruction passed the first loop, and the second one.
InstructionsOk(b, n, v, own) ==
    \A p \in StartsOf(b, n) :
        Checked(b, n, v, p) /\ (ReturnsBy(b, v, p) => Returns(own.outputs))
JumpsOk(b, n) == \A p \in StartsOf(b, n) : Dests(b, p) \subseteq StartsOf(b, n)

\* Section k is valid, with stack heights H.
SectionOk(c, v, k, H) ==
    LET b   == CodeOf(c, v, k)
        n   == v.code_sizes[k]
        own == v.types[k]
    IN  /\ InstructionsOk(b, n, v, own) /\ JumpsOk(b, n)
        /\ H[0] = own.inputs
        /\ \A p \in StartsOf(b, n) :
               H[p] \in 0..own.max_stack_height /\ Settled(b, n, v, own, H, p)

-----------------------------------------------------------------------------
(* The inductive invariant, phase by phase.                                *)

\* The section headers, read from the front of a container.
TypeHeader(c, h)  == Get(c, 3) = TYPE_SECTION /\ h[TYPE_SECTION] = <<Get16(c, 4)>>
CodeHeader(c, h, num, m) ==
    /\ Get(c, 6) = CODE_SECTION /\ num = Get16(c, 7) /\ num \in 1..SectionLimit
    /\ h[CODE_SECTION] \in [1..m -> Nat \ {0}]
    /\ \A j \in 1..m : h[CODE_SECTION][j] = Get16(c, 9 + 2 * (j - 1))
DataHeader(c, h, num) ==
    Get(c, 9 + 2 * num) = DATA_SECTION /\ h[DATA_SECTION] = <<Get16(c, 10 + 2 * num)>>

\* Where validate_eof_headers may stand.
AtType == /\ state = "section_id" /\ expected = TYPE_SECTION /\ it = 3
          /\ headers = NoHeaders
InType == /\ state = "section_size" /\ section_id = TYPE_SECTION /\ expected = CODE_SECTION
          /\ it = 4 /\ Get(container, 3) = TYPE_SECTION /\ headers = NoHeaders
AtCode == /\ state = "section_id" /\ expected = CODE_SECTION /\ it = 6
          /\ TypeHeader(container, headers)
          /\ headers[CODE_SECTION] = << >> /\ headers[DATA_SECTION] = << >>
InCode == /\ state = "section_size" /\ section_id = CODE_SECTION /\ expected = DATA_SECTION
          /\ it = 9 + 2 * Len(headers[CODE_SECTION])
          /\ TypeHeader(container, headers)
          /\ CodeHeader(container, headers, section_num, Len(headers[CODE_SECTION]))
          /\ Len(headers[CODE_SECTION]) < section_num /\ headers[DATA_SECTION] = << >>
AtData == /\ state = "section_id" /\ expected = DATA_SECTION /\ it = 9 + 2 * section_num
          /\ TypeHeader(container, headers)
          /\ CodeHeader(container, headers, section_num, section_num)
          /\ headers[DATA_SECTION] = << >>
InData == /\ state = "section_size" /\ section_id = DATA_SECTION /\ expected = TERMINATOR
          /\ it = 10 + 2 * section_num
          /\ TypeHeader(container, headers)
          /\ CodeHeader(container, headers, section_num, section_num)
          /\ Get(container, 9 + 2 * section_num) = DATA_SECTION
          /\ headers[DATA_SECTION] = << >>
AtEnd  == /\ state = "section_id" /\ expected = TERMINATOR /\ it = 12 + 2 * section_num
          /\ TypeHeader(container, headers)
          /\ CodeHeader(container, headers, section_num, section_num)
          /\ DataHeader(container, headers, section_num)
Ended  == /\ state = "terminated" /\ it = 13 + 2 * section_num
          /\ TypeHeader(container, headers)
          /\ CodeHeader(container, headers, section_num, section_num)
          /\ DataHeader(container, headers, section_num)
          /\ Get(container, 12 + 2 * section_num) = TERMINATOR

HeadersInv ==
    /\ headers \in [{TYPE_SECTION, CODE_SECTION, DATA_SECTION} -> Seq(Nat)]
    /\ AtType \/ InType \/ AtCode \/ InCode \/ AtData \/ InData \/ AtEnd \/ Ended

\* The section headers and the header as they lie in a container c.
HeadersOf(v) == [id \in {TYPE_SECTION, CODE_SECTION, DATA_SECTION} |->
    IF id = TYPE_SECTION THEN <<4 * Len(v.code_sizes)>>
    ELSE IF id = CODE_SECTION THEN v.code_sizes ELSE <<v.data_size>>]

TypesIn(c, offset, size) ==
    [k \in 1..(size + 3) \div 4 |->
        [inputs |-> Get(c, offset + 4 * (k - 1)), outputs |-> Get(c, offset + 4 * (k - 1) + 1),
         max_stack_height |-> Get16(c, offset + 4 * (k - 1) + 2)]]
AssembleIn(c, h) ==
    [version |-> Get(c, 2), code_sizes |-> h[CODE_SECTION], code_offsets |-> CodeOffsets(h),
     data_size |-> h[DATA_SECTION][1],
     types |-> TypesIn(c, eof_header_size(h), h[TYPE_SECTION][1])]

Laid(c, v) ==
    LET n == Len(v.code_sizes) IN
    /\ v = AssembleIn(c, HeadersOf(v))
    /\ TypeHeader(c, HeadersOf(v)) /\ CodeHeader(c, HeadersOf(v), n, n)
    /\ DataHeader(c, HeadersOf(v), n) /\ Get(c, 12 + 2 * n) = TERMINATOR
    /\ 13 + 2 * n <= Len(c)
    /\ v.code_offsets[1] + Total(v.code_sizes, n) + v.data_size = Len(c)

\* The heights of a section, by offset.
HeightMaps == UNION {[0..m - 1 -> Int] : m \in Nat}

\* The sections before the one that is validated are valid.
Before(last) ==
    /\ WellFormed(validated) /\ Laid(container, validated)
    /\ \A k \in 1..last : SectionOk(container, validated, k, heights[k])

SectionInv ==
    LET b   == CodeOf(container, validated, code_idx)
        n   == validated.code_sizes[code_idx]
        own == validated.types[code_idx]
    IN  /\ code_idx \in 1..Len(validated.code_sizes) /\ header = validated
        /\ Before(code_idx - 1) /\ heights \in Seq(HeightMaps)
        /\ phase # "heights" => worklist = << >> /\ Len(heights) = code_idx - 1
                                /\ i \in Nat /\ WalkedTo(b, n, i)
        /\ phase = "instructions" =>
              /\ immediates = {} /\ rjumpdests = {} /\ is_returning \in BOOLEAN
              /\ \A p \in StartsOf(b, n) :
                    p < i => Checked(b, n, validated, p)
                             /\ (ReturnsBy(b, validated, p) => is_returning)
        /\ phase # "instructions" =>
              /\ InstructionsOk(b, n, validated, own)
              /\ immediates \cup rjumpdests \subseteq 0..n - 1
        /\ phase = "rjumps" =>
              /\ \A p \in StartsOf(b, n) : p < i => Dests(b, p) \subseteq rjumpdests
              /\ \A x \in 0..n - 1 : x < i => x \in StartsOf(b, n) \/ x \in immediates
        /\ phase = "heights" =>
              /\ JumpsOk(b, n)
              /\ Len(heights) = code_idx /\ heights[code_idx] \in [0..n - 1 -> Int]
              /\ heights[code_idx][0] = own.inputs
              /\ worklist \in Seq(StartsOf(b, n))
              /\ \A j \in 1..Len(worklist) : heights[code_idx][worklist[j]] \in Nat
              /\ \A p \in StartsOf(b, n) :
                    \/ heights[code_idx][p] = LOC_UNVISITED
                    \/ /\ heights[code_idx][p] \in Nat
                       /\ \/ \E j \in 1..Len(worklist) : worklist[j] = p
                          \/ Settled(b, n, validated, own, heights[code_idx], p)

\* Where read_valid_eof1_header may stand.
ReadInv ==
    LET n == Len(validated.code_sizes)
        h == HeadersOf(validated)
    IN  /\ Before(n)
        /\ \/ it = 3 /\ headers = NoHeaders
           \/ it = 6 /\ headers = [NoHeaders EXCEPT ![TYPE_SECTION] = h[TYPE_SECTION]]
           \/ it = 9 + 2 * n /\ headers = [h EXCEPT ![DATA_SECTION] = << >>]
           \/ it = 12 + 2 * n /\ headers = h

\* The functions that are running: each has its place on the stack, and will find the
\* stack as its section's heights say when the function it called returns.
FrameOk(v, call) ==
    /\ call.section \in 1..Len(v.code_sizes) /\ call.base \in Nat
    /\ call.base + v.types[call.section].max_stack_height <= StackLimit
StandsAt(c, v, H, call, p, h) ==
    LET r == p - (v.code_offsets[call.section] - v.code_offsets[1])
    IN  /\ r \in StartsOf(CodeOf(c, v, call.section), v.code_sizes[call.section])
        /\ h = call.base + H[call.section][r]

RunInv ==
    LET v     == validated
        depth == Len(call_stack)
    IN  /\ header = v /\ Before(Len(v.code_sizes)) /\ pos \in Int
        /\ Len(calls) = depth + 1 /\ calls \in Seq([section : Nat, base : Int])
        /\ \A n \in 1..depth + 1 : FrameOk(v, calls[n])
        /\ ~ Returns(v.types[calls[1].section].outputs)
        /\ \A n \in 1..depth :
              LET outputs == v.types[calls[n + 1].section].outputs
              IN  Returns(outputs) =>
                      StandsAt(container, v, heights, calls[n], call_stack[n],
                               calls[n + 1].base + outputs)
        /\ StandsAt(container, v, heights, calls[depth + 1], pos, height)

\* What holds in every phase.
Bounds ==
    /\ container \in Seq(Byte) /\ it \in Nat /\ it <= Len(container)
    /\ height \in 0..StackLimit /\ call_stack \in Seq(Int) /\ Len(call_stack) <= StackLimit

IInv ==
    /\ Bounds
    /\ phase \in {"start", "headers", "types", "instructions", "rjumps", "heights",
                  "read", "run", "done", "rejected"}
    /\ phase = "start" => state = "section_id" /\ expected = TYPE_SECTION
                          /\ headers = NoHeaders
    /\ phase \in {"start", "headers", "types"} =>
          /\ rjumpdests = {} /\ immediates = {} /\ heights = << >> /\ worklist = << >>
    /\ phase = "headers" => HeadersInv
    /\ phase = "types" =>
          /\ HeadersInv /\ Ended /\ BodiesSize = Len(container) - it
          /\ headers[TYPE_SECTION][1] = section_num * 4
    /\ phase \in {"instructions", "rjumps", "heights"} => SectionInv
    /\ phase = "read" => ReadInv
    /\ phase = "run" => RunInv

-----------------------------------------------------------------------------
(* Bytes, words and the next instruction.                                  *)

\* A byte of a container, and a word of it.
LEMMA GetType ==
    ASSUME NEW c \in Seq(Byte), NEW p \in Nat
    PROVE  Get(c, p) \in Byte /\ Get(c, p) \in Nat /\ Get16(c, p) \in Nat
<1>1. ASSUME NEW q \in Nat PROVE Get(c, q) \in 0..255
  <2>1. CASE q < Len(c)
    <3>1. q + 1 \in 1..Len(c)
      BY <2>1
    <3>2. c[q + 1] \in Byte
      BY <3>1
    <3> QED  BY <2>1, <3>2 DEF Get, Byte
  <2>2. CASE ~ (q < Len(c))
    BY <2>2 DEF Get
  <2> QED  BY <2>1, <2>2
<1> DEFINE x == Get(c, p)
           y == Get(c, p + 1)
<1>2. x \in 0..255 /\ y \in 0..255
  BY <1>1
<1> HIDE DEF x, y
<1>3. x * 256 + y \in Nat /\ x \in Nat
  BY <1>2
<1> QED  BY <1>2, <1>3 DEF Get16, Byte, x, y

\* The code of a section is made of bytes.
LEMMA CodeType ==
    ASSUME NEW c \in Seq(Byte), NEW v, NEW k, v.code_offsets[k] \in Nat
    PROVE  /\ CodeOf(c, v, k) \in [Nat -> Byte]
           /\ \A p \in Nat : CodeOf(c, v, k)[p] = Get(c, v.code_offsets[k] + p)
<1>1. \A p \in Nat : v.code_offsets[k] + p \in Nat
  OBVIOUS
<1>2. \A p \in Nat : Get(c, v.code_offsets[k] + p) \in Byte
  BY <1>1, GetType
<1> QED  BY <1>2 DEF CodeOf

\* A word of a code, what it stands for as an offset, and the next instruction.
LEMMA CodeFacts ==
    ASSUME NEW b \in [Nat -> Byte], NEW p \in Nat
    PROVE  /\ b[p] \in Byte /\ WordOf(b, p) \in Nat /\ OffsetOf(b, p) \in Int
           /\ DataOf(b, p) \in Nat /\ After(b, p) \in Nat /\ After(b, p) > p
           /\ \A d \in Dests(b, p) : d \in Int
<1>1. \A q \in Nat : b[q] \in 0..255
  BY DEF Byte
<1>2. \A q \in Nat : WordOf(b, q) \in Nat
  <2> SUFFICES ASSUME NEW q \in Nat PROVE WordOf(b, q) \in Nat
    OBVIOUS
  <2> DEFINE x == b[q]
             y == b[q + 1]
  <2>1. x \in 0..255 /\ y \in 0..255
    BY <1>1
  <2> HIDE DEF x, y
  <2>2. x * 256 + y \in Nat
    BY <2>1
  <2> QED  BY <2>2 DEF WordOf, x, y
<1>3. \A q \in Nat : OffsetOf(b, q) \in Int
  <2> SUFFICES ASSUME NEW q \in Nat PROVE OffsetOf(b, q) \in Int
    OBVIOUS
  <2> DEFINE w == WordOf(b, q)
  <2>1. w \in Nat
    BY <1>2
  <2> HIDE DEF w
  <2>2. (IF w >= 32768 THEN w - 65536 ELSE w) \in Int
    BY <2>1
  <2> QED  BY <2>2 DEF OffsetOf, w
<1>4. immediate_size[b[p]] \in 0..32
  BY ImmediateSizes
<1>5. DataOf(b, p) \in Nat
  <2>1. b[p + 1] \in 0..255
    BY <1>1
  <2> DEFINE m == immediate_size[b[p]]
  <2> DEFINE cases == b[p + 1]
  <2>2. m \in 0..32 /\ cases \in 0..255
    BY <1>4, <2>1
  <2> HIDE DEF m, cases
  <2>3. m + (cases + 1) * 2 \in Nat /\ m + 0 \in Nat
    BY <2>2
  <2> QED  BY <2>3 DEF DataOf, m, cases
<1>6. After(b, p) \in Nat /\ After(b, p) > p
  BY <1>5 DEF After
<1>7. ASSUME NEW d \in Dests(b, p) PROVE d \in Int
  <2>1. CASE b[p] \in {OP_RJUMP, OP_RJUMPI}
    <3>1. d = p + 3 + OffsetOf(b, p + 1) /\ OffsetOf(b, p + 1) \in Int
      BY <1>3, <1>7, <2>1 DEF Dests
    <3> QED  BY <3>1
  <2>2. CASE b[p] \notin {OP_RJUMP, OP_RJUMPI}
    <3>1. PICK j \in 1..b[p + 1] + 1 : d = p + 1 + DataOf(b, p) + OffsetOf(b, p + 2 * j)
      BY <1>7, <2>2 DEF Dests
    <3>2. p + 2 * j \in Nat /\ OffsetOf(b, p + 2 * j) \in Int
      BY <1>1, <1>3
    <3> QED  BY <1>5, <3>1, <3>2
  <2> QED  BY <2>1, <2>2
<1> QED  BY <1>1, <1>2, <1>3, <1>5, <1>6, <1>7 DEF Byte

-----------------------------------------------------------------------------
(* Where the instructions of a code are.                                   *)

\* An instruction is a position of the code; the first byte is one.
LEMMA StartFacts ==
    ASSUME NEW b \in [Nat -> Byte], NEW n \in Nat \ {0}
    PROVE  StartsOf(b, n) \subseteq 0..n - 1 /\ 0 \in StartsOf(b, n)
BY DEF StartsOf, ClosedUnderAfter

\* The instruction after an instruction is one.
LEMMA AfterStart ==
    ASSUME NEW b \in [Nat -> Byte], NEW n \in Nat \ {0}, NEW p \in StartsOf(b, n),
           After(b, p) < n
    PROVE  After(b, p) \in StartsOf(b, n)
<1> DEFINE next == After(b, p)
<1>1. next \in 0..n - 1
  <2>1. p \in Nat
    BY StartFacts
  <2>2. next \in Nat /\ next < n
    BY <2>1, CodeFacts
  <2> HIDE DEF next
  <2> QED  BY <2>2
<1>2. ASSUME NEW S \in SUBSET (0..n - 1), ClosedUnderAfter(b, n, S)
      PROVE  After(b, p) \in S
  <2>1. p \in S
    BY <1>2 DEF StartsOf
  <2> QED  BY <1>2, <2>1 DEF ClosedUnderAfter
<1> QED  BY <1>1, <1>2 DEF StartsOf

\* Every closed set holds all the instructions.
LEMMA LeastStarts ==
    ASSUME NEW b, NEW n, NEW S \in SUBSET (0..n - 1), ClosedUnderAfter(b, n, S)
    PROVE  StartsOf(b, n) \subseteq S
BY DEF StartsOf

\* The loops start at the first byte.
LEMMA WalkedToStart ==
    ASSUME NEW b \in [Nat -> Byte], NEW n \in Nat \ {0} PROVE WalkedTo(b, n, 0)
<1>1. \A p \in StartsOf(b, n) : ~ (p < 0)
  BY StartFacts
<1> QED  BY <1>1, StartFacts DEF WalkedTo

\* A loop that goes from an instruction to the next one skips none.
LEMMA WalkedOn ==
    ASSUME NEW b \in [Nat -> Byte], NEW n \in Nat \ {0}, NEW s \in Nat, s < n,
           WalkedTo(b, n, s)
    PROVE  /\ s \in StartsOf(b, n) /\ WalkedTo(b, n, After(b, s))
           /\ \A p \in StartsOf(b, n) : p < After(b, s) => p <= s
<1> DEFINE next == After(b, s)
           kept == {p \in StartsOf(b, n) : p <= s \/ p >= next}
<1>1. s \in StartsOf(b, n) /\ next \in Nat /\ next > s
  BY CodeFacts DEF WalkedTo
<1>2. ASSUME NEW p \in kept, After(b, p) < n PROVE After(b, p) \in kept
  <2>1. p \in StartsOf(b, n) /\ p \in Nat /\ (p <= s \/ p >= next)
    BY StartFacts
  <2>2. /\ After(b, p) \in Nat /\ After(b, p) > p
        /\ After(b, p) \in StartsOf(b, n)
    BY <1>2, <2>1, CodeFacts, AfterStart
  <2>3. p < s => After(b, p) <= s
    BY <2>1 DEF WalkedTo
  <2>4. p = s => After(b, p) = next
    OBVIOUS
  <2> QED  BY <1>1, <2>1, <2>2, <2>3, <2>4
<1>3. ClosedUnderAfter(b, n, kept)
  <2>1. 0 \in kept
    BY StartFacts
  <2> QED  BY <1>2, <2>1 DEF ClosedUnderAfter
<1>4. kept \in SUBSET (0..n - 1)
  BY StartFacts
<1>5. StartsOf(b, n) \subseteq kept
  BY <1>3, <1>4, LeastStarts
<1>6. ASSUME NEW p \in StartsOf(b, n), p < next PROVE p <= s
  <2>1. p \in Nat /\ (p <= s \/ p >= next)
    BY <1>5, StartFacts
  <2> QED  BY <1>1, <1>6, <2>1
<1>7. ASSUME NEW p \in StartsOf(b, n), p < next PROVE After(b, p) <= next
  <2>1. p \in Nat /\ p <= s /\ After(b, p) \in Nat
    BY <1>6, <1>7, StartFacts, CodeFacts
  <2>2. p < s => After(b, p) <= s
    BY DEF WalkedTo
  <2> QED  BY <1>1, <2>1, <2>2
<1>8. next < n => next \in StartsOf(b, n)
  BY <1>1, AfterStart
<1> QED  BY <1>1, <1>6, <1>7, <1>8 DEF WalkedTo

\* No instruction starts in the immediate data of another.
LEMMA StartsApart ==
    ASSUME NEW b \in [Nat -> Byte], NEW n \in Nat \ {0}, NEW s \in StartsOf(b, n)
    PROVE  WalkedTo(b, n, s) /\ \A p \in StartsOf(b, n) : p < After(b, s) => p <= s
<1> DEFINE reached == {p \in StartsOf(b, n) : WalkedTo(b, n, p)}
<1>1. 0 \in reached
  BY WalkedToStart, StartFacts
<1>2. ASSUME NEW p \in reached, After(b, p) < n PROVE After(b, p) \in reached
  <2>1. p \in Nat /\ p < n /\ p \in StartsOf(b, n) /\ WalkedTo(b, n, p)
    BY StartFacts
  <2> QED  BY <1>2, <2>1, WalkedOn, AfterStart
<1>3. reached \in SUBSET (0..n - 1)
  BY StartFacts
<1>4. StartsOf(b, n) \subseteq reached
  BY <1>1, <1>2, <1>3, LeastStarts DEF ClosedUnderAfter
<1>5. s \in Nat /\ s < n /\ WalkedTo(b, n, s)
  BY <1>4, StartFacts
<1> QED  BY <1>5, WalkedOn

\* A set of naturals that is not empty has a least member.
LEMMA LeastNatural ==
    ASSUME NEW S \in SUBSET Nat, S # {}
    PROVE  \E m \in S : \A k \in S : m <= k
<1> DEFINE smaller == OpToRel(<, Nat)
<1>1. smaller = {pair \in Nat \X Nat : pair[1] < pair[2]}
  BY Zenon DEF OpToRel
<1>2. PICK m \in S : \A k \in S : ~ (<<k, m>> \in smaller)
  BY NatLessThanWellFounded, WFMin
<1>3. ASSUME NEW k \in S, ~ (m <= k) PROVE FALSE
  <2> HIDE DEF smaller
  <2>1. <<k, m>> \in Nat \X Nat /\ k < m
    BY <1>3
  <2> QED  BY <1>1, <1>2, <2>1
<1> QED  BY <1>3

\* What it means for an instruction to start at p, other than as the first one.
LEMMA StartBefore ==
    ASSUME NEW b \in [Nat -> Byte], NEW n \in Nat \ {0}, NEW p \in 0..n - 1
    PROVE  p \in StartsOf(b, n) <=>
               p = 0 \/ \E q \in 0..p - 1 : q \in StartsOf(b, n) /\ After(b, q) = p
<1>1. p \in Nat /\ p < n
  OBVIOUS
<1>2. ASSUME NEW q \in 0..p - 1, q \in StartsOf(b, n), After(b, q) = p
      PROVE  p \in StartsOf(b, n)
  BY <1>1, <1>2, AfterStart
<1>3. ASSUME p \in StartsOf(b, n), p # 0,
             ~ \E q \in 0..p - 1 : q \in StartsOf(b, n) /\ After(b, q) = p
      PROVE  FALSE
  <2> DEFINE kept == StartsOf(b, n) \ {p}
  <2>1. 0 \in kept
    BY <1>3, StartFacts
  <2>2. ASSUME NEW q \in kept, After(b, q) < n PROVE After(b, q) \in kept
    <3>1. q \in StartsOf(b, n) /\ q \in Nat /\ After(b, q) \in StartsOf(b, n)
      BY <2>2, StartFacts, AfterStart
    <3>2. After(b, q) \in Nat /\ After(b, q) > q
      BY <3>1, CodeFacts
    <3>3. After(b, q) # p
      BY <1>1, <1>3, <3>1, <3>2
    <3> QED  BY <3>1, <3>3
  <2>3. kept \in SUBSET (0..n - 1)
    BY StartFacts
  <2>4. StartsOf(b, n) \subseteq kept
    BY <2>1, <2>2, <2>3, LeastStarts DEF ClosedUnderAfter
  <2> QED  BY <1>3, <2>4
<1> QED  BY <1>2, <1>3, StartFacts

\* The instructions of OnInstruction, found from the front, are these.
LEMMA StartsMatch ==
    ASSUME container \in Seq(Byte), NEW k, header.code_offsets[k] \in Nat,
           header.code_sizes[k] \in Nat \ {0}
    PROVE  Starts(k) = StartsOf(CodeOf(container, header, k), header.code_sizes[k])
<1> DEFINE n == header.code_sizes[k]
           b == CodeOf(container, header, k)
           byte(p)    == At(header.code_offsets[k] + p)
           length(p)  == 1 + immediate_size[byte(p)]
                           + (IF byte(p) = OP_RJUMPV THEN (byte(p + 1) + 1) * 2 ELSE 0)
           Term(f, p) == p = 0 \/ \E q \in 0..p - 1 : f[q] /\ q + length(q) = p
           start      == CHOOSE f : f = [p \in 0..n - 1 |-> Term(f, p)]
           found      == {p \in 0..n - 1 : start[p]}
<1>1. Starts(k) = found
  BY DEF Starts
<1>2. b \in [Nat -> Byte] /\ n \in Nat \ {0}
  BY CodeType
<1>3. ASSUME NEW q \in Nat PROVE q + length(q) = After(b, q)
  <2>1. byte(q) = b[q] /\ byte(q + 1) = b[q + 1]
    <3>1. b[q] = Get(container, header.code_offsets[k] + q)
          /\ b[q + 1] = Get(container, header.code_offsets[k] + (q + 1))
      BY CodeType
    <3> QED  BY <3>1 DEF At, Get
  <2> DEFINE m == immediate_size[b[q]]
             r == b[q + 1]
             x == IF b[q] = OP_RJUMPV THEN (r + 1) * 2 ELSE 0
  <2>2. m \in 0..32 /\ r \in 0..255
    <3> HIDE DEF b
    <3>1. b[q] \in Byte /\ b[q + 1] \in Byte
      BY <1>2
    <3> QED  BY <3>1, ImmediateSizes DEF Byte
  <2>3. x \in Nat
    <3> HIDE DEF r
    <3>1. (r + 1) * 2 \in Nat
      BY <2>2
    <3> QED  BY <3>1
  <2>4. q + length(q) = q + (1 + m + x) /\ After(b, q) = q + (m + x) + 1
    BY <2>1 DEF After, DataOf
  <2> HIDE DEF m, r, x
  <2>5. q + (1 + m + x) = q + (m + x) + 1
    BY <2>2, <2>3
  <2> QED  BY <2>4, <2>5
<1> HIDE DEF b, n, length, byte
<1>4. \E f : f = [p \in 0..n - 1 |-> Term(f, p)]
  <2> DEFINE f == [p \in 0..n - 1 |-> p \in StartsOf(b, n)]
  <2>1. ASSUME NEW p \in 0..n - 1 PROVE (p \in StartsOf(b, n)) <=> Term(f, p)
    <3>1. \A q \in 0..p - 1 : q \in 0..n - 1 /\ q \in Nat
      BY <1>2
    <3>2. \A q \in 0..p - 1 : f[q] <=> q \in StartsOf(b, n)
      BY <3>1
    <3> HIDE DEF f
    <3>3. Term(f, p) <=> p = 0 \/ \E q \in 0..p - 1 : q \in StartsOf(b, n) /\ After(b, q) = p
      BY <1>3, <3>1, <3>2
    <3> QED  BY <1>2, <3>3, StartBefore
  <2>2. f = [p \in 0..n - 1 |-> Term(f, p)]
    <3>1. \A p \in 0..n - 1 : (p \in StartsOf(b, n)) = Term(f, p)
      BY <2>1
    <3> QED  BY <3>1
  <2> QED  BY <2>2
<1>5. start = [p \in 0..n - 1 |-> Term(start, p)]
  <2> DEFINE Value(f) == f = [p \in 0..n - 1 |-> Term(f, p)]
  <2>1. \E f : Value(f)
    BY <1>4
  <2> HIDE DEF Value
  <2>2. Value(CHOOSE f : Value(f))
    BY <2>1
  <2> QED  BY <2>2 DEF Value
<1> HIDE DEF start
<1>6. \A p \in 0..n - 1 : start[p] <=> Term(start, p)
  BY <1>5
<1>7. StartsOf(b, n) \subseteq found
  <2>1. 0 \in found
    BY <1>2, <1>6
  <2>2. ASSUME NEW q \in found, After(b, q) < n PROVE After(b, q) \in found
    <3>1. q \in 0..n - 1 /\ q \in Nat /\ start[q]
      OBVIOUS
    <3>2. After(b, q) \in Nat /\ After(b, q) > q
      BY <1>2, <3>1, CodeFacts
    <3>3. After(b, q) \in 0..n - 1 /\ q \in 0..After(b, q) - 1
      BY <1>2, <2>2, <3>1, <3>2
    <3>4. q + length(q) = After(b, q)
      BY <1>3, <3>1
    <3> QED  BY <1>6, <3>1, <3>3, <3>4
  <2>3. found \in SUBSET (0..n - 1)
    OBVIOUS
  <2> QED  BY <2>1, <2>2, <2>3, LeastStarts DEF ClosedUnderAfter
<1>8. found \subseteq StartsOf(b, n)
  <2> DEFINE wrong == found \ StartsOf(b, n)
  <2> SUFFICES ASSUME wrong # {} PROVE FALSE
    OBVIOUS
  <2>1. PICK p \in wrong : \A q \in wrong : p <= q
    <3>1. wrong \in SUBSET Nat
      BY <1>2
    <3> HIDE DEF wrong
    <3> QED  BY <3>1, LeastNatural
  <2>2. p \in 0..n - 1 /\ start[p] /\ p \notin StartsOf(b, n)
    BY <2>1
  <2>3. p # 0
    BY <1>2, <2>2, StartFacts
  <2>4. PICK q \in 0..p - 1 : start[q] /\ q + length(q) = p
    BY <1>6, <2>2, <2>3
  <2>5. q \in 0..n - 1 /\ q \in Nat /\ q < p
    BY <1>2, <2>2, <2>4
  <2>6. q \in StartsOf(b, n)
    <3>1. q \notin wrong
      BY <2>1, <2>2, <2>5
    <3> QED  BY <2>4, <2>5, <3>1
  <2> QED  BY <1>2, <1>3, <2>2, <2>4, <2>5, <2>6, StartBefore
<1> QED  BY <1>1, <1>7, <1>8 DEF b, n

-----------------------------------------------------------------------------
(* The validator's names for the parts of a section.                       *)

\* Of a section of the header, the validator reads what CodeOf holds.
LEMMA SectionReads ==
    ASSUME container \in Seq(Byte), header.code_offsets[code_idx] \in Nat, NEW p \in Nat
    PROVE  LET b == CodeOf(container, header, code_idx)
           IN  /\ Code(p) = b[p] /\ Word16(p) = WordOf(b, p) /\ Rel16(p) = OffsetOf(b, p)
               /\ ImmediateSize(p) = DataOf(b, p)
<1> DEFINE b == CodeOf(container, header, code_idx)
           o == header.code_offsets[code_idx]
<1>1. \A q \in Nat : b[q] = At(o + q)
  BY CodeType DEF At, Get
<1>2. b[p] = At(o + p) /\ b[p + 1] = At(o + p + 1) /\ b[p + 1] = At(o + (p + 1))
  <2>1. p + 1 \in Nat /\ o + (p + 1) = o + p + 1
    OBVIOUS
  <2> HIDE DEF b, o
  <2> QED  BY <1>1, <2>1
<1>3. Code(p) = b[p] /\ Code(p + 1) = b[p + 1]
  BY <1>2 DEF Code
<1>4. Word16(p) = WordOf(b, p) /\ Rel16(p) = OffsetOf(b, p)
  <2>1. read_uint16_be(o + p) = WordOf(b, p)
    BY <1>2 DEF read_uint16_be, WordOf
  <2> QED  BY <2>1 DEF Word16, Rel16, read_int16_be, OffsetOf
<1>5. ImmediateSize(p) = DataOf(b, p)
  BY <1>3 DEF ImmediateSize, DataOf
<1> QED  BY <1>3, <1>4, <1>5

\* The targets of a relative jump, in the order of its table.
LEMMA TargetsOf ==
    ASSUME container \in Seq(Byte), header.code_offsets[code_idx] \in Nat, NEW p \in Nat
    PROVE  LET b == CodeOf(container, header, code_idx)
           IN  /\ Targets(p) \in Seq(Int)
               /\ {Targets(p)[k] : k \in DOMAIN Targets(p)} = Dests(b, p)
<1> DEFINE b == CodeOf(container, header, code_idx)
           t == Targets(p)
<1>1. b \in [Nat -> Byte]
  BY CodeType
<1>2. /\ Code(p) = b[p] /\ Code(p + 1) = b[p + 1] /\ ImmediateSize(p) = DataOf(b, p)
      /\ Rel16(p + 1) = OffsetOf(b, p + 1)
      /\ \A k \in Nat : Rel16(p + 2 * k) = OffsetOf(b, p + 2 * k)
  <2>1. p + 1 \in Nat /\ \A k \in Nat : p + 2 * k \in Nat
    OBVIOUS
  <2>2. \A q \in Nat : Code(q) = b[q] /\ ImmediateSize(q) = DataOf(b, q)
                       /\ Rel16(q) = OffsetOf(b, q)
    BY SectionReads
  <2> HIDE DEF b
  <2> QED  BY <2>1, <2>2
<1> HIDE DEF b
<1>3. CASE b[p] \in {OP_RJUMP, OP_RJUMPI}
  <2>1. t = <<p + 3 + OffsetOf(b, p + 1)>>
    <3>1. t = <<p + 3 + Rel16(p + 1)>>
      BY <1>2, <1>3 DEF Targets, OP_RJUMP, OP_RJUMPI, OP_RJUMPV
    <3> QED  BY <1>2, <3>1
  <2>2. p + 3 + OffsetOf(b, p + 1) \in Int
    <3>1. p + 1 \in Nat /\ OffsetOf(b, p + 1) \in Int
      BY <1>1, CodeFacts
    <3> QED  BY <3>1
  <2>3. Dests(b, p) = {p + 3 + OffsetOf(b, p + 1)}
    BY <1>3 DEF Dests
  <2> DEFINE d == p + 3 + OffsetOf(b, p + 1)
  <2> HIDE DEF d
  <2>4. t = <<d>> /\ Dests(b, p) = {d} /\ d \in Int
    BY <2>1, <2>2, <2>3 DEF d
  <2> HIDE DEF t
  <2>5. t \in Seq(Int) /\ {t[k] : k \in DOMAIN t} = {d}
    BY <2>4
  <2> QED  BY <2>4, <2>5 DEF t, b
<1>4. CASE b[p] = OP_RJUMPV
  <2> DEFINE n    == b[p + 1] + 1
             d(k) == p + 1 + DataOf(b, p) + OffsetOf(b, p + 2 * k)
  <2>1. n \in Nat
    <3> DEFINE r == b[p + 1]
    <3>1. r \in 0..255
      BY <1>1 DEF Byte
    <3> HIDE DEF r
    <3>2. r + 1 \in Nat
      BY <3>1
    <3> QED  BY <3>2 DEF r
  <2>2. t = [k \in 1..n |-> d(k)]
    <3>1. b[p] \notin {OP_RJUMP, OP_RJUMPI}
      BY <1>4 DEF OP_RJUMPV, OP_RJUMP, OP_RJUMPI
    <3>2. t = [k \in 1..n |-> p + 1 + ImmediateSize(p) + Rel16(p + 2 * k)]
      BY <1>2, <1>4, <3>1 DEF Targets
    <3>3. \A k \in 1..n : p + 1 + ImmediateSize(p) + Rel16(p + 2 * k) = d(k)
      BY <1>2, <2>1
    <3> QED  BY <3>2, <3>3
  <2>3. Dests(b, p) = {d(k) : k \in 1..n}
    BY <1>4 DEF Dests, OP_RJUMPV, OP_RJUMP, OP_RJUMPI
  <2>4. \A k \in 1..n : d(k) \in Int
    <3>1. ASSUME NEW k \in 1..n PROVE d(k) \in Int
      <4>1. p + 2 * k \in Nat /\ DataOf(b, p) \in Nat
        BY <1>1, <2>1, CodeFacts
      <4>2. OffsetOf(b, p + 2 * k) \in Int
        BY <1>1, <4>1, CodeFacts
      <4> QED  BY <4>1, <4>2
    <3> QED  BY <3>1
  <2> HIDE DEF n, d, t
  <2>5. t \in Seq(Int) /\ DOMAIN t = 1..n
    BY <2>1, <2>2, <2>4
  <2>6. {t[k] : k \in DOMAIN t} = {d(k) : k \in 1..n}
    BY <2>2, <2>5
  <2> QED  BY <2>3, <2>5, <2>6 DEF t, b
<1>5. CASE b[p] \notin {OP_RJUMP, OP_RJUMPI, OP_RJUMPV}
  <2>1. t = << >> /\ Dests(b, p) = {}
    BY <1>2, <1>5 DEF Targets, Dests
  <2> HIDE DEF t
  <2>2. t \in Seq(Int) /\ {t[k] : k \in DOMAIN t} = {}
    BY <2>1
  <2> QED  BY <2>1, <2>2 DEF t, b
<1> QED  BY <1>3, <1>4, <1>5

-----------------------------------------------------------------------------
(* The header parser.                                                      *)

\* The limits are positive, those of the types fit a signed byte.
LEMMA LimitFacts ==
    /\ SectionLimit \in Nat \ {0} /\ InOutLimit \in Nat \ {0} /\ StackLimit \in Nat \ {0}
    /\ WordSize \in Nat \ {0} /\ InOutLimit <= 127 /\ SectionLimit <= 1024
    /\ \A c \in Containers : c \in Seq(Byte)
BY EofConstants

\* The names of the model for reading a container.
LEMMA Reading ==
    \A p \in Int : At(p) = Get(container, p) /\ read_uint16_be(p) = Get16(container, p)
BY DEF At, Get, read_uint16_be, Get16

\* A step that keeps the container and the stacks keeps the bounds if it reads inside.
LEMMA BoundsKept ==
    ASSUME Bounds, UNCHANGED <<container, machine>>, it' \in Nat, it' <= Len(container)
    PROVE  Bounds'
BY DEF Bounds, machine

\* A rejection needs nothing else.
LEMMA Rejected ==
    ASSUME IInv, NEW error, Reject(error), it' \in Nat, it' <= Len(container) PROVE IInv'
<1>1. phase' = "rejected" /\ UNCHANGED <<container, machine>>
  BY DEF Reject
<1>2. Bounds'
  BY <1>1, BoundsKept DEF IInv
<1> QED  BY <1>1, <1>2 DEF IInv

\* The headers as long as nothing is read.
LEMMA NoHeadersType ==
    /\ NoHeaders \in [{TYPE_SECTION, CODE_SECTION, DATA_SECTION} -> Seq(Nat)]
    /\ NoHeaders[CODE_SECTION] = << >> /\ NoHeaders[DATA_SECTION] = << >>
    /\ NoHeaders[TYPE_SECTION] = << >>
<1>1. << >> \in Seq(Nat)
  OBVIOUS
<1> QED  BY <1>1 DEF NoHeaders

\* A container that is too short, of another kind or for a revision before PRAGUE is
\* rejected at once.
LEMMA StartInv ==
    ASSUME IInv, validate_eof
    PROVE  IInv'
<1>1. phase = "start" /\ Bounds /\ it \in Nat /\ it <= Len(container)
  BY DEF IInv, validate_eof, Bounds
<1>2. ASSUME NEW error, Reject(error), UNCHANGED it PROVE IInv'
  BY <1>1, <1>2, Rejected
<1>3. ASSUME Len(container) >= 3, Advance("headers"), it' = 3,
             UNCHANGED <<state, expected, headers, section>>
      PROVE  IInv'
  <2>1. Bounds'
    BY <1>1, <1>3, BoundsKept DEF Advance
  <2>2. AtType' /\ HeadersInv'
    <3>1. state = "section_id" /\ expected = TYPE_SECTION /\ headers = NoHeaders
      BY <1>1 DEF IInv
    <3> QED  BY <1>3, <3>1, NoHeadersType DEF AtType, HeadersInv
  <2> QED  BY <1>1, <1>3, <2>1, <2>2 DEF Advance, IInv, section
<1> QED  BY <1>2, <1>3 DEF validate_eof

\* The phase of the headers, and what a step of it keeps.
LEMMA HeadersStep ==
    ASSUME IInv, phase = "headers", Advance("headers"), UNCHANGED section,
           it' \in Nat, it' <= Len(container), HeadersInv'
    PROVE  IInv'
<1>1. phase' = "headers" /\ UNCHANGED <<container, machine>>
  BY DEF Advance
<1>2. Bounds'
  BY <1>1, BoundsKept DEF IInv
<1> QED  BY <1>1, <1>2 DEF IInv, section

\* A section id.
LEMMA HeaderIdInv ==
    ASSUME IInv, HeaderId
    PROVE  IInv'
<1> DEFINE c == container
<1>1. /\ phase = "headers" /\ state = "section_id" /\ it \in Nat /\ it < Len(c) /\ HeadersInv
      /\ Len(c) \in Nat /\ c \in Seq(Byte)
  BY DEF IInv, HeaderId, ReadingHeaders, AmongSizes, Bounds
<1>2. At(it) = Get(c, it) /\ read_uint16_be(it + 1) = Get16(c, it + 1)
  BY <1>1, Reading
<1>3. headers \in [{TYPE_SECTION, CODE_SECTION, DATA_SECTION} -> Seq(Nat)]
  BY <1>1 DEF HeadersInv
<1>4. AtType \/ AtCode \/ AtData \/ AtEnd
  BY <1>1 DEF HeadersInv, InType, InCode, InData, Ended
<1>5. UNCHANGED headers /\ section_id' = Get(c, it)
  BY <1>2 DEF HeaderId
<1>6. ASSUME NEW error, Reject(error), it' = it + 1 PROVE IInv'
  BY <1>1, <1>6, Rejected
<1>7. ASSUME Get(c, it) = expected, expected = TERMINATOR, Advance("headers"),
             UNCHANGED section, it' = it + 1, state' = "terminated",
             UNCHANGED section_num
      PROVE  IInv'
  <2>1. AtEnd
    BY <1>4, <1>7 DEF AtType, AtCode, AtData, TERMINATOR, TYPE_SECTION, CODE_SECTION,
       DATA_SECTION
  <2>2. section_num \in Nat
    BY <2>1, LimitFacts DEF AtEnd, CodeHeader
  <2>3. c' = c
    BY <1>7 DEF Advance
  <2>4. Ended'
    BY <1>5, <1>7, <2>1, <2>2, <2>3 DEF AtEnd, Ended
  <2> QED  BY <1>1, <1>3, <1>5, <1>7, <2>4, HeadersStep DEF HeadersInv
<1>8. ASSUME Get(c, it) = expected, expected \in {TYPE_SECTION, DATA_SECTION},
             Advance("headers"), UNCHANGED section, it' = it + 1, state' = "section_size",
             expected' = IF expected = TYPE_SECTION THEN CODE_SECTION ELSE TERMINATOR,
             UNCHANGED section_num
      PROVE  IInv'
  <2>1. c' = c
    BY <1>8 DEF Advance
  <2>2. CASE expected = TYPE_SECTION
    <3>1. AtType
      BY <1>4, <2>2 DEF AtEnd, AtCode, AtData, TERMINATOR, TYPE_SECTION, CODE_SECTION,
         DATA_SECTION
    <3>2. InType'
      BY <1>5, <1>8, <2>1, <2>2, <3>1 DEF AtType, InType
    <3> QED  BY <1>1, <1>3, <1>5, <1>8, <3>2, HeadersStep DEF HeadersInv
  <2>3. CASE expected = DATA_SECTION
    <3>1. AtData
      BY <1>4, <2>3 DEF AtEnd, AtCode, AtType, TERMINATOR, TYPE_SECTION, CODE_SECTION,
         DATA_SECTION
    <3>2. section_num \in Nat
      BY <3>1, LimitFacts DEF AtData, CodeHeader
    <3>3. DATA_SECTION # TYPE_SECTION
      BY DEF DATA_SECTION, TYPE_SECTION
    <3>4. InData'
      BY <1>5, <1>8, <2>1, <2>3, <3>1, <3>2, <3>3 DEF AtData, InData
    <3> QED  BY <1>1, <1>3, <1>5, <1>8, <3>4, HeadersStep DEF HeadersInv
  <2> QED  BY <1>8, <2>2, <2>3
<1>9. ASSUME Get(c, it) = expected, expected = CODE_SECTION, ~ Incomplete(it + 1),
             it' = it + 3, section_num' = Get16(c, it + 1)
      PROVE  /\ it' \in Nat /\ it' <= Len(c)
             /\ section_num' \in 1..SectionLimit /\ Advance("headers") /\ UNCHANGED section
                /\ state' = "section_size" /\ expected' = DATA_SECTION => IInv'
  <2>1. it' \in Nat /\ it' <= Len(c)
    BY <1>1, <1>9 DEF Incomplete
  <2>2. ASSUME section_num' \in 1..SectionLimit, Advance("headers"), UNCHANGED section,
               state' = "section_size", expected' = DATA_SECTION
        PROVE  IInv'
    <3>1. AtCode
      BY <1>4, <1>9 DEF AtEnd, AtData, AtType, TERMINATOR, TYPE_SECTION, CODE_SECTION,
         DATA_SECTION
    <3>2. c' = c
      BY <2>2 DEF Advance
    <3>3. headers[CODE_SECTION] = << >> /\ it = 6 /\ it' = 9 /\ section_num' = Get16(c, 7)
      BY <1>9, <3>1 DEF AtCode
    <3>4. CodeHeader(c, headers, section_num', 0)
      <4>1. headers[CODE_SECTION] \in [1..0 -> Nat \ {0}]
        BY <3>3
      <4> QED  BY <1>9, <2>2, <3>3, <4>1 DEF CodeHeader
    <3>5. Len(headers[CODE_SECTION]) = 0 /\ section_num' > 0
      BY <2>2, <3>3, LimitFacts
    <3>6. InCode'
      BY <1>5, <1>9, <2>2, <3>1, <3>2, <3>3, <3>4, <3>5 DEF AtCode, InCode
    <3> QED  BY <1>1, <1>3, <1>5, <2>1, <2>2, <3>6, HeadersStep DEF HeadersInv
  <2> QED  BY <2>1, <2>2
<1>10. ASSUME NEW error, Reject(error), it' \in Nat, it' <= Len(c) PROVE IInv'
  BY <1>10, Rejected
<1> QED  BY <1>2, <1>6, <1>7, <1>8, <1>9, <1>10 DEF HeaderId

\* The sizes with one more.
LEMMA SizeAppended ==
    ASSUME NEW m \in Nat, NEW s \in [1..m -> Nat \ {0}], NEW x \in Nat \ {0}
    PROVE  /\ Len(Append(s, x)) = m + 1
           /\ Append(s, x) \in [1..m + 1 -> Nat \ {0}]
           /\ \A j \in 1..m : Append(s, x)[j] = s[j]
           /\ Append(s, x)[m + 1] = x
<1> DEFINE S == Nat \ {0}
<1> HIDE DEF S
<1>1. s \in Seq(S) /\ Len(s) = m /\ x \in S
  BY DEF S
<1>2. Append(s, x) \in Seq(S) /\ Len(Append(s, x)) = m + 1
  BY <1>1
<1>3. \A j \in 1..m : Append(s, x)[j] = s[j]
  BY <1>1
<1>4. Append(s, x)[m + 1] = x
  BY <1>1
<1>5. Append(s, x) \in [1..m + 1 -> S]
  <2> DEFINE u == Append(s, x)
  <2>1. u \in Seq(S) /\ Len(u) = m + 1
    BY <1>2
  <2> HIDE DEF u
  <2>2. u \in [1..Len(u) -> S]
    BY <2>1
  <2> QED  BY <2>1, <2>2 DEF u
<1> QED  BY <1>2, <1>3, <1>4, <1>5, Zenon DEF S

\* A section size.
LEMMA HeaderSizeInv ==
    ASSUME IInv, HeaderSize
    PROVE  IInv'
<1> DEFINE c    == container
           size == Get16(c, it)
           read == [headers EXCEPT ![section_id] = Append(@, size)]
           more == section_id = CODE_SECTION /\ Len(read[CODE_SECTION]) < section_num
           Ids  == {TYPE_SECTION, CODE_SECTION, DATA_SECTION}
<1>1. /\ phase = "headers" /\ state = "section_size" /\ it \in Nat /\ it <= Len(c)
      /\ HeadersInv /\ Len(c) \in Nat /\ c \in Seq(Byte)
  BY DEF IInv, HeaderSize, ReadingHeaders, Bounds
<1>2. read_uint16_be(it) = size /\ size \in Nat
  BY <1>1, Reading, GetType
<1>3. headers \in [Ids -> Seq(Nat)]
  BY <1>1 DEF HeadersInv
<1>4. InType \/ InCode \/ InData
  BY <1>1 DEF HeadersInv, AtType, AtCode, AtData, AtEnd, Ended
<1>5. UNCHANGED <<section_id, expected, section_num>>
  BY DEF HeaderSize
<1>6. TYPE_SECTION # CODE_SECTION /\ DATA_SECTION # CODE_SECTION /\ TYPE_SECTION # DATA_SECTION
  BY DEF TYPE_SECTION, CODE_SECTION, DATA_SECTION
<1>7. ASSUME NEW error, Reject(error), UNCHANGED it PROVE IInv'
  BY <1>1, <1>7, Rejected
<1>8. ~ Incomplete(it) => it + 2 \in Nat /\ it + 2 <= Len(c)
  BY <1>1 DEF Incomplete
<1>9. ASSUME NEW error, Reject(error), ~ Incomplete(it), it' = it + 2 PROVE IInv'
  BY <1>8, <1>9, Rejected
<1>10. ASSUME ~ Incomplete(it), size # 0 \/ section_id = DATA_SECTION,
              Advance("headers"), UNCHANGED section, it' = it + 2, headers' = read,
              state' = IF more THEN state ELSE "section_id"
       PROVE  IInv'
  <2>1. c' = c
    BY <1>10 DEF Advance
  <2>2. section_id \in Ids
    BY <1>4 DEF InType, InCode, InData
  <2>3. headers' \in [Ids -> Seq(Nat)]
    BY <1>2, <1>3, <1>10, <2>2
  <2>4. /\ headers'[section_id] = Append(headers[section_id], size)
        /\ \A id \in Ids : id # section_id => headers'[id] = headers[id]
    BY <1>3, <1>10, <2>2
  <2>5. HeadersInv' => IInv'
    BY <1>1, <1>8, <1>10, HeadersStep
  <2>6. CASE InType
    <3>1. /\ section_id = TYPE_SECTION /\ it = 4 /\ headers = NoHeaders
          /\ Get(c, 3) = TYPE_SECTION /\ expected = CODE_SECTION
      BY <2>6 DEF InType
    <3>2. headers'[TYPE_SECTION] = <<Get16(c, 4)>>
      BY <2>4, <3>1, NoHeadersType
    <3>3. headers'[CODE_SECTION] = << >> /\ headers'[DATA_SECTION] = << >>
      BY <1>6, <2>4, <3>1, NoHeadersType
    <3>4. state' = "section_id"
      BY <1>6, <1>10, <3>1
    <3>5. AtCode'
      BY <1>5, <1>10, <2>1, <3>1, <3>2, <3>3, <3>4 DEF AtCode, TypeHeader
    <3> QED  BY <2>3, <2>5, <3>5 DEF HeadersInv
  <2>7. CASE InCode
    <3> DEFINE sizes == headers[CODE_SECTION]
               m     == Len(sizes)
    <3>1. /\ section_id = CODE_SECTION /\ it = 9 + 2 * m /\ expected = DATA_SECTION
          /\ TypeHeader(c, headers) /\ CodeHeader(c, headers, section_num, m)
          /\ m < section_num /\ headers[DATA_SECTION] = << >>
      BY <2>7 DEF InCode
    <3>2. /\ sizes \in Seq(Nat) /\ m \in Nat /\ section_num \in Nat
          /\ sizes \in [1..m -> Nat \ {0}] /\ size \in Nat \ {0}
      BY <1>2, <1>3, <1>6, <1>10, <3>1, LimitFacts DEF CodeHeader
    <3>3. headers'[CODE_SECTION] = Append(sizes, size)
      BY <2>4, <3>1
    <3>4. /\ headers'[TYPE_SECTION] = headers[TYPE_SECTION]
          /\ headers'[DATA_SECTION] = << >>
      BY <1>6, <2>4, <3>1
    <3> HIDE DEF size, read
    <3>5. /\ Len(headers'[CODE_SECTION]) = m + 1
          /\ headers'[CODE_SECTION] \in [1..m + 1 -> Nat \ {0}]
          /\ \A j \in 1..m : headers'[CODE_SECTION][j] = sizes[j]
          /\ headers'[CODE_SECTION][m + 1] = size
      <4>1. m \in Nat /\ sizes \in [1..m -> Nat \ {0}] /\ size \in Nat \ {0}
        BY <3>2
      <4> HIDE DEF m, sizes
      <4>2. /\ Len(Append(sizes, size)) = m + 1
            /\ Append(sizes, size) \in [1..m + 1 -> Nat \ {0}]
            /\ \A j \in 1..m : Append(sizes, size)[j] = sizes[j]
            /\ Append(sizes, size)[m + 1] = size
        BY <4>1, SizeAppended
      <4> QED  BY <3>3, <4>2, Zenon
    <3>6. ASSUME NEW j \in 1..m + 1
          PROVE  headers'[CODE_SECTION][j] = Get16(c, 9 + 2 * (j - 1))
      <4>1. CASE j \in 1..m
        BY <3>1, <3>5, <4>1 DEF CodeHeader
      <4>2. CASE j = m + 1
        <5>1. 9 + 2 * (j - 1) = it
          BY <3>1, <3>2, <4>2
        <5> QED  BY <3>5, <4>2, <5>1 DEF size
      <4> QED  BY <3>2, <4>1, <4>2
    <3>7. CodeHeader(c, headers', section_num, m + 1)
      BY <3>1, <3>5, <3>6 DEF CodeHeader
    <3>8. TypeHeader(c, headers')
      BY <3>1, <3>4 DEF TypeHeader
    <3>9. it' = 9 + 2 * (m + 1)
      BY <1>10, <3>1, <3>2
    <3>10. more <=> m + 1 < section_num
      BY <1>10, <3>1, <3>5
    <3> HIDE DEF more, m, sizes
    <3>11. CASE more
      <4>1. InCode'
        BY <1>1, <1>5, <1>10, <2>1, <3>1, <3>4, <3>5, <3>7, <3>8, <3>9, <3>10, <3>11 DEF InCode
      <4> QED  BY <2>3, <2>5, <4>1 DEF HeadersInv
    <3>12. CASE ~ more
      <4>1. section_num = m + 1
        BY <3>1, <3>2, <3>10, <3>12
      <4>2. AtData'
        BY <1>5, <1>10, <2>1, <3>1, <3>4, <3>7, <3>8, <3>9, <3>12, <4>1 DEF AtData
      <4> QED  BY <2>3, <2>5, <4>2 DEF HeadersInv
    <3> QED  BY <3>11, <3>12
  <2>8. CASE InData
    <3>1. /\ section_id = DATA_SECTION /\ it = 10 + 2 * section_num
          /\ expected = TERMINATOR /\ TypeHeader(c, headers)
          /\ CodeHeader(c, headers, section_num, section_num)
          /\ Get(c, 9 + 2 * section_num) = DATA_SECTION /\ headers[DATA_SECTION] = << >>
      BY <2>8 DEF InData
    <3>2. section_num \in Nat
      BY <3>1, LimitFacts DEF CodeHeader
    <3>3. headers'[DATA_SECTION] = <<Get16(c, 10 + 2 * section_num)>>
      BY <2>4, <3>1
    <3>4. /\ headers'[CODE_SECTION] = headers[CODE_SECTION]
          /\ headers'[TYPE_SECTION] = headers[TYPE_SECTION]
      BY <1>6, <2>4, <3>1
    <3>5. state' = "section_id" /\ it' = 12 + 2 * section_num
      BY <1>6, <1>10, <3>1, <3>2
    <3>6. /\ TypeHeader(c, headers') /\ CodeHeader(c, headers', section_num, section_num)
          /\ DataHeader(c, headers', section_num)
      BY <3>1, <3>3, <3>4 DEF TypeHeader, CodeHeader, DataHeader
    <3>7. AtEnd'
      BY <1>5, <2>1, <3>1, <3>5, <3>6 DEF AtEnd
    <3> QED  BY <2>3, <2>5, <3>7 DEF HeadersInv
  <2> QED  BY <1>4, <2>6, <2>7, <2>8
<1> QED  BY <1>2, <1>7, <1>9, <1>10 DEF HeaderSize

\* The end of the section headers.
LEMMA HeaderEndInv ==
    ASSUME IInv, HeaderEnd
    PROVE  IInv'
<1>1. phase = "headers" /\ HeadersInv /\ Bounds /\ UNCHANGED parser
  BY DEF IInv, HeaderEnd
<1>2. it' = it /\ it \in Nat /\ it <= Len(container) /\ UNCHANGED <<state, headers>>
  BY <1>1 DEF parser, Bounds
<1>3. ASSUME NEW error, Reject(error) PROVE IInv'
  BY <1>2, <1>3, Rejected
<1>4. ASSUME state = "terminated", BodiesSize = Len(container) - it,
             headers[TYPE_SECTION][1] = Len(headers[CODE_SECTION]) * 4,
             Advance("types"), UNCHANGED section
      PROVE  IInv'
  <2>1. Ended
    BY <1>1, <1>4 DEF HeadersInv, AtType, InType, AtCode, InCode, AtData, InData, AtEnd
  <2>2. section_num \in Nat /\ headers[CODE_SECTION] \in [1..section_num -> Nat \ {0}]
        /\ headers[CODE_SECTION] \in Seq(Nat)
    BY <1>1, <2>1, LimitFacts DEF Ended, CodeHeader, HeadersInv
  <2>3. Len(headers[CODE_SECTION]) = section_num
    BY <2>2
  <2>4. Bounds'
    BY <1>1, <1>2, <1>4, BoundsKept DEF Advance
  <2>5. (HeadersInv /\ Ended)'
    BY <1>1, <1>4, <2>1 DEF HeadersInv, Ended, parser, Advance
  <2>6. (BodiesSize = Len(container) - it)'
    BY <1>2, <1>4 DEF BodiesSize, Advance
  <2>7. (headers[TYPE_SECTION][1] = section_num * 4)'
    BY <1>1, <1>4, <2>3 DEF parser
  <2>8. phase' = "types"
    BY <1>4 DEF Advance
  <2> QED  BY <1>1, <1>4, <2>4, <2>5, <2>6, <2>7, <2>8 DEF IInv, section
<1> QED  BY <1>3, <1>4 DEF HeaderEnd

-----------------------------------------------------------------------------
(* validate_types.                                                         *)

\* The sum of sizes is a natural number, and that of no sizes is zero.
LEMMA TotalType ==
    ASSUME NEW n \in Nat, NEW sizes \in [1..n -> Nat], NEW m \in 0..n
    PROVE  Total(sizes, m) \in Nat /\ Total(sizes, 0) = 0
<1> DEFINE Term(f, k)     == IF k = 0 THEN 0 ELSE f[k - 1] + sizes[k]
           Value(f, last) == f = [k \in 0..last |-> Term(f, k)]
           upto(last)     == CHOOSE f : Value(f, last)
<1>1. \A last \in 0..n : \E f : Value(f, last)
  <2> DEFINE missing == {last \in 0..n : ~ \E f : Value(f, last)}
  <2> SUFFICES ASSUME missing # {} PROVE FALSE
    OBVIOUS
  <2>1. PICK k \in missing : \A j \in missing : k <= j
    <3>1. missing \in SUBSET Nat
      OBVIOUS
    <3> HIDE DEF missing
    <3> QED  BY <3>1, LeastNatural
  <2>2. CASE k = 0
    <3> DEFINE f == [j \in 0..0 |-> 0]
    <3>1. Value(f, 0)
      OBVIOUS
    <3> QED  BY <2>1, <2>2, <3>1
  <2>3. CASE k # 0
    <3>1. k - 1 \in 0..n /\ k \in 1..n /\ k - 1 \notin missing
      <4>1. k \in 0..n
        BY <2>1
      <4>2. k - 1 \in 0..n /\ k \in 1..n /\ ~ (k <= k - 1)
        BY <2>3, <4>1
      <4> HIDE DEF missing
      <4> QED  BY <2>1, <4>2
    <3>2. PICK f : Value(f, k - 1)
      BY <3>1
    <3> DEFINE g == [j \in 0..k |-> IF j = k THEN f[k - 1] + sizes[k] ELSE f[j]]
    <3>3. \A j \in 0..k : g[j] = Term(g, j)
      <4>1. ASSUME NEW j \in 0..k PROVE g[j] = Term(g, j)
        <5>1. CASE j = k
          BY <3>1, <5>1
        <5>2. CASE j # k
          <6>1. j \in 0..k - 1 /\ f[j] = Term(f, j)
            BY <3>1, <3>2, <5>2
          <6>2. j # 0 => j - 1 \in 0..k /\ j - 1 # k
            BY <3>1, <6>1
          <6> QED  BY <5>2, <6>1, <6>2
        <5> QED  BY <5>1, <5>2
      <4> QED  BY <4>1
    <3>4. g = [j \in 0..k |-> g[j]]
      OBVIOUS
    <3> HIDE DEF g
    <3>5. g = [j \in 0..k |-> Term(g, j)]
      BY <3>3, <3>4
    <3> QED  BY <2>1, <3>5
  <2> QED  BY <2>2, <2>3
<1>2. \A last \in 0..n : Value(upto(last), last)
  <2> HIDE DEF Value
  <2> QED  BY <1>1
<1>3. \A last \in 0..n : Total(sizes, last) = upto(last)[last]
  BY DEF Total
<1>4. Total(sizes, 0) = 0
  <2>1. 0 \in 0..n
    OBVIOUS
  <2>2. Total(sizes, 0) = upto(0)[0] /\ Value(upto(0), 0)
    BY <1>2, <1>3, <2>1
  <2> HIDE DEF upto
  <2> QED  BY <2>2
<1>5. Total(sizes, m) \in Nat
  <2> DEFINE f == upto(m)
  <2>1. Value(f, m) /\ Total(sizes, m) = f[m]
    BY <1>2, <1>3
  <2> HIDE DEF f, upto
  <2>2. \A k \in 0..m : f[k] \in Nat
    <3> DEFINE missing == {k \in 0..m : ~ (f[k] \in Nat)}
    <3> SUFFICES ASSUME missing # {} PROVE FALSE
      OBVIOUS
    <3>1. PICK k \in missing : \A j \in missing : k <= j
      <4>1. missing \in SUBSET Nat
        OBVIOUS
      <4> HIDE DEF missing
      <4> QED  BY <4>1, LeastNatural
    <3>2. CASE k = 0
      BY <2>1, <3>1, <3>2
    <3>3. CASE k # 0
      <4>1. k - 1 \in 0..m /\ k \in 1..n /\ k - 1 \notin missing /\ k \in 0..m
        BY <3>1, <3>3
      <4>2. f[k] = f[k - 1] + sizes[k] /\ f[k - 1] \in Nat /\ sizes[k] \in Nat
        BY <2>1, <3>3, <4>1
      <4>3. f[k] \in Nat
        BY <4>2
      <4> QED  BY <3>1, <4>3
    <3> QED  BY <3>2, <3>3
  <2> QED  BY <2>1, <2>2
<1> QED  BY <1>4, <1>5

\* The type section has four bytes for a type.
LEMMA TypeCount ==
    ASSUME NEW n \in Nat
    PROVE  (n * 4 + 3) \div 4 = n
OBVIOUS

\* The types read from a container.
LEMMA TypesType ==
    ASSUME NEW c \in Seq(Byte), NEW offset \in Nat, NEW n \in Nat, NEW size, size = n * 4
    PROVE  TypesIn(c, offset, size) \in [1..n -> TypeRecord]
<1> DEFINE type(k) == [inputs |-> Get(c, offset + 4 * (k - 1)),
                       outputs |-> Get(c, offset + 4 * (k - 1) + 1),
                       max_stack_height |-> Get16(c, offset + 4 * (k - 1) + 2)]
<1>1. ASSUME NEW k \in 1..n PROVE type(k) \in TypeRecord
  <2> DEFINE p == offset + 4 * (k - 1)
  <2>1. p \in Nat
    OBVIOUS
  <2> HIDE DEF p
  <2>2. p + 1 \in Nat /\ p + 2 \in Nat
    BY <2>1
  <2>3. Get(c, p) \in Nat /\ Get(c, p + 1) \in Nat /\ Get16(c, p + 2) \in Nat
    BY <2>1, <2>2, GetType
  <2> QED  BY <2>3 DEF p, TypeRecord
<1> HIDE DEF type
<1>2. [k \in 1..n |-> type(k)] \in [1..n -> TypeRecord]
  BY <1>1
<1>3. TypesIn(c, offset, size) = [k \in 1..n |-> type(k)]
  <2>1. (size + 3) \div 4 = n
    BY TypeCount
  <2> QED  BY <2>1, Zenon DEF TypesIn, type
<1> QED  BY <1>2, <1>3

\* The header that the section headers make: its parts have their types, and it lies in
\* the container from its first byte to its last.
LEMMA HeaderBuilt ==
    ASSUME IInv, phase = "types"
    PROVE  LET h == Assemble(headers)
               n == section_num
           IN  /\ n \in 1..SectionLimit /\ Len(h.code_sizes) = n
               /\ h.code_sizes \in [1..n -> Nat \ {0}] /\ h.code_offsets \in [1..n -> Nat]
               /\ h.data_size \in Nat
               /\ h.types \in [1..n -> TypeRecord]
               /\ Laid(container, h)
<1> DEFINE c == container
           n == section_num
           h == Assemble(headers)
           s == headers[CODE_SECTION]
           d == Get16(c, 10 + 2 * n)
<1>1. /\ Ended /\ HeadersInv /\ BodiesSize = Len(c) - it /\ headers[TYPE_SECTION][1] = n * 4
      /\ c \in Seq(Byte) /\ it \in Nat /\ it <= Len(c) /\ Len(c) \in Nat
  BY DEF IInv, Bounds
<1>2. /\ it = 13 + 2 * n /\ TypeHeader(c, headers) /\ CodeHeader(c, headers, n, n)
      /\ DataHeader(c, headers, n) /\ Get(c, 12 + 2 * n) = TERMINATOR
  BY <1>1 DEF Ended
<1>3. n \in 1..SectionLimit /\ n \in Nat /\ n <= 1024 /\ s \in [1..n -> Nat \ {0}]
  BY <1>2, LimitFacts DEF CodeHeader
<1>4. Len(s) = n /\ s \in [1..n -> Nat]
  BY <1>3
<1>5. d \in Nat /\ headers[DATA_SECTION] = <<d>>
  <2>1. 10 + 2 * n \in Nat
    BY <1>3
  <2> QED  BY <1>1, <1>2, <2>1, GetType DEF DataHeader
<1>6. headers[TYPE_SECTION] = <<4 * n>>
  <2>1. headers[TYPE_SECTION] = <<Get16(c, 4)>> /\ Get16(c, 4) = n * 4
    BY <1>1, <1>2 DEF TypeHeader
  <2>2. n * 4 = 4 * n
    BY <1>3
  <2> QED  BY <2>1, <2>2
<1>7. eof_header_size(headers) = 13 + 2 * n
  <2>1. eof_header_size(headers) = 2 + 1 + 2 * 3 + 1 + 2 + n * 2 + 1
    BY <1>4 DEF eof_header_size
  <2> QED  BY <1>3, <2>1
<1>8. /\ h.code_sizes = s /\ h.code_offsets = CodeOffsets(headers) /\ h.data_size = d
      /\ h.types = TypesIn(c, 13 + 2 * n, n * 4)
  <2>1. /\ h.code_sizes = s /\ h.code_offsets = CodeOffsets(headers)
        /\ h.data_size = headers[DATA_SECTION][1]
        /\ h.types = TypesAt(eof_header_size(headers), headers[TYPE_SECTION][1])
    BY DEF Assemble
  <2>2. \A o, m : TypesAt(o, m) = TypesIn(c, o, m)
    BY DEF TypesAt, TypesIn, At, Get, read_uint16_be, Get16
  <2> QED  BY <1>1, <1>5, <1>7, <2>1, <2>2
<1>9. h = AssembleIn(c, headers)
  BY DEF Assemble, AssembleIn, TypesAt, TypesIn, At, Get, read_uint16_be, Get16
<1>10. headers = HeadersOf(h)
  <2> DEFINE Ids == {TYPE_SECTION, CODE_SECTION, DATA_SECTION}
  <2>1. headers = [id \in Ids |-> headers[id]]
    BY <1>1 DEF HeadersInv
  <2>2. /\ TYPE_SECTION # CODE_SECTION /\ DATA_SECTION # CODE_SECTION
        /\ TYPE_SECTION # DATA_SECTION
    BY DEF TYPE_SECTION, CODE_SECTION, DATA_SECTION
  <2>3. /\ HeadersOf(h)[TYPE_SECTION] = <<4 * Len(s)>> /\ HeadersOf(h)[CODE_SECTION] = s
        /\ HeadersOf(h)[DATA_SECTION] = <<d>> /\ HeadersOf(h) = [id \in Ids |-> HeadersOf(h)[id]]
    BY <1>8, <2>2 DEF HeadersOf
  <2>4. \A id \in Ids : headers[id] = HeadersOf(h)[id]
    BY <1>4, <1>5, <1>6, <2>3
  <2> QED  BY <2>1, <2>3, <2>4
<1>11. h.code_offsets \in [1..n -> Nat] /\ h.code_offsets[1] = 13 + 2 * n + n * 4
  <2> DEFINE offset(k) == 13 + 2 * n + n * 4 + Total(s, k - 1)
  <2>1. \A k \in 1..n : Total(s, k - 1) \in Nat /\ Total(s, 0) = 0
    BY <1>3, <1>4, TotalType
  <2>2. ASSUME NEW k \in 1..n PROVE offset(k) % 65536 \in Nat
    <3>1. offset(k) \in Nat
      BY <1>3, <2>1
    <3> HIDE DEF offset
    <3> QED  BY <3>1
  <2>3. h.code_offsets = [k \in 1..n |-> offset(k) % 65536]
    BY <1>1, <1>4, <1>7, <1>8 DEF CodeOffsets
  <2>4. offset(1) % 65536 = 13 + 2 * n + n * 4
    <3>1. Total(s, 1 - 1) = 0
      BY <1>3, <1>4, TotalType
    <3> DEFINE x == 13 + 2 * n + n * 4
    <3>2. x \in Nat /\ x < 65536
      BY <1>3
    <3>3. offset(1) = x + 0
      BY <3>1, Zenon
    <3> HIDE DEF offset, x
    <3>4. x % 65536 = x /\ x + 0 = x
      BY <3>2
    <3>5. offset(1) % 65536 = x
      BY <3>3, <3>4
    <3> QED  BY <3>5 DEF x
  <2> HIDE DEF offset, h
  <2> QED  BY <1>3, <2>2, <2>3, <2>4
<1>12. h.types \in [1..n -> TypeRecord]
  <2> DEFINE o == 13 + 2 * n
  <2>1. o \in Nat /\ n \in Nat /\ c \in Seq(Byte)
    BY <1>1, <1>3
  <2> DEFINE size == n * 4
  <2>2. h.types = TypesIn(c, o, size) /\ size = n * 4
    BY <1>8
  <2> HIDE DEF o, n, c, h, size
  <2>3. TypesIn(c, o, size) \in [1..n -> TypeRecord]
    BY <2>1, <2>2, TypesType, Zenon
  <2> QED  BY <2>2, <2>3, Zenon
<1>13. h.code_offsets[1] + Total(h.code_sizes, n) + h.data_size = Len(c)
  <2>1. BodiesSize = n * 4 + Total(s, n) + d
    BY <1>1, <1>4, <1>5 DEF BodiesSize
  <2>2. Total(s, n) \in Nat
    BY <1>3, <1>4, TotalType
  <2> DEFINE sum == Total(s, n)
             len == Len(c)
  <2>3. /\ n * 4 + sum + d = len - (13 + 2 * n) /\ len \in Nat /\ sum \in Nat
        /\ n \in Nat /\ d \in Nat
    BY <1>1, <1>2, <1>3, <1>5, <2>1, <2>2
  <2>4. h.code_sizes = s /\ h.data_size = d /\ h.code_offsets[1] = 13 + 2 * n + n * 4
    BY <1>8, <1>11
  <2> HIDE DEF sum, len, n, d
  <2>5. 13 + 2 * n + n * 4 + sum + d = len
    BY <2>3
  <2> HIDE DEF h
  <2> QED  BY <2>4, <2>5 DEF sum, len
<1>14. Laid(c, h)
  BY <1>1, <1>2, <1>4, <1>8, <1>9, <1>10, <1>13 DEF Laid
<1> QED  BY <1>3, <1>4, <1>5, <1>8, <1>11, <1>12, <1>14

\* The phases of the section loops read nothing of the container's front.
LEMMA SectionStep ==
    ASSUME IInv, UNCHANGED <<container, it, machine>>,
           phase' \in {"instructions", "rjumps", "heights"}, SectionInv'
    PROVE  IInv'
<1>1. Bounds'
  <2>1. it' \in Nat /\ it' <= Len(container)
    BY DEF IInv, Bounds
  <2> QED  BY <2>1, BoundsKept DEF IInv
<1> QED  BY <1>1 DEF IInv

\* The types are within their limits or the container is rejected.
LEMMA TypesInv ==
    ASSUME IInv, validate_types
    PROVE  IInv'
<1> DEFINE h     == Assemble(headers)
           types == h.types
           n     == section_num
           InOut(t)   == \/ t.outputs > InOutLimit /\ t.outputs # NON_RETURNING_FUNCTION
                         \/ t.inputs > InOutLimit
           TooHigh(t) == t.max_stack_height > MAX_STACK_HEIGHT
<1>1. phase = "types" /\ Bounds /\ UNCHANGED parser
  BY DEF IInv, validate_types
<1>2. UNCHANGED it /\ it' \in Nat /\ it' <= Len(container)
  BY <1>1 DEF parser, Bounds
<1>3. ASSUME NEW error, Reject(error) PROVE IInv'
  BY <1>2, <1>3, Rejected
<1>4. ASSUME types[1].inputs = 0 /\ types[1].outputs = NON_RETURNING_FUNCTION,
             \A k \in 1..Len(types) : ~ InOut(types[k]) /\ ~ TooHigh(types[k]),
             Advance("instructions"), header' = h, validated' = h, code_idx' = 1,
             i' = 0, is_returning' = FALSE,
             UNCHANGED <<rjumpdests, immediates, heights, worklist>>
      PROVE  IInv'
  <2>1. /\ n \in 1..SectionLimit /\ Len(h.code_sizes) = n
        /\ h.code_sizes \in [1..n -> Nat \ {0}] /\ h.code_offsets \in [1..n -> Nat]
        /\ h.data_size \in Nat /\ types \in [1..n -> TypeRecord]
        /\ Laid(container, h)
    BY <1>1, HeaderBuilt
  <2>2. n \in Nat /\ n > 0 /\ 1 \in 1..n /\ StackLimit \in Nat
    BY <2>1, LimitFacts
  <2>3. Len(types) = n
    BY <2>1, <2>2
  <2>4. ASSUME NEW k \in 1..n
        PROVE  /\ types[k].inputs <= InOutLimit
               /\ types[k].outputs <= InOutLimit \/ types[k].outputs = NON_RETURNING_FUNCTION
               /\ types[k].max_stack_height <= MAX_STACK_HEIGHT
    <3>1. ~ InOut(types[k]) /\ ~ TooHigh(types[k])
      BY <1>4, <2>3
    <3>2. types[k] \in TypeRecord
      BY <2>1
    <3> DEFINE t == types[k]
    <3>3. t.inputs \in Nat /\ t.outputs \in Nat /\ t.max_stack_height \in Nat
      BY <3>2 DEF TypeRecord
    <3>4. ~ InOut(t) /\ ~ TooHigh(t)
      BY <3>1
    <3> HIDE DEF t
    <3>5. /\ t.inputs <= InOutLimit
          /\ t.outputs <= InOutLimit \/ t.outputs = NON_RETURNING_FUNCTION
          /\ t.max_stack_height <= MAX_STACK_HEIGHT
      BY <2>2, <3>3, <3>4, LimitFacts DEF MAX_STACK_HEIGHT
    <3> QED  BY <3>5 DEF t
  <2>5. WellFormed(h)
    BY <1>4, <2>1, <2>2, <2>4 DEF WellFormed
  <2>6. /\ phase' = "instructions" /\ UNCHANGED <<container, machine>>
        /\ rjumpdests = {} /\ immediates = {} /\ heights = << >> /\ worklist = << >>
    BY <1>1, <1>4 DEF Advance, IInv
  <2> DEFINE b    == CodeOf(container, h, 1)
             size == h.code_sizes[1]
  <2>7. b \in [Nat -> Byte] /\ size \in Nat \ {0}
    BY <1>1, <2>1, <2>2, CodeType DEF Bounds
  <2>8. WalkedTo(b, size, 0) /\ StartsOf(b, size) \subseteq Nat
    BY <2>7, WalkedToStart, StartFacts
  <2> HIDE DEF h
  <2>9. Before(0)'
    BY <1>4, <2>1, <2>5, <2>6 DEF Before
  <2>10. SectionInv'
    <3>1. code_idx' - 1 = 0 /\ Len(heights') = 0 /\ code_idx' \in 1..Len(validated'.code_sizes)
      BY <1>4, <2>1, <2>2, <2>6
    <3>2. WalkedTo(CodeOf(container', validated', code_idx'), validated'.code_sizes[code_idx'],
                   i')
      BY <1>4, <2>6, <2>8
    <3>3. \A p \in StartsOf(CodeOf(container', validated', code_idx'),
                            validated'.code_sizes[code_idx']) : ~ (p < i')
      BY <1>4, <2>6, <2>8
    <3>4. heights' \in Seq(HeightMaps)
      BY <1>4, <2>6
    <3> QED  BY <1>4, <2>6, <2>9, <3>1, <3>2, <3>3, <3>4 DEF SectionInv
  <2> QED  BY <1>2, <2>6, <2>10, SectionStep
<1> QED  BY <1>3, <1>4 DEF validate_types

-----------------------------------------------------------------------------
(* validate_instructions and validate_rjump_destinations.                  *)

\* What the loops over a section rely on.
LEMMA SectionFacts ==
    ASSUME IInv, phase \in {"instructions", "rjumps", "heights"}
    PROVE  LET v == validated
               b == CodeOf(container, v, code_idx)
               n == v.code_sizes[code_idx]
           IN  /\ header = v /\ WellFormed(v) /\ Before(code_idx - 1) /\ SectionInv
               /\ container \in Seq(Byte) /\ code_idx \in 1..Len(v.code_sizes)
               /\ b \in [Nat -> Byte] /\ n \in Nat \ {0} /\ v.code_offsets[code_idx] \in Nat
               /\ CodeSize = n /\ OwnType = v.types[code_idx] /\ OwnType \in TypeRecord
               /\ \A p \in Nat : /\ Code(p) = b[p] /\ Word16(p) = WordOf(b, p)
                                 /\ ImmediateSize(p) = DataOf(b, p)
                                 /\ Targets(p) \in Seq(Int)
                                 /\ {Targets(p)[k] : k \in DOMAIN Targets(p)} = Dests(b, p)
<1> DEFINE v == validated
           b == CodeOf(container, v, code_idx)
           n == v.code_sizes[code_idx]
<1>1. SectionInv /\ container \in Seq(Byte)
  BY DEF IInv, Bounds
<1>2. /\ header = v /\ WellFormed(v) /\ Before(code_idx - 1)
      /\ code_idx \in 1..Len(v.code_sizes)
  BY <1>1 DEF SectionInv, Before
<1>3. /\ v.code_offsets[code_idx] \in Nat /\ n \in Nat \ {0}
      /\ v.types[code_idx] \in TypeRecord
  BY <1>2 DEF WellFormed
<1>4. b \in [Nat -> Byte]
  BY <1>1, <1>3, CodeType
<1>5. CodeSize = n /\ OwnType = v.types[code_idx]
  BY <1>2 DEF CodeSize, OwnType
<1>6. ASSUME NEW p \in Nat
      PROVE  /\ Code(p) = b[p] /\ Word16(p) = WordOf(b, p)
             /\ ImmediateSize(p) = DataOf(b, p) /\ Targets(p) \in Seq(Int)
             /\ {Targets(p)[k] : k \in DOMAIN Targets(p)} = Dests(b, p)
  <2>1. header.code_offsets[code_idx] \in Nat /\ b = CodeOf(container, header, code_idx)
    BY <1>2, <1>3
  <2> HIDE DEF b
  <2> QED  BY <1>1, <2>1, SectionReads, TargetsOf
<1> QED  BY <1>1, <1>2, <1>3, <1>4, <1>5, <1>6

\* Every instruction that validate_instructions lets pass is as it should be.
LEMMA InstructionChecked ==
    ASSUME IInv, phase = "instructions", i < CodeSize, BadInstruction = "none"
    PROVE  LET b == CodeOf(container, validated, code_idx)
           IN  /\ Checked(b, validated.code_sizes[code_idx], validated, i)
               /\ ReturnsAt(i) <=> ReturnsBy(b, validated, i)
<1> DEFINE v   == validated
           b   == CodeOf(container, v, code_idx)
           n   == v.code_sizes[code_idx]
           fid == Word16(i + 1)
<1>1. /\ header = v /\ WellFormed(v) /\ b \in [Nat -> Byte] /\ CodeSize = n /\ n \in Nat \ {0}
      /\ i \in Nat /\ \A p \in Nat : /\ Code(p) = b[p] /\ Word16(p) = WordOf(b, p)
                                     /\ ImmediateSize(p) = DataOf(b, p)
  BY SectionFacts DEF SectionInv
<1>2. /\ Code(i) = b[i] /\ fid = WordOf(b, i + 1) /\ ImmediateSize(i) = DataOf(b, i)
      /\ fid \in Nat /\ DataOf(b, i) \in Nat /\ b[i] \in Byte
  <2>1. i + 1 \in Nat
    BY <1>1
  <2> HIDE DEF b
  <2> QED  BY <1>1, <2>1, CodeFacts
<1>3. /\ eof_cost_tables[PRAGUE][Code(i)] # undefined
      /\ ~ (i + ImmediateSize(i) >= CodeSize)
      /\ Code(i) \in {OP_CALLF, OP_JUMPF} => ~ (fid >= Len(header.types))
      /\ Code(i) = OP_CALLF => Returns(TypeOf(fid).outputs)
      /\ Code(i) = OP_DATALOADN => ~ DataOutside(fid)
  BY DEF BadInstruction
<1>4. Len(v.types) \in Nat /\ v.data_size \in Nat /\ WordSize \in Nat
  BY <1>1, LimitFacts DEF WellFormed
<1>5. After(b, i) <= n
  BY <1>1, <1>2, <1>3 DEF After
<1>6. Code(i) = OP_DATALOADN => fid + WordSize <= v.data_size
  BY <1>1, <1>2, <1>3, <1>4 DEF DataOutside
<1>7. Checked(b, n, v, i)
  BY <1>1, <1>2, <1>3, <1>4, <1>5, <1>6 DEF Checked, TypeOf
<1>8. ReturnsAt(i) <=> ReturnsBy(b, v, i)
  BY <1>1, <1>2 DEF ReturnsAt, ReturnsBy, TypeOf
<1> QED  BY <1>7, <1>8

\* validate_instructions goes from one instruction to the next.
LEMMA InstructionsInv ==
    ASSUME IInv, validate_instructions
    PROVE  IInv'
<1> DEFINE v == validated
           b == CodeOf(container, v, code_idx)
           n == v.code_sizes[code_idx]
<1>1. /\ phase = "instructions" /\ i < CodeSize /\ UNCHANGED parser /\ Bounds
      /\ SectionInv /\ CodeSize = n /\ b \in [Nat -> Byte] /\ n \in Nat \ {0} /\ i \in Nat
      /\ ImmediateSize(i) = DataOf(b, i)
  BY SectionFacts DEF validate_instructions, IInv, SectionInv
<1>2. UNCHANGED it /\ it' \in Nat /\ it' <= Len(container)
  BY <1>1 DEF parser, Bounds
<1>3. ASSUME NEW error, Reject(error) PROVE IInv'
  BY <1>2, <1>3, Rejected
<1>4. ASSUME BadInstruction = "none", i' = i + ImmediateSize(i) + 1,
             is_returning' = (is_returning \/ ReturnsAt(i)), Advance(phase),
             UNCHANGED <<header, validated, code_idx, rjumpdests, immediates, heights,
                         worklist>>
      PROVE  IInv'
  <2>1. UNCHANGED <<container, machine>> /\ phase' = "instructions"
    BY <1>1, <1>4 DEF Advance
  <2>2. i' = After(b, i) /\ i' \in Nat
    BY <1>1, <1>4, CodeFacts DEF After
  <2>3. WalkedTo(b, n, i) /\ i \in Nat /\ i < n
    BY <1>1 DEF SectionInv
  <2>4. WalkedTo(b, n, i') /\ \A p \in StartsOf(b, n) : p < i' => p <= i
    BY <1>1, <2>2, <2>3, WalkedOn
  <2>5. Checked(b, n, v, i) /\ (ReturnsAt(i) <=> ReturnsBy(b, v, i))
    BY <1>1, <1>4, InstructionChecked
  <2>6. is_returning' \in BOOLEAN /\ (is_returning => is_returning')
        /\ (ReturnsBy(b, v, i) => is_returning')
    BY <1>4, <2>5
  <2>7. ASSUME NEW p \in StartsOf(b, n), p < i'
        PROVE  Checked(b, n, v, p) /\ (ReturnsBy(b, v, p) => is_returning')
    <3>1. p <= i /\ p \in Nat
      BY <1>1, <2>4, <2>7, StartFacts
    <3>2. CASE p < i
      BY <1>1, <2>6, <3>2 DEF SectionInv
    <3>3. CASE p = i
      BY <2>5, <2>6, <3>3
    <3> QED  BY <1>1, <3>1, <3>2, <3>3
  <2> HIDE DEF b, n
  <2>8. b' = b /\ n' = n
    BY <1>4, <2>1 DEF b, n
  <2>9. SectionInv'
    <3>1. b = CodeOf(container, validated, code_idx) /\ n = validated.code_sizes[code_idx]
      BY DEF b, n
    <3>2. Before(code_idx - 1)'
      BY <1>1, <1>4, <2>1 DEF SectionInv, Before
    <3> QED  BY <1>1, <1>4, <2>1, <2>2, <2>4, <2>6, <2>7, <3>1, <3>2 DEF SectionInv
  <2> QED  BY <1>2, <2>1, <2>9, SectionStep
<1> QED  BY <1>3, <1>4 DEF validate_instructions

\* When the section is walked through, all its instructions are as they should be.
LEMMA InstructionsEndInv ==
    ASSUME IInv, InstructionsEnd
    PROVE  IInv'
<1> DEFINE v == validated
           b == CodeOf(container, v, code_idx)
           n == v.code_sizes[code_idx]
<1>1. /\ phase = "instructions" /\ i >= CodeSize /\ UNCHANGED parser /\ Bounds
      /\ SectionInv /\ CodeSize = n /\ b \in [Nat -> Byte] /\ n \in Nat \ {0} /\ i \in Nat
      /\ OwnType = v.types[code_idx]
  BY SectionFacts DEF InstructionsEnd, IInv, SectionInv
<1>2. UNCHANGED it /\ it' \in Nat /\ it' <= Len(container)
  BY <1>1 DEF parser, Bounds
<1>3. ASSUME NEW error, Reject(error) PROVE IInv'
  BY <1>2, <1>3, Rejected
<1>4. ASSUME is_returning = Returns(OwnType.outputs), Advance("rjumps"), i' = 0,
             rjumpdests' = {}, immediates' = {},
             UNCHANGED <<header, validated, code_idx, is_returning, heights, worklist>>
      PROVE  IInv'
  <2>1. UNCHANGED <<container, machine>> /\ phase' = "rjumps"
    BY <1>4 DEF Advance
  <2>2. \A p \in StartsOf(b, n) : p \in Nat /\ p < n /\ p < i /\ ~ (p < 0)
    BY <1>1, StartFacts
  <2>3. InstructionsOk(b, n, v, v.types[code_idx])
    BY <1>1, <1>4, <2>2 DEF SectionInv, InstructionsOk
  <2>4. WalkedTo(b, n, 0)
    BY <1>1, WalkedToStart
  <2>5. \A x \in 0..n - 1 : ~ (x < 0)
    BY <1>1
  <2> HIDE DEF b, n
  <2>6. b' = b /\ n' = n
    BY <1>4, <2>1 DEF b, n
  <2>7. SectionInv'
    <3>1. b = CodeOf(container, validated, code_idx) /\ n = validated.code_sizes[code_idx]
      BY DEF b, n
    <3>2. Before(code_idx - 1)'
      BY <1>1, <1>4, <2>1 DEF SectionInv, Before
    <3> QED  BY <1>1, <1>4, <2>1, <2>2, <2>3, <2>4, <2>5, <3>1, <3>2 DEF SectionInv
  <2> QED  BY <1>2, <2>1, <2>7, SectionStep
<1> QED  BY <1>3, <1>4 DEF InstructionsEnd

\* The bytes of an instruction are its first one and its immediate data.
LEMMA InstructionBytes ==
    ASSUME NEW p \in Nat, NEW size \in Nat, NEW next, next = p + size + 1, NEW x \in Nat,
           x < next
    PROVE  x < p \/ x = p \/ x \in (p + 1)..(p + size)
OBVIOUS

\* validate_rjump_destinations notes where an instruction jumps to and where its
\* immediate data is.
LEMMA JumpsInv ==
    ASSUME IInv, validate_rjump_destinations
    PROVE  IInv'
<1> DEFINE v == validated
           b == CodeOf(container, v, code_idx)
           n == v.code_sizes[code_idx]
           m == ImmediateSize(i)
           dests == {Targets(i)[k] : k \in DOMAIN Targets(i)}
<1>1. /\ phase = "rjumps" /\ i < CodeSize /\ UNCHANGED parser /\ Bounds
      /\ SectionInv /\ CodeSize = n /\ b \in [Nat -> Byte] /\ n \in Nat \ {0} /\ i \in Nat
      /\ m = DataOf(b, i) /\ dests = Dests(b, i)
  BY SectionFacts DEF validate_rjump_destinations, IInv, SectionInv
<1>2. UNCHANGED it /\ it' \in Nat /\ it' <= Len(container)
  BY <1>1 DEF parser, Bounds
<1>3. ASSUME NEW error, Reject(error) PROVE IInv'
  BY <1>2, <1>3, Rejected
<1>4. ASSUME dests \subseteq 0..CodeSize - 1, rjumpdests' = rjumpdests \cup dests,
             immediates' = immediates \cup (i + 1)..(i + m), i' = i + m + 1, Advance(phase),
             UNCHANGED <<header, validated, code_idx, is_returning, heights, worklist>>
      PROVE  IInv'
  <2>1. UNCHANGED <<container, machine>> /\ phase' = "rjumps"
    BY <1>1, <1>4 DEF Advance
  <2>2. i' = After(b, i) /\ i' \in Nat /\ m \in Nat
    BY <1>1, <1>4, CodeFacts DEF After
  <2>3. WalkedTo(b, n, i) /\ i \in Nat /\ i < n
    BY <1>1 DEF SectionInv
  <2>4. /\ WalkedTo(b, n, i') /\ i \in StartsOf(b, n)
        /\ \A p \in StartsOf(b, n) : p < i' => p <= i
    BY <1>1, <2>2, <2>3, WalkedOn
  <2>5. i' <= n
    <3>1. Checked(b, n, v, i)
      BY <1>1, <2>4 DEF SectionInv, InstructionsOk
    <3> QED  BY <2>2, <3>1 DEF Checked
  <2>6. immediates' \cup rjumpdests' \subseteq 0..n - 1
    <3>1. immediates \cup rjumpdests \subseteq 0..n - 1
      BY <1>1 DEF SectionInv
    <3>2. (i + 1)..(i + m) \subseteq 0..n - 1
      <4> HIDE DEF n, m
      <4> QED  BY <1>1, <1>4, <2>2, <2>5
    <3> QED  BY <1>1, <1>4, <3>1, <3>2
  <2>7. ASSUME NEW p \in StartsOf(b, n), p < i' PROVE Dests(b, p) \subseteq rjumpdests'
    <3>1. p <= i /\ p \in Nat
      BY <1>1, <2>4, <2>7, StartFacts
    <3>2. CASE p < i
      BY <1>1, <1>4, <3>2 DEF SectionInv
    <3>3. CASE p = i
      BY <1>1, <1>4, <3>3
    <3> QED  BY <1>1, <3>1, <3>2, <3>3
  <2>8. ASSUME NEW x \in 0..n - 1, x < i' PROVE x \in StartsOf(b, n) \/ x \in immediates'
    <3>1. x < i \/ x = i \/ x \in (i + 1)..(i + m)
      <4>1. x \in Nat
        BY <1>1
      <4> HIDE DEF m, n, b
      <4> QED  BY <1>1, <1>4, <2>2, <2>8, <4>1, InstructionBytes
    <3>2. CASE x < i
      BY <1>1, <1>4, <3>2 DEF SectionInv
    <3>3. CASE x = i
      BY <2>4, <3>3
    <3>4. CASE x \in (i + 1)..(i + m)
      BY <1>4, <3>4
    <3> QED  BY <3>1, <3>2, <3>3, <3>4
  <2> HIDE DEF b, n
  <2>9. b' = b /\ n' = n
    BY <1>4, <2>1 DEF b, n
  <2>10. SectionInv'
    <3>1. b = CodeOf(container, validated, code_idx) /\ n = validated.code_sizes[code_idx]
      BY DEF b, n
    <3>2. Before(code_idx - 1)'
      BY <1>1, <1>4, <2>1 DEF SectionInv, Before
    <3>3. InstructionsOk(b, n, v, v.types[code_idx])
      BY <1>1, <3>1 DEF SectionInv
    <3> QED
      BY <1>1, <1>4, <2>1, <2>2, <2>4, <2>6, <2>7, <2>8, <3>1, <3>2, <3>3 DEF SectionInv
  <2> QED  BY <1>2, <2>1, <2>10, SectionStep
<1> QED  BY <1>3, <1>4 DEF validate_rjump_destinations

\* A further element leaves the others where they are.
LEMMA Appended ==
    ASSUME NEW s \in Seq(HeightMaps), NEW x \in HeightMaps
    PROVE  /\ Append(s, x) \in Seq(HeightMaps) /\ Len(Append(s, x)) = Len(s) + 1
           /\ Append(s, x)[Len(s) + 1] = x
           /\ \A k \in 1..Len(s) : Append(s, x)[k] = s[k]
OBVIOUS

\* No relative jump goes into immediate data or the container is rejected; the heights
\* of the section are those of its first instruction only.
LEMMA JumpsEndInv ==
    ASSUME IInv, RjumpsEnd
    PROVE  IInv'
<1> DEFINE v == validated
           b == CodeOf(container, v, code_idx)
           n == v.code_sizes[code_idx]
           own == v.types[code_idx]
           H == [p \in 0..CodeSize - 1 |-> IF p = 0 THEN OwnType.inputs ELSE LOC_UNVISITED]
<1>1. /\ phase = "rjumps" /\ i >= CodeSize /\ UNCHANGED parser /\ Bounds
      /\ SectionInv /\ CodeSize = n /\ b \in [Nat -> Byte] /\ n \in Nat \ {0} /\ i \in Nat
      /\ OwnType = own /\ own \in TypeRecord /\ code_idx \in 1..Len(v.code_sizes)
  BY SectionFacts DEF RjumpsEnd, IInv, SectionInv
<1>2. UNCHANGED it /\ it' \in Nat /\ it' <= Len(container)
  BY <1>1 DEF parser, Bounds
<1>3. ASSUME NEW error, Reject(error) PROVE IInv'
  BY <1>2, <1>3, Rejected
<1>4. ASSUME rjumpdests \cap immediates = {}, Advance("heights"),
             heights' = Append(heights, H), worklist' = << 0 >>,
             UNCHANGED <<header, validated, code_idx, i, is_returning, rjumpdests,
                         immediates>>
      PROVE  IInv'
  <2>1. UNCHANGED <<container, machine>> /\ phase' = "heights"
    BY <1>4 DEF Advance
  <2>2. StartsOf(b, n) \subseteq 0..n - 1 /\ 0 \in StartsOf(b, n)
        /\ \A p \in 0..n - 1 : p < i
    BY <1>1, StartFacts
  <2>3. JumpsOk(b, n)
    <3> SUFFICES ASSUME NEW p \in StartsOf(b, n), NEW d \in Dests(b, p)
                 PROVE  d \in StartsOf(b, n)
      BY DEF JumpsOk
    <3>1. d \in rjumpdests /\ rjumpdests \subseteq 0..n - 1
      BY <1>1, <2>2 DEF SectionInv
    <3>2. d \in StartsOf(b, n) \/ d \in immediates
      BY <1>1, <2>2, <3>1 DEF SectionInv
    <3> QED  BY <1>4, <3>1, <3>2
  <2>4. H \in [0..n - 1 -> Int] /\ H[0] = own.inputs /\ own.inputs \in Nat
        /\ \A p \in 0..n - 1 : p # 0 => H[p] = LOC_UNVISITED
    <3>1. own.inputs \in Nat /\ LOC_UNVISITED \in Int
      BY <1>1 DEF TypeRecord, LOC_UNVISITED
    <3> HIDE DEF n, own, b
    <3> QED  BY <1>1, <3>1
  <2>5. H \in HeightMaps
    <3>1. n \in Nat
      BY <1>1
    <3> HIDE DEF n, H
    <3> QED  BY <2>4, <3>1 DEF HeightMaps
  <2> HIDE DEF H
  <2>6. /\ heights \in Seq(HeightMaps) /\ Len(heights) = code_idx - 1
        /\ Before(code_idx - 1) /\ InstructionsOk(b, n, v, own)
        /\ immediates \cup rjumpdests \subseteq 0..n - 1 /\ header = v
    BY <1>1 DEF SectionInv
  <2>7. /\ heights' \in Seq(HeightMaps) /\ Len(heights') = code_idx /\ heights'[code_idx] = H
        /\ \A k \in 1..code_idx - 1 : heights'[k] = heights[k]
    <3>1. code_idx \in Nat /\ (code_idx - 1) + 1 = code_idx
      BY <1>1
    <3> QED  BY <1>4, <2>5, <2>6, <3>1, Appended
  <2>8. worklist' \in Seq(StartsOf(b, n)) /\ Len(worklist') = 1 /\ worklist'[1] = 0
    BY <1>4, <2>2
  <2> HIDE DEF b, n, own
  <2>9. Before(code_idx - 1)'
    BY <1>4, <2>1, <2>6, <2>7 DEF Before
  <2>10. \A j \in 1..Len(worklist') : heights'[code_idx][worklist'[j]] \in Nat
    BY <2>4, <2>7, <2>8
  <2>11. ASSUME NEW p \in StartsOf(b, n)
         PROVE  \/ H[p] = LOC_UNVISITED
                \/ H[p] \in Nat /\ \E j \in 1..Len(worklist') : worklist'[j] = p
    BY <2>2, <2>4, <2>8
  <2>12. b' = b /\ n' = n /\ own' = own
    BY <1>4, <2>1 DEF b, n, own
  <2>13. SectionInv'
    <3>1. /\ b = CodeOf(container, validated, code_idx) /\ n = validated.code_sizes[code_idx]
          /\ own = validated.types[code_idx]
      BY DEF b, n, own
    <3> QED
      BY <1>1, <1>4, <2>1, <2>3, <2>4, <2>6, <2>7, <2>8, <2>9, <2>10, <2>11, <3>1
      DEF SectionInv
  <2> QED  BY <1>2, <2>1, <2>13, SectionStep
<1> QED  BY <1>3, <1>4 DEF RjumpsEnd, JumpsIntoImmediate

-----------------------------------------------------------------------------
(* validate_max_stack_height.                                              *)

\* What the traits table says of the stack: no instruction takes more than it requires
\* or adds more than one, and the heights of function calls and jumps are checked apart.
LEMMA HeightTraits ==
    ASSUME NEW op \in Byte
    PROVE  /\ stack_height_required[op] \in Nat /\ stack_height_change[op] \in Int
           /\ stack_height_change[op] <= 1
           /\ stack_height_required[op] + stack_height_change[op] >= 0
           /\ op \in {OP_CALLF, OP_RETF, OP_JUMPF, OP_RJUMP} =>
                  stack_height_required[op] = 0 /\ stack_height_change[op] = 0
           /\ op \in {OP_RJUMPI, OP_RJUMPV} => stack_height_change[op] = -1
BY SMTT(60) DEF stack_height_required, stack_height_change, Byte,
   LookupOps, AccountOps, MloadOps, MstoreOps, IszeroOp, NotOp, PopOp, OP_JUMP,
   OP_DUP, OP_SWAP, ArithOps, CompareOps, BitwiseOps, ShiftOps, OP_EXP,
   SignextendOp, ByteOp, OP_JUMPI, OP_TSTORE, CopyOps, AddmodOp, OP_MULMOD,
   OP_LOG1, DupOps, SwapOps, OP_DUP1, OP_SWAP1, EnvironmentOps, PushOps,
   OP_PUSH1, OP_PUSH32, CodesizeOp, OP_PC, OP_GAS, OP_PUSH0, OP_DUPN,
   OP_CALLF, OP_RETF, OP_JUMPF, OP_RJUMP, OP_RJUMPI, OP_RJUMPV

\* A signed byte holds what fits in it; what is too large by less than a byte becomes
\* negative.
LEMMA SignedByte ==
    ASSUME NEW n \in Int, n >= -128, n < 256
    PROVE  /\ to_int8(n) \in Int
           /\ n <= 127 => to_int8(n) = n
           /\ n > 127 => to_int8(n) < 0
<1> DEFINE m == n % 256
<1>1. m = IF n < 0 THEN n + 256 ELSE n
  OBVIOUS
<1>2. to_int8(n) = IF m >= 128 THEN m - 256 ELSE m
  BY DEF to_int8
<1> HIDE DEF m
<1> QED  BY <1>1, <1>2

\* The instruction on top of the worklist.
LEMMA VisitedFacts ==
    ASSUME IInv, phase = "heights", worklist # << >>
    PROVE  LET v == validated
               b == CodeOf(container, v, code_idx)
               n == v.code_sizes[code_idx]
               q == Visited
           IN  /\ worklist \in Seq(StartsOf(b, n)) /\ Len(worklist) \in Nat \ {0}
               /\ q = worklist[Len(worklist)] /\ q \in StartsOf(b, n) /\ q \in Nat /\ q < n
               /\ Height = heights[code_idx][q] /\ Height \in Nat
               /\ Code(q) = b[q] /\ b[q] \in Byte
               /\ Following = After(b, q) /\ After(b, q) <= n
               /\ b[q] \in {OP_CALLF, OP_JUMPF} =>
                     /\ Callee = v.types[WordOf(b, q + 1) + 1]
                     /\ Callee.inputs \in Nat /\ Callee.inputs <= InOutLimit
                     /\ Callee.max_stack_height \in Nat
                     /\ Callee.outputs \in Nat
                     /\ Returns(Callee.outputs) => Callee.outputs <= InOutLimit
               /\ b[q] = OP_CALLF => Returns(Callee.outputs)
               /\ ReturnsBy(b, v, q) => OwnType.outputs <= InOutLimit
<1> DEFINE v == validated
           b == CodeOf(container, v, code_idx)
           n == v.code_sizes[code_idx]
           q == Visited
           fid == Word16(q + 1)
<1>1. /\ header = v /\ WellFormed(v) /\ SectionInv
      /\ b \in [Nat -> Byte] /\ n \in Nat \ {0} /\ code_idx \in 1..Len(v.code_sizes)
      /\ OwnType = v.types[code_idx]
      /\ \A p \in Nat : /\ Code(p) = b[p] /\ Word16(p) = WordOf(b, p)
                        /\ ImmediateSize(p) = DataOf(b, p)
  BY SectionFacts
<1>2. /\ worklist \in Seq(StartsOf(b, n)) /\ InstructionsOk(b, n, v, v.types[code_idx])
      /\ \A j \in 1..Len(worklist) : heights[code_idx][worklist[j]] \in Nat
  BY <1>1 DEF SectionInv
<1>3. Len(worklist) \in Nat \ {0} /\ Len(worklist) \in 1..Len(worklist)
  BY <1>2
<1>4. q = worklist[Len(worklist)] /\ q \in StartsOf(b, n) /\ Height \in Nat
      /\ Height = heights[code_idx][q]
  BY <1>2, <1>3 DEF Visited, Height
<1>5. q \in Nat /\ q < n /\ q + 1 \in Nat
  BY <1>1, <1>4, StartFacts
<1>6. /\ Code(q) = b[q] /\ b[q] \in Byte /\ ImmediateSize(q) = DataOf(b, q)
      /\ fid = WordOf(b, q + 1) /\ fid \in Nat
  <2> HIDE DEF b, q
  <2> QED  BY <1>1, <1>5, CodeFacts
<1>7. Following = After(b, q)
  BY <1>6 DEF Following, After
<1>8. Checked(b, n, v, q) /\ (ReturnsBy(b, v, q) => Returns(v.types[code_idx].outputs))
  BY <1>2, <1>4 DEF InstructionsOk
<1>9. Len(v.types) = Len(v.code_sizes)
  BY <1>1 DEF WellFormed
<1>10. ASSUME NEW k \in 1..Len(v.code_sizes)
       PROVE  LET t == v.types[k]
              IN  /\ t.inputs \in Nat /\ t.inputs <= InOutLimit
                  /\ t.max_stack_height \in Nat /\ t.outputs \in Nat
                  /\ Returns(t.outputs) => t.outputs <= InOutLimit
  BY <1>1 DEF WellFormed, TypeRecord, Returns
<1>11. Callee = v.types[fid + 1]
  BY <1>1 DEF Callee, TypeOf
<1>12. b[q] \in {OP_CALLF, OP_JUMPF} => fid + 1 \in 1..Len(v.code_sizes)
  <2>1. b[q] \in {OP_CALLF, OP_JUMPF} => fid < Len(v.code_sizes)
    BY <1>6, <1>8, <1>9 DEF Checked
  <2>2. Len(v.code_sizes) \in Nat
    BY <1>1 DEF WellFormed
  <2> HIDE DEF fid
  <2> QED  BY <1>6, <2>1, <2>2
<1>13. b[q] = OP_CALLF => Returns(Callee.outputs)
  BY <1>6, <1>8, <1>11 DEF Checked
<1>14. After(b, q) <= n
  BY <1>8 DEF Checked
<1> HIDE DEF b, n, q, fid
<1>15. b[q] \in {OP_CALLF, OP_JUMPF} =>
         /\ Callee = v.types[WordOf(b, q + 1) + 1]
         /\ Callee.inputs \in Nat /\ Callee.inputs <= InOutLimit
         /\ Callee.max_stack_height \in Nat /\ Callee.outputs \in Nat
         /\ Returns(Callee.outputs) => Callee.outputs <= InOutLimit
  BY <1>6, <1>10, <1>11, <1>12
<1>16. ReturnsBy(b, v, q) => OwnType.outputs <= InOutLimit
  BY <1>1, <1>8, <1>10
<1> QED
  BY <1>2, <1>3, <1>4, <1>5, <1>6, <1>7, <1>13, <1>14, <1>15, <1>16 DEF b, n, q

\* An instruction whose height the validator accepts has what it requires, and leaves
\* the height that Settled says.
LEMMA HeightAccepted ==
    ASSUME IInv, phase = "heights", worklist # << >>, BadHeight = "none"
    PROVE  LET v  == validated
               b  == CodeOf(container, v, code_idx)
               op == b[Visited]
           IN  /\ Height >= stack_height_required[op]
               /\ op \in {OP_CALLF, OP_JUMPF} => Height >= Callee.inputs
               /\ op = OP_JUMPF /\ Returns(Callee.outputs) =>
                      Height = OwnType.outputs + Callee.inputs - Callee.outputs
               /\ op = OP_RETF => Height = OwnType.outputs
               /\ HeightAfter = Height + (IF op = OP_CALLF
                                          THEN Callee.outputs - Callee.inputs
                                          ELSE stack_height_change[op])
               /\ HeightAfter \in Nat
<1> DEFINE v  == validated
           b  == CodeOf(container, v, code_idx)
           op == b[Visited]
           x  == Callee.inputs
           y  == Callee.outputs
           o  == OwnType.outputs
           h  == Height
           r  == Returns(y)
<1>1. /\ Code(Visited) = op /\ op \in Byte /\ h \in Nat
      /\ op \in {OP_CALLF, OP_JUMPF} =>
             /\ x \in Nat /\ x <= InOutLimit /\ Callee.max_stack_height \in Nat /\ y \in Nat
             /\ r => y <= InOutLimit
      /\ op = OP_CALLF => r
      /\ ReturnsBy(b, v, Visited) => o <= InOutLimit
  BY VisitedFacts
<1>2. o \in Nat /\ InOutLimit <= 127 /\ InOutLimit \in Nat
  BY SectionFacts, LimitFacts DEF TypeRecord
<1>3. op = OP_RETF => o <= InOutLimit
  BY <1>1 DEF ReturnsBy
<1>4. op = OP_JUMPF /\ r => o <= InOutLimit
  <2>1. op \in {OP_CALLF, OP_JUMPF} => Callee = v.types[WordOf(b, Visited + 1) + 1]
    BY VisitedFacts
  <2> QED  BY <1>1, <2>1 DEF ReturnsBy
<1>5. /\ op = OP_JUMPF /\ r => ~ (o < y) /\ ~ (h > Required)
      /\ op = OP_RETF => ~ (h > o)
      /\ ~ (h < Required)
  BY <1>1 DEF BadHeight
<1>6. /\ OP_CALLF # OP_JUMPF /\ OP_CALLF # OP_RETF /\ OP_JUMPF # OP_RETF
  BY DEF OP_CALLF, OP_JUMPF, OP_RETF
<1>7. /\ op = OP_CALLF => Required = to_int8(x)
      /\ op = OP_JUMPF /\ r => Required = to_int8(o + x - y)
      /\ op = OP_JUMPF /\ ~ r => Required = to_int8(x)
      /\ op = OP_RETF => Required = to_int8(o)
      /\ op \notin {OP_CALLF, OP_JUMPF, OP_RETF} => Required = stack_height_required[op]
  BY <1>1, <1>6 DEF Required
<1>8. HeightAfter = h + (IF op = OP_CALLF THEN to_int8(y - x) ELSE stack_height_change[op])
  BY <1>1 DEF HeightAfter, Change
<1>9. /\ stack_height_required[op] \in Nat /\ stack_height_change[op] \in Int
      /\ stack_height_required[op] + stack_height_change[op] >= 0
      /\ op \in {OP_CALLF, OP_RETF, OP_JUMPF} =>
             stack_height_required[op] = 0 /\ stack_height_change[op] = 0
  BY <1>1, HeightTraits
<1> DEFINE required == stack_height_required[op]
           change   == stack_height_change[op]
<1> HIDE DEF op, x, y, o, h, r, required, change
<1> SUFFICES
      /\ h >= required
      /\ op \in {OP_CALLF, OP_JUMPF} => h >= x
      /\ op = OP_JUMPF /\ r => h = o + x - y
      /\ op = OP_RETF => h = o
      /\ HeightAfter = h + (IF op = OP_CALLF THEN y - x ELSE change)
      /\ HeightAfter \in Nat
  BY DEF op, x, y, o, h, r, required, change
<1>10. CASE op = OP_CALLF
  <2>1. /\ x \in Nat /\ x <= 127 /\ y \in Nat /\ y <= 127 /\ required = 0
    BY <1>1, <1>2, <1>9, <1>10 DEF required
  <2>2. to_int8(x) = x /\ to_int8(y - x) = y - x
    <3>1. y - x \in Int /\ y - x >= -128 /\ y - x <= 127 /\ x \in Int /\ x >= -128
          /\ y - x < 256 /\ x < 256
      BY <2>1
    <3>2. to_int8(x) = x
      BY <2>1, <3>1, SignedByte
    <3> DEFINE d == y - x
    <3>3. d \in Int /\ d >= -128 /\ d < 256 /\ d <= 127
      BY <3>1
    <3> HIDE DEF d
    <3>4. to_int8(d) = d
      BY <3>3, SignedByte
    <3> QED  BY <3>2, <3>4 DEF d
  <2> QED  BY <1>1, <1>5, <1>6, <1>7, <1>8, <1>10, <2>1, <2>2
<1>11. CASE op = OP_JUMPF
  <2>1. /\ x \in Nat /\ x <= 127 /\ y \in Nat /\ required = 0 /\ change = 0
    BY <1>1, <1>2, <1>9, <1>11 DEF required, change
  <2>2. HeightAfter = h /\ h \in Nat
    BY <1>1, <1>6, <1>8, <1>11, <2>1 DEF change
  <2>3. CASE ~ r
    <3>1. to_int8(x) = x
      BY <2>1, SignedByte
    <3> QED  BY <1>1, <1>5, <1>6, <1>7, <1>11, <2>1, <2>2, <2>3, <3>1
  <2>4. CASE r
    <3> DEFINE d == o + x - y
    <3>1. y <= o /\ o <= 127 /\ y <= 127
      BY <1>1, <1>2, <1>4, <1>5, <1>11, <2>1, <2>4
    <3>2. d \in Int /\ d >= -128 /\ d < 256 /\ x <= d
      BY <1>2, <2>1, <3>1
    <3>3. ~ (h > to_int8(d)) /\ ~ (h < to_int8(d))
      BY <1>5, <1>7, <1>11, <2>4
    <3> HIDE DEF d
    <3>4. h = d
      <4>1. to_int8(d) \in Int /\ (d <= 127 => to_int8(d) = d) /\ (d > 127 => to_int8(d) < 0)
        BY <3>2, SignedByte
      <4> QED  BY <1>1, <3>2, <3>3, <4>1
    <3> QED  BY <1>1, <1>6, <1>11, <2>1, <2>2, <3>2, <3>4 DEF d
  <2> QED  BY <2>3, <2>4
<1>12. CASE op = OP_RETF
  <2>1. o <= 127 /\ required = 0 /\ change = 0
    BY <1>2, <1>3, <1>9, <1>12 DEF required, change
  <2>2. to_int8(o) = o
    BY <1>2, <2>1, SignedByte
  <2> QED  BY <1>1, <1>2, <1>5, <1>6, <1>7, <1>8, <1>12, <2>1, <2>2 DEF change
<1>13. CASE op \notin {OP_CALLF, OP_JUMPF, OP_RETF}
  <2>1. ~ (h < required) /\ HeightAfter = h + change
    BY <1>5, <1>7, <1>8, <1>13 DEF required, change
  <2>2. required \in Nat /\ change \in Int /\ required + change >= 0 /\ h \in Nat
    BY <1>1, <1>9 DEF required, change
  <2>3. h >= required /\ HeightAfter \in Nat
    BY <2>1, <2>2
  <2> QED  BY <1>13, <2>1, <2>3
<1> QED  BY <1>10, <1>11, <1>12, <1>13

\* The elements of a sequence.
Elements(s) == {s[k] : k \in 1..Len(s)}

\* They are what was appended, and nothing else.
LEMMA AppendElements ==
    ASSUME NEW s \in Seq(Int), NEW x \in Int
    PROVE  Append(s, x) \in Seq(Int) /\ Elements(Append(s, x)) = Elements(s) \cup {x}
<1> DEFINE t == Append(s, x)
           n == Len(s)
<1>1. /\ t \in Seq(Int) /\ Len(t) = n + 1 /\ n \in Nat /\ t[n + 1] = x
      /\ \A k \in 1..n : t[k] = s[k]
  OBVIOUS
<1>2. \A k : k \in 1..n + 1 <=> k \in 1..n \/ k = n + 1
  BY <1>1
<1> HIDE DEF t, n
<1> QED  BY <1>1, <1>2 DEF Elements, t, n

\* The elements of a sequence without its last one.
LEMMA FrontElements ==
    ASSUME NEW s \in Seq(Int), s # << >>
    PROVE  LET front == SubSeq(s, 1, Len(s) - 1)
           IN  /\ front \in Seq(Int)
               /\ Elements(s) = Elements(front) \cup {s[Len(s)]}
<1> DEFINE m     == Len(s) - 1
           front == SubSeq(s, 1, m)
<1>1. m \in Nat /\ Len(s) = m + 1 /\ m + 1 \in 1..Len(s)
  OBVIOUS
<1> HIDE DEF m
<1>2. /\ front \in Seq(Int) /\ Len(front) = m /\ \A k \in 1..m : front[k] = s[k]
  BY <1>1
<1>3. \A k : k \in 1..m + 1 <=> k \in 1..m \/ k = m + 1
  BY <1>1
<1> HIDE DEF front
<1>4. front \in Seq(Int) /\ Elements(s) = Elements(front) \cup {s[Len(s)]}
  BY <1>1, <1>2, <1>3 DEF Elements
<1> QED  BY <1>4 DEF front, m

\* The elements of one sequence after another.
LEMMA BothElements ==
    ASSUME NEW s \in Seq(Int), NEW t \in Seq(Int)
    PROVE  /\ s \o t \in Seq(Int) /\ DOMAIN (s \o t) = 1..Len(s \o t)
           /\ Elements(s \o t) = Elements(s) \cup Elements(t)
<1> DEFINE both == s \o t
           m == Len(s)
           n == Len(t)
<1>1. /\ both \in Seq(Int) /\ Len(both) = m + n /\ m \in Nat /\ n \in Nat
      /\ DOMAIN both = 1..Len(both)
      /\ \A k \in 1..m : both[k] = s[k]
      /\ \A k \in 1..n : both[m + k] = t[k]
  OBVIOUS
<1> HIDE DEF both, m, n
<1>2. \A k \in 1..m : k \in 1..m + n
  BY <1>1
<1>3. \A k \in 1..n : m + k \in 1..m + n
  BY <1>1
<1>4. \A k \in 1..m + n : k \in 1..m \/ (k - m \in 1..n /\ m + (k - m) = k)
  BY <1>1
<1>5. ASSUME NEW x \in Elements(both) PROVE x \in Elements(s) \cup Elements(t)
  <2>1. PICK k \in 1..m + n : x = both[k]
    BY <1>1, <1>5 DEF Elements
  <2>2. CASE k \in 1..m
    BY <1>1, <2>1, <2>2 DEF Elements, m
  <2>3. CASE k - m \in 1..n /\ m + (k - m) = k
    BY <1>1, <2>1, <2>3 DEF Elements, n
  <2> QED  BY <1>4, <2>2, <2>3
<1>6. ASSUME NEW x \in Elements(s) PROVE x \in Elements(both)
  BY <1>1, <1>2, <1>6 DEF Elements, m
<1>7. ASSUME NEW x \in Elements(t) PROVE x \in Elements(both)
  BY <1>1, <1>3, <1>7 DEF Elements, n
<1> QED  BY <1>1, <1>5, <1>6, <1>7 DEF both

\* The next instruction and the targets, all of them instructions of the section.
LEMMA SuccessorsOf ==
    ASSUME IInv, phase = "heights", worklist # << >>, FallsThrough => Following < CodeSize
    PROVE  LET b == CodeOf(container, validated, code_idx)
               n == validated.code_sizes[code_idx]
           IN  /\ Successors \in Seq(Int) /\ DOMAIN Successors = 1..Len(Successors)
               /\ Elements(Successors) \subseteq StartsOf(b, n)
               /\ FallsThrough <=> b[Visited] \notin TerminatingOps \cup {OP_RJUMP}
               /\ FallsThrough => After(b, Visited) < n
                                  /\ After(b, Visited) \in Elements(Successors)
               /\ Dests(b, Visited) \subseteq Elements(Successors)
<1> DEFINE b == CodeOf(container, validated, code_idx)
           n == validated.code_sizes[code_idx]
           q == Visited
           one == IF FallsThrough THEN <<Following>> ELSE << >>
<1>1. /\ b \in [Nat -> Byte] /\ n \in Nat \ {0} /\ CodeSize = n /\ SectionInv
      /\ q \in Nat /\ q \in StartsOf(b, n) /\ Code(q) = b[q] /\ Following = After(b, q)
      /\ \A p \in Nat : /\ Targets(p) \in Seq(Int)
                        /\ {Targets(p)[k] : k \in DOMAIN Targets(p)} = Dests(b, p)
  BY SectionFacts, VisitedFacts
<1>2. Targets(q) \in Seq(Int) /\ {Targets(q)[k] : k \in DOMAIN Targets(q)} = Dests(b, q)
  BY <1>1
<1>3. Elements(Targets(q)) = Dests(b, q)
  <2>1. DOMAIN Targets(q) = 1..Len(Targets(q))
    BY <1>2
  <2> QED  BY <1>2, <2>1 DEF Elements
<1>4. After(b, q) \in Int
  <2>1. After(b, q) \in Nat
    BY <1>1, CodeFacts
  <2> HIDE DEF b, q
  <2> QED  BY <2>1
<1>5. one \in Seq(Int) /\ Elements(one) = IF FallsThrough THEN {After(b, q)} ELSE {}
  <2> DEFINE next == After(b, q)
  <2>1. one = IF FallsThrough THEN <<next>> ELSE << >>
    BY <1>1
  <2> HIDE DEF next
  <2>2. CASE FallsThrough
    BY <1>4, <2>1, <2>2 DEF Elements, next
  <2>3. CASE ~ FallsThrough
    BY <1>4, <2>1, <2>3 DEF Elements, next
  <2> QED  BY <2>2, <2>3
<1>6. Successors = one \o Targets(q)
  BY DEF Successors
<1>7. /\ Successors \in Seq(Int) /\ DOMAIN Successors = 1..Len(Successors)
      /\ Elements(Successors) = Elements(one) \cup Dests(b, q)
  <2> DEFINE targets == Targets(q)
  <2>1. targets \in Seq(Int) /\ one \in Seq(Int) /\ Elements(targets) = Dests(b, q)
    BY <1>2, <1>3, <1>5
  <2>2. Successors = one \o targets
    BY <1>6
  <2> HIDE DEF targets, one, b
  <2> QED  BY <2>1, <2>2, BothElements
<1>8. Dests(b, q) \subseteq StartsOf(b, n)
  BY <1>1 DEF SectionInv, JumpsOk
<1>9. FallsThrough => After(b, q) < n /\ After(b, q) \in StartsOf(b, n)
  BY <1>1, AfterStart
<1>10. FallsThrough <=> b[q] \notin TerminatingOps \cup {OP_RJUMP}
  BY <1>1 DEF FallsThrough
<1> HIDE DEF b, n, q, one
<1>11. Elements(Successors) \subseteq StartsOf(b, n)
  BY <1>5, <1>7, <1>8, <1>9
<1>12. FallsThrough => After(b, q) < n /\ After(b, q) \in Elements(Successors)
  BY <1>5, <1>7, <1>9
<1>13. Dests(b, q) \subseteq Elements(Successors)
  BY <1>7
<1> QED  BY <1>7, <1>10, <1>11, <1>12, <1>13 DEF b, n, q

\* The instructions keep their heights when immediate data is marked.
LEMMA MarkedStarts ==
    ASSUME IInv, phase = "heights", worklist # << >>
    PROVE  LET b == CodeOf(container, validated, code_idx)
               n == validated.code_sizes[code_idx]
           IN  /\ Marked \in [0..n - 1 -> Int]
               /\ \A p \in StartsOf(b, n) : Marked[p] = heights[code_idx][p]
<1> DEFINE b == CodeOf(container, validated, code_idx)
           n == validated.code_sizes[code_idx]
           q == Visited
           H == heights[code_idx]
<1>1. /\ b \in [Nat -> Byte] /\ n \in Nat \ {0} /\ CodeSize = n /\ SectionInv
      /\ q \in Nat /\ q \in StartsOf(b, n) /\ Following = After(b, q)
  BY SectionFacts, VisitedFacts
<1>2. H \in [0..n - 1 -> Int]
  BY <1>1 DEF SectionInv
<1>3. After(b, q) \in Nat /\ StartsOf(b, n) \subseteq 0..n - 1
  BY <1>1, CodeFacts, StartFacts
<1>4. ASSUME NEW p \in StartsOf(b, n) PROVE p \notin (q + 1)..(After(b, q) - 1)
  <2>1. p < After(b, q) => p <= q
    BY <1>1, StartsApart
  <2>2. p \in Nat
    BY <1>1, <1>3
  <2> QED  BY <1>1, <1>3, <2>1, <2>2
<1>5. Marked = [p \in 0..n - 1 |-> IF p \in (q + 1)..(After(b, q) - 1) THEN LOC_IMMEDIATE
                                                                        ELSE H[p]]
  BY <1>1 DEF Marked
<1>6. LOC_IMMEDIATE \in Int
  BY DEF LOC_IMMEDIATE
<1> HIDE DEF b, n, q, H
<1> QED  BY <1>2, <1>3, <1>4, <1>5, <1>6 DEF b, n, q, H

\* Pushing leaves on the worklist what was below its top, and the fresh successors.
LEMMA PushedElements ==
    ASSUME worklist \in Seq(Int), worklist # << >>, Successors \in Seq(Int)
    PROVE  LET fresh == {k \in 1..Len(Successors) : Fresh(Successors, k)}
           IN  /\ Pushed \in Seq(Int)
               /\ Elements(worklist) \subseteq Elements(Pushed) \cup {Visited}
               /\ Elements(Pushed) \subseteq
                      Elements(worklist) \cup {Successors[k] : k \in fresh}
               /\ {Successors[k] : k \in fresh} \subseteq Elements(Pushed)
<1> DEFINE n     == Len(Successors)
           front == SubSeq(worklist, 1, Len(worklist) - 1)
           fresh == {k \in 1..n : Fresh(Successors, k)}
           Term(f, k)     == IF k = 0 THEN front
                             ELSE IF Fresh(Successors, k) THEN Append(f[k - 1], Successors[k])
                             ELSE f[k - 1]
           Value(f, last) == f = [k \in 0..last |-> Term(f, k)]
           upto           == CHOOSE f : Value(f, n)
<1>1. Pushed = upto[n]
  BY DEF Pushed
<1>2. n \in Nat /\ \A k \in 1..n : Successors[k] \in Int
  OBVIOUS
<1>3. front \in Seq(Int) /\ Elements(worklist) = Elements(front) \cup {Visited}
  BY FrontElements DEF Visited
<1> HIDE DEF n, front
<1>4. \A last \in 0..n : \E f : Value(f, last)
  <2> DEFINE missing == {last \in 0..n : ~ \E f : Value(f, last)}
  <2> SUFFICES ASSUME missing # {} PROVE FALSE
    OBVIOUS
  <2>1. PICK k \in missing : \A j \in missing : k <= j
    <3>1. missing \in SUBSET Nat
      OBVIOUS
    <3> HIDE DEF missing
    <3> QED  BY <3>1, LeastNatural
  <2>2. CASE k = 0
    <3> DEFINE f == [j \in 0..0 |-> front]
    <3>1. Value(f, 0)
      OBVIOUS
    <3> QED  BY <2>1, <2>2, <3>1
  <2>3. CASE k # 0
    <3>1. k - 1 \in 0..n /\ k \in 1..n /\ k - 1 \notin missing
      <4>1. k \in 0..n
        BY <2>1
      <4>2. k - 1 \in 0..n /\ k \in 1..n /\ ~ (k <= k - 1)
        BY <1>2, <2>3, <4>1
      <4> HIDE DEF missing
      <4> QED  BY <2>1, <4>2
    <3>2. PICK f : Value(f, k - 1)
      BY <3>1
    <3> DEFINE top == IF Fresh(Successors, k) THEN Append(f[k - 1], Successors[k])
                                              ELSE f[k - 1]
               g == [j \in 0..k |-> IF j = k THEN top ELSE f[j]]
    <3>3. \A j \in 0..k : g[j] = Term(g, j)
      <4>1. ASSUME NEW j \in 0..k PROVE g[j] = Term(g, j)
        <5>1. CASE j = k
          <6>1. k - 1 \in 0..k /\ k - 1 # k /\ k # 0
            BY <1>2, <3>1
          <6>2. g[k] = top /\ g[k - 1] = f[k - 1]
            BY <1>2, <3>1, <6>1
          <6> HIDE DEF g
          <6> QED  BY <5>1, <6>1, <6>2
        <5>2. CASE j # k
          <6>1. j \in 0..k - 1 /\ f[j] = Term(f, j)
            <7>1. j \in 0..k - 1
              BY <1>2, <3>1, <5>2
            <7> QED  BY <3>2, <7>1
          <6>2. j # 0 => j - 1 \in 0..k /\ j - 1 # k
            BY <1>2, <3>1, <6>1
          <6> HIDE DEF top
          <6>3. g[j] = f[j] /\ (j # 0 => g[j - 1] = f[j - 1])
            BY <5>2, <6>2
          <6> HIDE DEF g
          <6> QED  BY <6>1, <6>3
        <5> QED  BY <5>1, <5>2
      <4> QED  BY <4>1
    <3>4. g = [j \in 0..k |-> g[j]]
      OBVIOUS
    <3> HIDE DEF g
    <3>5. g = [j \in 0..k |-> Term(g, j)]
      BY <3>3, <3>4
    <3> QED  BY <2>1, <3>5
  <2> QED  BY <2>2, <2>3
<1>5. \A k \in 0..n : upto[k] = Term(upto, k)
  <2>1. n \in 0..n
    BY <1>2
  <2>2. Value(upto, n)
    <3> HIDE DEF Value
    <3> QED  BY <1>4, <2>1
  <2> HIDE DEF upto
  <2> QED  BY <2>2
<1> HIDE DEF upto
<1> DEFINE Of(k)   == {Successors[j] : j \in {m \in 1..k : Fresh(Successors, m)}}
           Good(k) == upto[k] \in Seq(Int) /\ Elements(upto[k]) = Elements(front) \cup Of(k)
<1>6. \A k \in 0..n : Good(k)
  <2> DEFINE missing == {k \in 0..n : ~ Good(k)}
  <2> SUFFICES ASSUME missing # {} PROVE FALSE
    OBVIOUS
  <2>1. PICK k \in missing : \A j \in missing : k <= j
    <3>1. missing \in SUBSET Nat
      OBVIOUS
    <3> HIDE DEF missing
    <3> QED  BY <3>1, LeastNatural
  <2>2. k \in 0..n /\ ~ Good(k) /\ upto[k] = Term(upto, k)
    BY <1>5, <2>1
  <2>3. CASE k = 0
    <3>1. upto[k] = front /\ Of(k) = {}
      BY <2>2, <2>3
    <3> QED  BY <1>3, <2>2, <3>1
  <2>4. CASE k # 0
    <3>1. k - 1 \in 0..n /\ k \in 1..n /\ ~ (k <= k - 1)
      BY <1>2, <2>2, <2>4
    <3>2. Good(k - 1)
      BY <2>1, <3>1
    <3>3. \A m : m \in 1..k <=> m \in 1..k - 1 \/ m = k
      BY <3>1
    <3>4. Successors[k] \in Int
      BY <1>2, <3>1
    <3>5. CASE Fresh(Successors, k)
      <4>1. Of(k) = Of(k - 1) \cup {Successors[k]}
        BY <3>3, <3>5
      <4>2. upto[k] = Append(upto[k - 1], Successors[k])
        BY <2>2, <2>4, <3>5
      <4> HIDE DEF Of
      <4>3. /\ upto[k] \in Seq(Int)
            /\ Elements(upto[k]) = Elements(upto[k - 1]) \cup {Successors[k]}
        BY <3>2, <3>4, <4>2, AppendElements
      <4> QED  BY <2>2, <3>2, <4>1, <4>3
    <3>6. CASE ~ Fresh(Successors, k)
      <4>1. Of(k) = Of(k - 1)
        BY <3>3, <3>6
      <4>2. upto[k] = upto[k - 1]
        BY <2>2, <2>4, <3>6
      <4> HIDE DEF Of
      <4> QED  BY <2>2, <3>2, <4>1, <4>2
    <3> QED  BY <3>5, <3>6
  <2> QED  BY <2>3, <2>4
<1>7. Pushed \in Seq(Int) /\ Elements(Pushed) = Elements(front) \cup Of(n)
  <2>1. n \in 0..n
    BY <1>2
  <2> HIDE DEF Of
  <2> QED  BY <1>1, <1>6, <2>1
<1>8. Of(n) = {Successors[k] : k \in fresh}
  OBVIOUS
<1> QED  BY <1>3, <1>7, <1>8 DEF n

\* The callee of a function call or jump that passed validate_instructions.
LEMMA CalleeType ==
    ASSUME NEW v, WellFormed(v), NEW b \in [Nat -> Byte], NEW n, NEW p \in Nat,
           Checked(b, n, v, p), b[p] \in {OP_CALLF, OP_JUMPF}
    PROVE  LET k == WordOf(b, p + 1) + 1
           IN  /\ WordOf(b, p + 1) \in Nat /\ k \in 1..Len(v.code_sizes)
               /\ v.types[k].inputs \in Nat /\ v.types[k].inputs <= InOutLimit
               /\ v.types[k].max_stack_height \in Nat /\ v.types[k].outputs \in Nat
               /\ v.types[k].max_stack_height <= MAX_STACK_HEIGHT
<1> DEFINE fid == WordOf(b, p + 1)
           m   == Len(v.code_sizes)
<1>1. fid \in Nat
  <2>1. p + 1 \in Nat
    OBVIOUS
  <2> QED  BY <2>1, CodeFacts
<1>2. m \in Nat /\ Len(v.types) = m /\ v.types \in [1..m -> TypeRecord]
      /\ \A k \in 1..m : v.types[k].inputs <= InOutLimit
                         /\ v.types[k].max_stack_height <= MAX_STACK_HEIGHT
  BY DEF WellFormed
<1>3. fid < m
  BY <1>2 DEF Checked
<1> HIDE DEF fid, m
<1>4. fid + 1 \in 1..m
  BY <1>1, <1>2, <1>3
<1>5. v.types[fid + 1] \in TypeRecord
  BY <1>2, <1>4
<1> QED  BY <1>1, <1>2, <1>4, <1>5 DEF fid, m, TypeRecord

\* What a settled instruction leaves on the stack is a height.
LEMMA SettledHeight ==
    ASSUME NEW v, WellFormed(v), NEW b \in [Nat -> Byte], NEW n, NEW p \in Nat, NEW own, NEW H,
           Checked(b, n, v, p), H[p] \in Nat, Settled(b, n, v, own, H, p)
    PROVE  LET op     == b[p]
               callee == v.types[WordOf(b, p + 1) + 1]
           IN  /\ H[p] + (IF op = OP_CALLF THEN callee.outputs - callee.inputs
                                           ELSE stack_height_change[op]) \in Nat
               /\ H[p] + stack_height_change[op] \in Nat
<1> DEFINE op       == b[p]
           x        == v.types[WordOf(b, p + 1) + 1].inputs
           y        == v.types[WordOf(b, p + 1) + 1].outputs
           h        == H[p]
           change   == stack_height_change[op]
           required == stack_height_required[op]
<1>1. op \in Byte /\ h \in Nat /\ h >= required
      /\ (op \in {OP_CALLF, OP_JUMPF} => h >= x)
  BY DEF Checked, Settled
<1>2. op = OP_CALLF => x \in Nat /\ y \in Nat
  BY CalleeType
<1>3. required \in Nat /\ change \in Int /\ required + change >= 0
  BY <1>1, HeightTraits
<1> HIDE DEF op, x, y, h, change, required
<1>4. h + (IF op = OP_CALLF THEN y - x ELSE change) \in Nat /\ h + change \in Nat
  BY <1>1, <1>2, <1>3
<1> QED  BY <1>4 DEF op, x, y, h, change, required

\* An instruction that is settled stays settled when others are visited.
LEMMA SettledKept ==
    ASSUME NEW v, WellFormed(v), NEW b \in [Nat -> Byte], NEW n \in Nat \ {0},
           JumpsOk(b, n), NEW p \in StartsOf(b, n), NEW own, NEW H, NEW I,
           Checked(b, n, v, p), H[p] \in Nat, Settled(b, n, v, own, H, p),
           \A x \in StartsOf(b, n) : H[x] # LOC_UNVISITED => I[x] = H[x]
    PROVE  Settled(b, n, v, own, I, p)
<1> DEFINE op     == b[p]
           callee == v.types[WordOf(b, p + 1) + 1]
           left   == H[p] + (IF op = OP_CALLF THEN callee.outputs - callee.inputs
                                              ELSE stack_height_change[op])
           jumped == H[p] + stack_height_change[op]
<1>1. p \in Nat
  BY StartFacts
<1>2. left \in Nat /\ jumped \in Nat
  BY <1>1, SettledHeight
<1>3. \A x \in Nat : x # LOC_UNVISITED
  BY DEF LOC_UNVISITED
<1>4. I[p] = H[p]
  BY <1>3
<1>5. op \notin TerminatingOps \cup {OP_RJUMP} =>
          After(b, p) < n /\ I[After(b, p)] = left
  <2> SUFFICES ASSUME op \notin TerminatingOps \cup {OP_RJUMP}
               PROVE  After(b, p) < n /\ I[After(b, p)] = left
    OBVIOUS
  <2>1. After(b, p) < n /\ H[After(b, p)] = left
    BY DEF Settled
  <2>2. After(b, p) \in StartsOf(b, n)
    BY <2>1, AfterStart
  <2> HIDE DEF left
  <2> QED  BY <1>2, <1>3, <2>1, <2>2
<1>6. \A d \in Dests(b, p) : I[d] = jumped
  <2> SUFFICES ASSUME NEW d \in Dests(b, p) PROVE I[d] = jumped
    OBVIOUS
  <2>1. H[d] = jumped /\ d \in StartsOf(b, n)
    BY DEF Settled, JumpsOk
  <2> HIDE DEF jumped
  <2> QED  BY <1>2, <1>3, <2>1
<1> QED  BY <1>4, <1>5, <1>6 DEF Settled

\* After a visit the successors have the height the instruction leaves, and every
\* instruction that had a height before still has it.
LEMMA VisitHeights ==
    ASSUME IInv, phase = "heights", worklist # << >>, BadHeight = "none",
           FallsThrough => Following < CodeSize, ~ Mismatch
    PROVE  LET b == CodeOf(container, validated, code_idx)
               n == validated.code_sizes[code_idx]
               H == heights[code_idx]
               news == {Successors[k] :
                            k \in {j \in DOMAIN Successors : Fresh(Successors, j)}}
               I == [p \in 0..CodeSize - 1 |->
                        IF p \in news THEN HeightAfter ELSE Marked[p]]
           IN  /\ I \in [0..n - 1 -> Int] /\ news \subseteq StartsOf(b, n)
               /\ \A x \in StartsOf(b, n) : H[x] # LOC_UNVISITED => I[x] = H[x]
               /\ \A x \in StartsOf(b, n) :
                     H[x] = LOC_UNVISITED /\ x \notin news => I[x] = LOC_UNVISITED
               /\ \A x \in Elements(Successors) : I[x] = HeightAfter
               /\ news \subseteq Elements(Successors)
<1> DEFINE b == CodeOf(container, validated, code_idx)
           n == validated.code_sizes[code_idx]
           H == heights[code_idx]
           S == StartsOf(b, n)
           m == Len(Successors)
           news == {Successors[k] : k \in {j \in DOMAIN Successors : Fresh(Successors, j)}}
           I == [p \in 0..CodeSize - 1 |-> IF p \in news THEN HeightAfter ELSE Marked[p]]
<1>1. /\ CodeSize = n /\ S \subseteq 0..n - 1 /\ Marked \in [0..n - 1 -> Int]
      /\ \A p \in S : Marked[p] = H[p]
  BY SectionFacts, MarkedStarts, StartFacts
<1>2. /\ Successors \in Seq(Int) /\ DOMAIN Successors = 1..m /\ m \in Nat
      /\ Elements(Successors) \subseteq S
  BY SuccessorsOf
<1>3. HeightAfter \in Nat
  BY HeightAccepted
<1>4. /\ news = {Successors[k] : k \in {j \in 1..m : Fresh(Successors, j)}}
       /\ I = [p \in 0..CodeSize - 1 |-> IF p \in news THEN HeightAfter ELSE Marked[p]]
  BY <1>2
<1> HIDE DEF S, n, H, m, news, I
<1>5. I \in [0..n - 1 -> Int]
      /\ \A p \in S : I[p] = IF p \in news THEN HeightAfter ELSE H[p]
  <2>1. I = [p \in 0..n - 1 |-> IF p \in news THEN HeightAfter ELSE Marked[p]]
    BY <1>1, <1>4
  <2>2. \A p \in 0..n - 1 : Marked[p] \in Int
    BY <1>1
  <2>3. I \in [0..n - 1 -> Int]
    BY <1>3, <2>1, <2>2
  <2>4. ASSUME NEW p \in S PROVE I[p] = IF p \in news THEN HeightAfter ELSE H[p]
    <3>1. p \in 0..n - 1 /\ Marked[p] = H[p]
      BY <1>1
    <3> QED  BY <2>1, <3>1
  <2> QED  BY <2>3, <2>4
<1>6. \A k \in 1..m : Successors[k] \in S
  BY <1>2 DEF Elements, m
<1>7. ASSUME NEW k \in 1..m, Fresh(Successors, k) PROVE H[Successors[k]] = LOC_UNVISITED
  BY <1>1, <1>6, <1>7 DEF Fresh
<1>8. news \subseteq Elements(Successors) /\ news \subseteq S
      /\ \A x \in news : H[x] = LOC_UNVISITED
  BY <1>4, <1>6, <1>7 DEF Elements, m
<1>9. ASSUME NEW x \in S, H[x] # LOC_UNVISITED PROVE I[x] = H[x]
  BY <1>5, <1>8, <1>9
<1>10. ASSUME NEW x \in S, H[x] = LOC_UNVISITED, x \notin news PROVE I[x] = LOC_UNVISITED
  BY <1>5, <1>10
<1>11. ASSUME NEW x \in Elements(Successors) PROVE I[x] = HeightAfter
  <2> DEFINE at == {k \in 1..m : Successors[k] = x}
  <2>1. at # {}
    BY DEF Elements, m
  <2>2. PICK k \in at : \A j \in at : k <= j
    <3>1. at \in SUBSET Nat
      OBVIOUS
    <3> HIDE DEF at
    <3> QED  BY <2>1, <3>1, LeastNatural
  <2>3. k \in 1..m /\ Successors[k] = x /\ x \in S
    BY <1>6, <2>2
  <2>4. H[x] \in {LOC_UNVISITED, HeightAfter}
    BY <1>1, <1>2, <2>3 DEF Mismatch
  <2>5. CASE H[x] = LOC_UNVISITED
    <3>1. \A j \in 1..k - 1 : Successors[j] # Successors[k]
      <4> SUFFICES ASSUME NEW j \in 1..k - 1, Successors[j] = Successors[k] PROVE FALSE
        OBVIOUS
      <4>1. j \in at /\ ~ (k <= j)
        BY <1>2, <2>3
      <4> HIDE DEF at
      <4> QED  BY <2>2, <4>1
    <3>2. Fresh(Successors, k)
      BY <1>1, <2>3, <2>5, <3>1 DEF Fresh
    <3>3. x \in news
      BY <1>4, <2>3, <3>2
    <3> QED  BY <1>5, <2>3, <3>3
  <2>6. CASE H[x] = HeightAfter
    BY <1>5, <2>3, <2>6
  <2> QED  BY <2>4, <2>5, <2>6
<1> QED  BY <1>5, <1>8, <1>9, <1>10, <1>11 DEF S, n, H, news, I

\* The instruction that was visited is settled.
LEMMA VisitedSettled ==
    ASSUME IInv, phase = "heights", worklist # << >>, BadHeight = "none",
           FallsThrough => Following < CodeSize, NEW I,
           I[Visited] = Height, \A x \in Elements(Successors) : I[x] = HeightAfter
    PROVE  LET v == validated
               b == CodeOf(container, v, code_idx)
               n == v.code_sizes[code_idx]
           IN  Settled(b, n, v, v.types[code_idx], I, Visited)
<1> DEFINE v  == validated
           b  == CodeOf(container, v, code_idx)
           n  == v.code_sizes[code_idx]
           q  == Visited
           op == b[q]
           callee == v.types[WordOf(b, q + 1) + 1]
<1>1. /\ op \in Byte /\ OwnType = v.types[code_idx]
      /\ op \in {OP_CALLF, OP_JUMPF} => Callee = callee
  BY VisitedFacts, SectionFacts
<1>2. /\ Height >= stack_height_required[op]
      /\ op \in {OP_CALLF, OP_JUMPF} => Height >= Callee.inputs
      /\ op = OP_JUMPF /\ Returns(Callee.outputs) =>
             Height = OwnType.outputs + Callee.inputs - Callee.outputs
      /\ op = OP_RETF => Height = OwnType.outputs
      /\ HeightAfter = Height + (IF op = OP_CALLF THEN Callee.outputs - Callee.inputs
                                                  ELSE stack_height_change[op])
  BY HeightAccepted
<1>3. /\ FallsThrough <=> op \notin TerminatingOps \cup {OP_RJUMP}
      /\ FallsThrough => After(b, q) < n /\ After(b, q) \in Elements(Successors)
      /\ Dests(b, q) \subseteq Elements(Successors)
  BY SuccessorsOf
<1>4. ASSUME NEW d \in Dests(b, q) PROVE I[d] = Height + stack_height_change[op]
  <2>1. op \in {OP_RJUMP, OP_RJUMPI, OP_RJUMPV}
    BY DEF Dests
  <2>2. op # OP_CALLF
    BY <2>1 DEF OP_RJUMP, OP_RJUMPI, OP_RJUMPV, OP_CALLF
  <2> HIDE DEF b, q, op
  <2> QED  BY <1>2, <1>3, <2>2
<1>5. op \notin TerminatingOps \cup {OP_RJUMP} =>
         /\ After(b, q) < n
         /\ I[After(b, q)] = Height + (IF op = OP_CALLF THEN callee.outputs - callee.inputs
                                                        ELSE stack_height_change[op])
  <2> HIDE DEF b, n, q, op, callee
  <2> QED  BY <1>1, <1>2, <1>3
<1>6. /\ Height >= stack_height_required[op]
      /\ op \in {OP_CALLF, OP_JUMPF} => Height >= callee.inputs
      /\ op = OP_JUMPF /\ Returns(callee.outputs) =>
             Height = v.types[code_idx].outputs + callee.inputs - callee.outputs
      /\ op = OP_RETF => Height = v.types[code_idx].outputs
  <2> HIDE DEF b, q, op, callee, v
  <2> QED  BY <1>1, <1>2
<1> QED  BY <1>4, <1>5, <1>6 DEF Settled

\* validate_max_stack_height goes from an instruction to its successors.
LEMMA VisitInv ==
    ASSUME IInv, validate_max_stack_height
    PROVE  IInv'
<1> DEFINE v    == validated
           b    == CodeOf(container, v, code_idx)
           n    == v.code_sizes[code_idx]
           own  == v.types[code_idx]
           H    == heights[code_idx]
           news == {Successors[k] : k \in {j \in DOMAIN Successors : Fresh(Successors, j)}}
           I    == [p \in 0..CodeSize - 1 |-> IF p \in news THEN HeightAfter ELSE Marked[p]]
<1>1. /\ phase = "heights" /\ worklist # << >> /\ UNCHANGED parser /\ Bounds
      /\ SectionInv /\ WellFormed(v) /\ b \in [Nat -> Byte] /\ n \in Nat \ {0}
      /\ OwnType = own /\ own \in TypeRecord /\ code_idx \in 1..Len(v.code_sizes)
      /\ header = v
  BY SectionFacts DEF validate_max_stack_height, IInv
<1>2. UNCHANGED it /\ it' \in Nat /\ it' <= Len(container)
  BY <1>1 DEF parser, Bounds
<1>3. ASSUME NEW error, Reject(error) PROVE IInv'
  BY <1>2, <1>3, Rejected
<1>4. ASSUME BadHeight = "none", FallsThrough => Following < CodeSize, ~ Mismatch,
             heights' = [heights EXCEPT ![code_idx] = I], worklist' = Pushed, Advance(phase),
             UNCHANGED <<header, validated, code_idx, i, is_returning, rjumpdests,
                         immediates>>
      PROVE  IInv'
  <2>1. UNCHANGED <<container, machine>> /\ phase' = "heights"
    BY <1>1, <1>4 DEF Advance
  <2>2. /\ Successors \in Seq(Int) /\ DOMAIN Successors = 1..Len(Successors)
        /\ Elements(Successors) \subseteq StartsOf(b, n)
    BY <1>1, <1>4, SuccessorsOf
  <2>3. news = {Successors[k] : k \in {j \in 1..Len(Successors) : Fresh(Successors, j)}}
    BY <2>2
  <2>4. /\ I \in [0..n - 1 -> Int] /\ news \subseteq StartsOf(b, n)
        /\ \A x \in StartsOf(b, n) : H[x] # LOC_UNVISITED => I[x] = H[x]
        /\ \A x \in StartsOf(b, n) :
              H[x] = LOC_UNVISITED /\ x \notin news => I[x] = LOC_UNVISITED
        /\ \A x \in Elements(Successors) : I[x] = HeightAfter
        /\ news \subseteq Elements(Successors)
    BY <1>1, <1>4, VisitHeights
  <2>5. /\ worklist \in Seq(StartsOf(b, n)) /\ Visited \in StartsOf(b, n)
        /\ Height = H[Visited] /\ Height \in Nat
        /\ StartsOf(b, n) \subseteq 0..n - 1
    BY <1>1, VisitedFacts, StartFacts
  <2>6. HeightAfter \in Nat
    BY <1>1, <1>4, HeightAccepted
  <2>7. /\ worklist' \in Seq(Int)
        /\ Elements(worklist) \subseteq Elements(worklist') \cup {Visited}
        /\ Elements(worklist') \subseteq Elements(worklist) \cup news
        /\ news \subseteq Elements(worklist')
    <3>1. worklist \in Seq(Int)
      <4> DEFINE S == StartsOf(b, n)
      <4>1. S \subseteq Int /\ worklist \in Seq(S) /\ Len(worklist) \in Nat
        BY <1>1, <2>5
      <4> HIDE DEF S
      <4>2. ASSUME NEW j \in 1..Len(worklist) PROVE worklist[j] \in Int
        <5>1. worklist[j] \in S
          BY <4>1
        <5> QED  BY <4>1, <5>1
      <4> QED  BY <4>1, <4>2
    <3> HIDE DEF news
    <3> QED  BY <1>1, <1>4, <2>2, <2>3, <3>1, PushedElements
  <2> HIDE DEF news, I
  <2>8. /\ heights \in Seq(HeightMaps) /\ Len(heights) = code_idx /\ code_idx \in 1..Len(heights)
        /\ Before(code_idx - 1) /\ InstructionsOk(b, n, v, own) /\ JumpsOk(b, n)
        /\ immediates \cup rjumpdests \subseteq 0..n - 1
        /\ H[0] = own.inputs /\ own.inputs \in Nat
        /\ \A j \in 1..Len(worklist) : H[worklist[j]] \in Nat
        /\ \A p \in StartsOf(b, n) :
              \/ H[p] = LOC_UNVISITED
              \/ /\ H[p] \in Nat
                 /\ \/ \E j \in 1..Len(worklist) : worklist[j] = p
                    \/ Settled(b, n, v, own, H, p)
    BY <1>1 DEF SectionInv, TypeRecord
  <2>9. I \in HeightMaps
    <3>1. n \in Nat
      BY <1>1
    <3> HIDE DEF n
    <3> QED  BY <2>4, <3>1 DEF HeightMaps
  <2>10. /\ heights' \in Seq(HeightMaps) /\ Len(heights') = code_idx /\ heights'[code_idx] = I
         /\ \A k \in 1..code_idx - 1 : heights'[k] = heights[k]
    <3>1. heights' = [heights EXCEPT ![code_idx] = I]
      BY <1>4
    <3> DEFINE k == code_idx
    <3> HIDE DEF k, b, n, own, H, v
    <3>2. k \in Nat /\ k \in 1..Len(heights) /\ \A j \in 1..k - 1 : j # k /\ j \in 1..Len(heights)
      BY <2>8 DEF k
    <3> QED  BY <2>8, <2>9, <3>1, <3>2 DEF k
  <2>11. \A x \in Nat : x # LOC_UNVISITED
    BY DEF LOC_UNVISITED
  <2>12. \A x \in StartsOf(b, n) : H[x] # LOC_UNVISITED => I[x] = H[x]
    BY <2>4
  <2>13. I[0] = own.inputs /\ 0 \in StartsOf(b, n)
    BY <1>1, <2>4, <2>8, <2>11, StartFacts
  <2>14. I[Visited] = Height
    BY <2>4, <2>5, <2>11
  <2>15. \A x \in news : I[x] \in Nat
    BY <2>4, <2>6
  <2>16. \A x \in Elements(worklist) : x \in StartsOf(b, n) /\ H[x] \in Nat /\ I[x] \in Nat
    <3> SUFFICES ASSUME NEW j \in 1..Len(worklist)
                 PROVE  worklist[j] \in StartsOf(b, n) /\ H[worklist[j]] \in Nat
                        /\ I[worklist[j]] \in Nat
      BY DEF Elements
    <3> HIDE DEF b, n, H
    <3>1. worklist[j] \in StartsOf(b, n) /\ H[worklist[j]] \in Nat
      BY <2>5, <2>8
    <3> QED  BY <2>11, <2>12, <3>1
  <2>17. \A x \in Elements(worklist') : x \in StartsOf(b, n) /\ I[x] \in Nat
    BY <2>4, <2>7, <2>15, <2>16
  <2>18. worklist' \in Seq(StartsOf(b, n))
         /\ \A j \in 1..Len(worklist') : I[worklist'[j]] \in Nat
    <3> DEFINE S == StartsOf(b, n)
    <3>1. \A j \in 1..Len(worklist') : worklist'[j] \in S /\ I[worklist'[j]] \in Nat
      BY <2>17 DEF Elements
    <3> HIDE DEF S
    <3>2. worklist' \in Seq(S)
      BY <2>7, <3>1
    <3> QED  BY <3>1, <3>2 DEF S
  <2>19. ASSUME NEW p \in StartsOf(b, n), H[p] \in Nat, Settled(b, n, v, own, H, p)
         PROVE  Settled(b, n, v, own, I, p)
    <3>1. Checked(b, n, v, p)
      BY <2>8 DEF InstructionsOk
    <3> HIDE DEF b, n, H, own, v
    <3> QED  BY <1>1, <2>8, <2>12, <2>19, <3>1, SettledKept DEF v
  <2>20. Settled(b, n, v, own, I, Visited)
    BY <1>1, <1>4, <2>4, <2>14, VisitedSettled
  <2>21. ASSUME NEW p \in StartsOf(b, n)
         PROVE  \/ I[p] = LOC_UNVISITED
                \/ /\ I[p] \in Nat
                   /\ \/ \E j \in 1..Len(worklist') : worklist'[j] = p
                      \/ Settled(b, n, v, own, I, p)
    <3>1. CASE H[p] = LOC_UNVISITED /\ p \notin news
      BY <2>4, <3>1
    <3>2. CASE p \in news
      BY <2>7, <2>15, <3>2 DEF Elements
    <3>3. CASE H[p] # LOC_UNVISITED /\ p \in Elements(worklist)
      BY <2>7, <2>16, <2>20, <3>3 DEF Elements
    <3>4. CASE H[p] # LOC_UNVISITED /\ p \notin Elements(worklist)
      <4>1. H[p] \in Nat /\ Settled(b, n, v, own, H, p)
        BY <2>8, <3>4 DEF Elements
      <4> QED  BY <2>12, <2>19, <3>4, <4>1
    <3> QED  BY <3>1, <3>2, <3>3, <3>4
  <2>22. Before(code_idx - 1)'
    BY <1>4, <2>1, <2>8, <2>10 DEF Before
  <2> HIDE DEF b, n, own, H
  <2>23. b' = b /\ n' = n /\ own' = own
    BY <1>4, <2>1 DEF b, n, own
  <2>24. SectionInv'
    <3>1. /\ b = CodeOf(container, validated, code_idx) /\ n = validated.code_sizes[code_idx]
          /\ own = validated.types[code_idx]
      BY DEF b, n, own
    <3> QED
      BY <1>1, <1>4, <2>1, <2>4, <2>8, <2>10, <2>13, <2>18, <2>21, <2>22, <3>1
      DEF SectionInv
  <2> QED  BY <1>2, <2>1, <2>24, SectionStep
<1> QED  BY <1>3, <1>4 DEF validate_max_stack_height

\* One of the heights of a section is the highest.
LEMMA Highest ==
    ASSUME NEW n \in Nat \ {0}, NEW H \in [0..n - 1 -> Int]
    PROVE  \E h \in {H[p] : p \in 0..n - 1} : \A p \in 0..n - 1 : H[p] <= h
<1> DEFINE High(m)  == \E k \in 0..m - 1 : \A p \in 0..m - 1 : H[p] <= H[k]
           missing  == {m \in 1..n : ~ High(m)}
<1>1. \A p \in 0..n - 1 : H[p] \in Int
  OBVIOUS
<1>2. missing = {}
  <2> SUFFICES ASSUME missing # {} PROVE FALSE
    OBVIOUS
  <2>1. PICK m \in missing : \A j \in missing : m <= j
    <3>1. missing \in SUBSET Nat
      OBVIOUS
    <3> HIDE DEF missing
    <3> QED  BY <3>1, LeastNatural
  <2>2. m \in 1..n /\ ~ High(m)
    BY <2>1
  <2>3. CASE m = 1
    <3>1. 0 \in 0..m - 1 /\ \A p \in 0..m - 1 : p = 0
      BY <2>3
    <3>2. H[0] <= H[0]
      BY <1>1
    <3> QED  BY <2>2, <3>1, <3>2
  <2>4. CASE m # 1
    <3>1. m - 1 \in 1..n /\ ~ (m <= m - 1) /\ m - 1 \in Nat
      BY <2>2, <2>4
    <3>2. m - 1 \notin missing
      <4> HIDE DEF missing
      <4> QED  BY <2>1, <3>1
    <3>3. High(m - 1)
      BY <3>1, <3>2
    <3>4. PICK k \in 0..(m - 1) - 1 : \A p \in 0..(m - 1) - 1 : H[p] <= H[k]
      BY <3>3
    <3>5. /\ k \in 0..m - 1 /\ m - 1 \in 0..m - 1 /\ 0..m - 1 \subseteq 0..n - 1
          /\ \A p \in 0..m - 1 : p \in 0..(m - 1) - 1 \/ p = m - 1
      BY <2>2, <3>1
    <3>6. H[k] \in Int /\ H[m - 1] \in Int
      BY <1>1, <3>5
    <3>7. CASE H[m - 1] <= H[k]
      <4>1. \A p \in 0..m - 1 : H[p] <= H[k]
        BY <3>4, <3>5, <3>7
      <4> QED  BY <2>2, <3>5, <4>1
    <3>8. CASE ~ (H[m - 1] <= H[k])
      <4>1. \A p \in 0..m - 1 : H[p] <= H[m - 1]
        <5> SUFFICES ASSUME NEW p \in 0..m - 1 PROVE H[p] <= H[m - 1]
          OBVIOUS
        <5>1. H[p] \in Int
          BY <1>1, <3>5
        <5>2. CASE p = m - 1
          BY <3>6, <5>2
        <5>3. CASE p \in 0..(m - 1) - 1
          <6>1. H[p] <= H[k]
            BY <3>4, <5>3
          <6> QED  BY <3>6, <3>8, <5>1, <6>1
        <5> QED  BY <3>5, <5>2, <5>3
      <4> QED  BY <2>2, <3>5, <4>1
    <3> QED  BY <3>7, <3>8
  <2> QED  BY <2>3, <2>4
<1>3. n \in 1..n /\ n \notin missing
  <2> HIDE DEF missing
  <2> QED  BY <1>2
<1>4. PICK k \in 0..n - 1 : \A p \in 0..n - 1 : H[p] <= H[k]
  BY <1>3
<1> QED  BY <1>4

\* A section whose instructions are all settled, none higher than its type says, is
\* valid.
LEMMA SectionDone ==
    ASSUME IInv, phase = "heights", worklist = << >>,
           \A p \in DOMAIN heights[code_idx] : heights[code_idx][p] # LOC_UNVISITED,
           OwnType.max_stack_height =
               CHOOSE h \in {heights[code_idx][p] : p \in DOMAIN heights[code_idx]} :
                   \A p \in DOMAIN heights[code_idx] : heights[code_idx][p] <= h
    PROVE  SectionOk(container, validated, code_idx, heights[code_idx])
<1> DEFINE v   == validated
           b   == CodeOf(container, v, code_idx)
           n   == v.code_sizes[code_idx]
           own == v.types[code_idx]
           H   == heights[code_idx]
           max == own.max_stack_height
<1>1. /\ SectionInv /\ b \in [Nat -> Byte] /\ n \in Nat \ {0} /\ OwnType = own
      /\ own \in TypeRecord
  BY SectionFacts
<1>2. /\ H \in [0..n - 1 -> Int] /\ InstructionsOk(b, n, v, own) /\ JumpsOk(b, n)
      /\ H[0] = own.inputs
      /\ \A p \in StartsOf(b, n) :
            \/ H[p] = LOC_UNVISITED
            \/ /\ H[p] \in Nat
               /\ \/ \E j \in 1..Len(worklist) : worklist[j] = p
                  \/ Settled(b, n, v, own, H, p)
  BY <1>1 DEF SectionInv
<1>3. max \in Nat /\ StartsOf(b, n) \subseteq 0..n - 1 /\ 1..Len(worklist) = {}
  BY <1>1, StartFacts DEF TypeRecord
<1> HIDE DEF b, n, own, H, max, v
<1>4. max = CHOOSE h \in {H[p] : p \in DOMAIN H} : \A p \in DOMAIN H : H[p] <= h
  BY <1>1 DEF H, max
<1>5. DOMAIN H = 0..n - 1
  BY <1>2
<1>6. \A p \in 0..n - 1 : H[p] <= max
  <2> DEFINE Top(h) == h \in {H[p] : p \in 0..n - 1} /\ \A p \in 0..n - 1 : H[p] <= h
  <2>1. \E h : Top(h)
    BY <1>1, <1>2, Highest
  <2>2. max = CHOOSE h : Top(h)
    BY <1>4, <1>5
  <2> HIDE DEF Top
  <2>3. Top(max)
    BY <2>1, <2>2
  <2> QED  BY <2>3 DEF Top
<1>7. ASSUME NEW p \in StartsOf(b, n)
      PROVE  H[p] \in 0..max /\ Settled(b, n, v, own, H, p)
  <2>1. p \in 0..n - 1 /\ H[p] # LOC_UNVISITED /\ H[p] <= max
    BY <1>3, <1>5, <1>6 DEF H
  <2>2. H[p] \in Nat /\ Settled(b, n, v, own, H, p)
    BY <1>2, <1>3, <2>1
  <2> QED  BY <1>3, <2>1, <2>2
<1> QED  BY <1>2, <1>7 DEF SectionOk, b, n, own, H, max, v

\* The next section is validated, or the container is valid.
LEMMA HeightsEndInv ==
    ASSUME IInv, HeightsEnd
    PROVE  IInv'
<1> DEFINE v   == validated
           own == heights[code_idx]
           max == CHOOSE h \in {own[p] : p \in DOMAIN own} : \A p \in DOMAIN own : own[p] <= h
           k   == code_idx + 1
           b   == CodeOf(container, v, k)
           n   == v.code_sizes[k]
<1>1. /\ phase = "heights" /\ worklist = << >> /\ Bounds /\ SectionInv /\ WellFormed(v)
      /\ header = v /\ Before(code_idx - 1) /\ code_idx \in 1..Len(v.code_sizes)
      /\ container \in Seq(Byte)
  BY SectionFacts DEF HeightsEnd, IInv
<1>2. ASSUME NEW error, Reject(error), UNCHANGED parser PROVE IInv'
  <2>1. UNCHANGED it /\ it' \in Nat /\ it' <= Len(container)
    BY <1>1, <1>2 DEF parser, Bounds
  <2> QED  BY <1>2, <2>1, Rejected
<1>3. ASSUME \A p \in DOMAIN own : own[p] # LOC_UNVISITED, max = OwnType.max_stack_height
      PROVE  Before(code_idx)
  <2>1. SectionOk(container, v, code_idx, own)
    BY <1>1, <1>3, SectionDone
  <2>2. \A j \in 1..code_idx : j \in 1..code_idx - 1 \/ j = code_idx
    BY <1>1
  <2> HIDE DEF own
  <2> QED  BY <1>1, <2>1, <2>2 DEF Before, own
<1>4. ASSUME Before(code_idx), code_idx < Len(header.code_sizes), code_idx' = k,
             phase' = "instructions", UNCHANGED <<verdict, header, it, state, headers>>,
             UNCHANGED <<container, machine, validated, heights, worklist>>,
             i' = 0, is_returning' = FALSE, rjumpdests' = {}, immediates' = {}
      PROVE  IInv'
  <2>1. k \in 1..Len(v.code_sizes) /\ k - 1 = code_idx /\ Len(v.code_sizes) \in Nat
    BY <1>1, <1>4 DEF WellFormed
  <2>2. b \in [Nat -> Byte] /\ n \in Nat \ {0}
    <3>1. v.code_offsets[k] \in Nat /\ n \in Nat \ {0}
      <4> HIDE DEF k, n
      <4> QED  BY <1>1, <2>1 DEF WellFormed, n
    <3> HIDE DEF k
    <3> QED  BY <1>1, <3>1, CodeType
  <2>3. WalkedTo(b, n, 0) /\ \A p \in StartsOf(b, n) : ~ (p < 0)
    BY <2>2, WalkedToStart, StartFacts
  <2>4. heights \in Seq(HeightMaps) /\ Len(heights) = code_idx
    BY <1>1 DEF SectionInv
  <2> HIDE DEF k, b, n
  <2>5. CodeOf(container', validated', code_idx') = b /\ validated'.code_sizes[code_idx'] = n
    BY <1>4 DEF b, n
  <2>6. Before(code_idx - 1)'
    BY <1>4, <2>1 DEF Before
  <2>7. SectionInv'
    BY <1>1, <1>4, <2>1, <2>3, <2>4, <2>5, <2>6 DEF SectionInv
  <2> QED  BY <1>1, <1>4, <2>7, SectionStep
<1>5. ASSUME Before(code_idx), code_idx = Len(header.code_sizes), phase' = "read", it' = 3,
             headers' = NoHeaders, UNCHANGED <<container, machine, validated, heights>>
      PROVE  IInv'
  <2>1. 3 <= Len(container)
    <3>1. /\ 13 + 2 * Len(v.code_sizes) <= Len(container)
          /\ Len(v.code_sizes) \in Nat /\ Len(container) \in Nat
      BY <1>1, <1>5 DEF Before, Laid, WellFormed
    <3> QED  BY <3>1
  <2>2. Bounds'
    BY <1>1, <1>5, <2>1, BoundsKept
  <2>3. Before(Len(validated.code_sizes))'
    BY <1>1, <1>5 DEF Before
  <2>4. ReadInv'
    BY <1>5, <2>3 DEF ReadInv
  <2> QED  BY <1>5, <2>2, <2>4 DEF IInv
<1>6. CASE \E p \in DOMAIN own : own[p] = LOC_UNVISITED
  BY <1>2, <1>6 DEF HeightsEnd
<1>7. CASE \A p \in DOMAIN own : own[p] # LOC_UNVISITED
  <2>1. CASE max # OwnType.max_stack_height
    BY <1>2, <1>7, <2>1 DEF HeightsEnd
  <2>2. CASE max = OwnType.max_stack_height
    <3>1. Before(code_idx)
      BY <1>3, <1>7, <2>2
    <3>2. /\ UNCHANGED <<container, machine, validated, heights, worklist>>
          /\ i' = 0 /\ is_returning' = FALSE /\ rjumpdests' = {} /\ immediates' = {}
          /\ \/ /\ code_idx < Len(header.code_sizes)
                /\ code_idx' = k /\ phase' = "instructions"
                /\ UNCHANGED <<verdict, header, it, state, headers>>
             \/ /\ code_idx = Len(header.code_sizes)
                /\ phase' = "read" /\ it' = 3 /\ headers' = NoHeaders
      BY <1>7, <2>2 DEF HeightsEnd
    <3> HIDE DEF k, max, own
    <3> QED  BY <1>4, <1>5, <3>1, <3>2
  <2> QED  BY <2>1, <2>2
<1> QED  BY <1>6, <1>7

-----------------------------------------------------------------------------
(* read_valid_eof1_header.                                                 *)

\* What the header of a valid container says about its front.
LEMMA LaidFacts ==
    ASSUME NEW c \in Seq(Byte), NEW v, WellFormed(v), Laid(c, v)
    PROVE  LET n == Len(v.code_sizes)
               h == HeadersOf(v)
           IN  /\ n \in Nat \ {0} /\ h[CODE_SECTION] \in Seq(Nat)
               /\ h = [id \in {TYPE_SECTION, CODE_SECTION, DATA_SECTION} |-> h[id]]
               /\ Get(c, 3) = TYPE_SECTION /\ h[TYPE_SECTION] = <<Get16(c, 4)>>
               /\ Get(c, 6) = CODE_SECTION /\ Get16(c, 7) = n
               /\ h[CODE_SECTION] = [j \in 1..n |-> Get16(c, 9 + 2 * (j - 1))]
               /\ Get(c, 9 + 2 * n) = DATA_SECTION
               /\ h[DATA_SECTION] = <<Get16(c, 10 + 2 * n)>>
               /\ Get(c, 12 + 2 * n) = TERMINATOR
               /\ 13 + 2 * n <= Len(c) /\ Len(c) \in Nat
<1> DEFINE n == Len(v.code_sizes)
           h == HeadersOf(v)
<1>1. n \in Nat \ {0} /\ v.code_sizes \in [1..n -> Nat] /\ v.code_sizes \in Seq(Nat)
  <2> DEFINE s == v.code_sizes
  <2>1. n \in 1..SectionLimit /\ s \in [1..n -> Nat \ {0}]
    BY DEF WellFormed
  <2>2. n \in Nat \ {0}
    BY <2>1, LimitFacts
  <2> HIDE DEF n, s
  <2>3. \A k \in 1..n : s[k] \in Nat
    BY <2>1
  <2>4. s = [k \in 1..n |-> s[k]]
    BY <2>1
  <2>5. s \in [1..n -> Nat] /\ s \in Seq(Nat)
    BY <2>2, <2>3, <2>4
  <2> QED  BY <2>2, <2>5 DEF s
<1>2. /\ TypeHeader(c, h) /\ CodeHeader(c, h, n, n) /\ DataHeader(c, h, n)
      /\ Get(c, 12 + 2 * n) = TERMINATOR /\ 13 + 2 * n <= Len(c)
  BY DEF Laid
<1>3. h[CODE_SECTION] = v.code_sizes
  BY DEF HeadersOf, TYPE_SECTION, CODE_SECTION, DATA_SECTION
<1>4. h = [id \in {TYPE_SECTION, CODE_SECTION, DATA_SECTION} |-> h[id]]
  BY DEF HeadersOf
<1> HIDE DEF h, n
<1>5. \A j \in 1..n : v.code_sizes[j] = Get16(c, 9 + 2 * (j - 1))
  BY <1>2, <1>3 DEF CodeHeader
<1>6. h[CODE_SECTION] = [j \in 1..n |-> Get16(c, 9 + 2 * (j - 1))]
  BY <1>1, <1>3, <1>5
<1>7. h[CODE_SECTION] \in Seq(Nat)
  BY <1>1, <1>3
<1>8. /\ Get(c, 3) = TYPE_SECTION /\ h[TYPE_SECTION] = <<Get16(c, 4)>>
      /\ Get(c, 6) = CODE_SECTION /\ Get16(c, 7) = n
      /\ Get(c, 9 + 2 * n) = DATA_SECTION /\ h[DATA_SECTION] = <<Get16(c, 10 + 2 * n)>>
  BY <1>2 DEF TypeHeader, CodeHeader, DataHeader
<1>9. Len(c) \in Nat
  OBVIOUS
<1> QED  BY <1>1, <1>2, <1>4, <1>6, <1>7, <1>8, <1>9 DEF h, n

\* The first size of a section.
LEMMA FirstSize ==
    ASSUME NEW x \in Nat
    PROVE  Append(<< >>, x) = <<x>>
OBVIOUS

\* A section header that is known to be there.
LEMMA ReadSectionInv ==
    ASSUME IInv, ReadSection
    PROVE  IInv'
<1> DEFINE c == container
           v == validated
           n == Len(v.code_sizes)
           h == HeadersOf(v)
           Ids == {TYPE_SECTION, CODE_SECTION, DATA_SECTION}
           id  == At(it)
           num == read_uint16_be(it + 1)
<1>1. /\ phase = "read" /\ Bounds /\ ReadInv /\ c \in Seq(Byte) /\ it \in Nat /\ Before(n)
      /\ WellFormed(v) /\ Laid(c, v)
  BY DEF IInv, ReadSection, ReadInv, Before, Bounds
<1>2. /\ n \in Nat \ {0} /\ h[CODE_SECTION] \in Seq(Nat) /\ h = [x \in Ids |-> h[x]]
      /\ Get(c, 3) = TYPE_SECTION /\ h[TYPE_SECTION] = <<Get16(c, 4)>>
      /\ Get(c, 6) = CODE_SECTION /\ Get16(c, 7) = n
      /\ h[CODE_SECTION] = [j \in 1..n |-> Get16(c, 9 + 2 * (j - 1))]
      /\ Get(c, 9 + 2 * n) = DATA_SECTION /\ h[DATA_SECTION] = <<Get16(c, 10 + 2 * n)>>
      /\ Get(c, 12 + 2 * n) = TERMINATOR
      /\ 13 + 2 * n <= Len(c) /\ Len(c) \in Nat
  BY <1>1, LaidFacts
<1>3. id = Get(c, it) /\ num = Get16(c, it + 1) /\ id # TERMINATOR
  BY <1>1, Reading DEF ReadSection
<1>4. /\ \/ /\ id = CODE_SECTION
            /\ headers' = [headers EXCEPT ![id] = @ \o SizesAt(it + 3, num)]
            /\ it' = it + 3 + 2 * num
         \/ /\ id # CODE_SECTION
            /\ headers' = [headers EXCEPT ![id] = Append(@, num)]
            /\ it' = it + 3
      /\ UNCHANGED <<container, phase, validated, heights, machine>>
  BY DEF ReadSection, section
<1>5. /\ TYPE_SECTION # CODE_SECTION /\ DATA_SECTION # CODE_SECTION
      /\ TYPE_SECTION # DATA_SECTION
  BY DEF TYPE_SECTION, CODE_SECTION, DATA_SECTION
<1>6. NoHeaders = [x \in Ids |-> << >>]
  BY DEF NoHeaders
<1> HIDE DEF h, n, id, num, Ids
<1>7. num \in Nat
  <2>1. it + 1 \in Nat
    BY <1>1
  <2> QED  BY <1>1, <1>3, <2>1, GetType
<1>8. \/ it = 3 /\ headers = NoHeaders
      \/ it = 6 /\ headers = [NoHeaders EXCEPT ![TYPE_SECTION] = h[TYPE_SECTION]]
      \/ it = 9 + 2 * n /\ headers = [h EXCEPT ![DATA_SECTION] = << >>]
      \/ it = 12 + 2 * n /\ headers = h
  BY <1>1 DEF ReadInv, h, n
<1>9. \/ it' = 6 /\ headers' = [NoHeaders EXCEPT ![TYPE_SECTION] = h[TYPE_SECTION]]
      \/ it' = 9 + 2 * n /\ headers' = [h EXCEPT ![DATA_SECTION] = << >>]
      \/ it' = 12 + 2 * n /\ headers' = h
  <2>1. CASE it = 3 /\ headers = NoHeaders
    <3>1. id = TYPE_SECTION /\ num = Get16(c, 4)
      BY <1>2, <1>3, <2>1
    <3>2. headers' = [NoHeaders EXCEPT ![TYPE_SECTION] = Append(@, num)] /\ it' = 6
      BY <1>4, <1>5, <2>1, <3>1
    <3>3. Append(NoHeaders[TYPE_SECTION], num) = h[TYPE_SECTION]
      <4>1. NoHeaders[TYPE_SECTION] = << >> /\ h[TYPE_SECTION] = <<num>>
        BY <1>2, <1>6, <3>1 DEF Ids
      <4> QED  BY <1>7, <4>1, FirstSize
    <3> QED  BY <3>2, <3>3
  <2>2. CASE it = 6 /\ headers = [NoHeaders EXCEPT ![TYPE_SECTION] = h[TYPE_SECTION]]
    <3>1. id = CODE_SECTION /\ num = n
      BY <1>2, <1>3, <2>2
    <3>2. it' = 9 + 2 * n /\ headers' = [headers EXCEPT ![CODE_SECTION] = @ \o SizesAt(9, n)]
      <4>1. it + 3 = 9 /\ it + 3 + 2 * n = 9 + 2 * n
        BY <1>2, <2>2
      <4> QED  BY <1>4, <3>1, <4>1
    <3>3. SizesAt(9, n) = h[CODE_SECTION]
      <4>1. \A j \in 1..n : 9 + 2 * (j - 1) \in Int
        BY <1>2
      <4>2. \A j \in 1..n : read_uint16_be(9 + 2 * (j - 1)) = Get16(c, 9 + 2 * (j - 1))
        BY <4>1, Reading
      <4> QED  BY <1>2, <4>2 DEF SizesAt
    <3>4. SizesAt(9, n) \in Seq(Nat)
      BY <1>2, <3>3
    <3>5. headers[CODE_SECTION] \o SizesAt(9, n) = h[CODE_SECTION]
      <4>1. headers[CODE_SECTION] = << >>
        BY <1>5, <1>6, <2>2 DEF Ids
      <4> DEFINE s == SizesAt(9, n)
      <4> HIDE DEF s
      <4>2. << >> \o s = s
        BY <3>4 DEF s
      <4> QED  BY <3>3, <4>1, <4>2 DEF s
    <3>6. headers' = [h EXCEPT ![DATA_SECTION] = << >>]
      BY <1>2, <1>5, <1>6, <2>2, <3>2, <3>5 DEF Ids
    <3> QED  BY <3>2, <3>6
  <2>3. CASE it = 9 + 2 * n /\ headers = [h EXCEPT ![DATA_SECTION] = << >>]
    <3>1. it + 1 = 10 + 2 * n /\ it + 3 = 12 + 2 * n
      BY <1>2, <2>3
    <3>2. id = DATA_SECTION /\ num = Get16(c, 10 + 2 * n)
      BY <1>2, <1>3, <2>3, <3>1
    <3>3. headers' = [headers EXCEPT ![DATA_SECTION] = Append(@, num)] /\ it' = 12 + 2 * n
      BY <1>4, <1>5, <3>1, <3>2
    <3>4. headers[DATA_SECTION] = << >>
      BY <1>2, <2>3 DEF Ids
    <3>5. Append(headers[DATA_SECTION], num) = h[DATA_SECTION]
      BY <1>2, <1>7, <3>2, <3>4, FirstSize
    <3>6. headers' = h
      BY <1>2, <2>3, <3>3, <3>5 DEF Ids
    <3> QED  BY <3>3, <3>6
  <2>4. CASE it = 12 + 2 * n /\ headers = h
    BY <1>2, <1>3, <2>4
  <2> QED  BY <1>8, <2>1, <2>2, <2>3, <2>4
<1>10. it' \in Nat /\ it' <= Len(c)
  BY <1>2, <1>9
<1>11. Bounds'
  BY <1>1, <1>4, <1>10, BoundsKept
<1>12. Before(Len(validated.code_sizes))'
  BY <1>1, <1>4 DEF Before, n
<1>13. ReadInv'
  <2>1. h' = h /\ n' = n
    BY <1>4 DEF h, n
  <2> QED  BY <1>9, <1>12, <2>1 DEF ReadInv, h, n
<1> QED  BY <1>1, <1>4, <1>11, <1>13 DEF IInv

\* What validation leaves for the execution, section by section.
LEMMA ValidSection ==
    ASSUME NEW k, Before(Len(validated.code_sizes)), container \in Seq(Byte),
           k \in 1..Len(validated.code_sizes)
    PROVE  LET v == validated
               b == CodeOf(container, v, k)
               n == v.code_sizes[k]
           IN  /\ WellFormed(v) /\ Len(v.code_sizes) \in Nat \ {0}
               /\ b \in [Nat -> Byte] /\ n \in Nat \ {0} /\ v.code_offsets[k] \in Nat
               /\ v.types[k] \in TypeRecord /\ v.types[k].max_stack_height <= MAX_STACK_HEIGHT
               /\ v.types[k].inputs <= v.types[k].max_stack_height
               /\ SectionOk(container, v, k, heights[k])
               /\ InstructionsOk(b, n, v, v.types[k]) /\ JumpsOk(b, n)
               /\ heights[k][0] = v.types[k].inputs
               /\ StartsOf(b, n) \subseteq 0..n - 1 /\ 0 \in StartsOf(b, n)
               /\ \A p \in StartsOf(b, n) :
                     /\ heights[k][p] \in Nat
                     /\ heights[k][p] <= v.types[k].max_stack_height
                     /\ Checked(b, n, v, p) /\ b[p] \in Byte
                     /\ (ReturnsBy(b, v, p) => Returns(v.types[k].outputs))
                     /\ Settled(b, n, v, v.types[k], heights[k], p)
<1> DEFINE v == validated
           b == CodeOf(container, v, k)
           n == v.code_sizes[k]
           own == v.types[k]
           H == heights[k]
<1>1. WellFormed(v) /\ SectionOk(container, v, k, H)
  BY DEF Before
<1>2. /\ n \in Nat \ {0} /\ v.code_offsets[k] \in Nat /\ own \in TypeRecord
      /\ own.max_stack_height <= MAX_STACK_HEIGHT /\ Len(v.code_sizes) \in Nat \ {0}
  BY <1>1, LimitFacts DEF WellFormed
<1>3. b \in [Nat -> Byte]
  BY <1>2, CodeType
<1>4. /\ InstructionsOk(b, n, v, own) /\ JumpsOk(b, n) /\ H[0] = own.inputs
      /\ \A p \in StartsOf(b, n) :
             H[p] \in 0..own.max_stack_height /\ Settled(b, n, v, own, H, p)
  BY <1>1 DEF SectionOk
<1>5. StartsOf(b, n) \subseteq 0..n - 1 /\ 0 \in StartsOf(b, n)
  BY <1>2, <1>3, StartFacts
<1>6. own.max_stack_height \in Nat
  BY <1>2 DEF TypeRecord
<1>7. \A h \in 0..own.max_stack_height : h \in Nat /\ h <= own.max_stack_height
  BY <1>6
<1> HIDE DEF b, n, own, H, v
<1>8. ASSUME NEW p \in StartsOf(b, n)
      PROVE  /\ H[p] \in Nat /\ H[p] <= own.max_stack_height
             /\ Checked(b, n, v, p) /\ b[p] \in Byte
             /\ (ReturnsBy(b, v, p) => Returns(own.outputs))
             /\ Settled(b, n, v, own, H, p)
  <2>1. Checked(b, n, v, p) /\ (ReturnsBy(b, v, p) => Returns(own.outputs))
    BY <1>4 DEF InstructionsOk
  <2>2. b[p] \in Byte
    BY <2>1 DEF Checked
  <2> QED  BY <1>4, <1>7, <2>1, <2>2
<1>9. own.inputs <= own.max_stack_height
  BY <1>4, <1>5, <1>8
<1> QED  BY <1>1, <1>2, <1>3, <1>4, <1>5, <1>8, <1>9 DEF b, n, own, H, v

\* The header that is read is the one that was validated, and the first section starts
\* with an empty stack.
LEMMA AnalyzeInv ==
    ASSUME IInv, AnalyzeEof1
    PROVE  IInv'
<1> DEFINE c == container
           v == validated
           n == Len(v.code_sizes)
           h == HeadersOf(v)
<1>1. /\ phase = "read" /\ Bounds /\ ReadInv /\ c \in Seq(Byte) /\ it \in Nat /\ it <= Len(c)
      /\ Before(n) /\ WellFormed(v) /\ Laid(c, v)
  BY DEF IInv, AnalyzeEof1, ReadInv, Before, Bounds
<1>2. /\ n \in Nat \ {0} /\ Get(c, 3) = TYPE_SECTION /\ Get(c, 6) = CODE_SECTION
      /\ Get(c, 9 + 2 * n) = DATA_SECTION
  BY <1>1, LaidFacts
<1>3. Get(c, it) = TERMINATOR
  BY <1>1, Reading DEF AnalyzeEof1
<1>4. headers = h
  <2>1. \/ it = 3
        \/ it = 6
        \/ it = 9 + 2 * n
        \/ headers = h
    BY <1>1 DEF ReadInv
  <2> QED
    BY <1>2, <1>3, <2>1 DEF TERMINATOR, TYPE_SECTION, CODE_SECTION, DATA_SECTION
<1>5. header' = v
  <2>1. Assemble(headers) = AssembleIn(c, headers)
    BY DEF Assemble, AssembleIn, TypesAt, TypesIn, At, Get, read_uint16_be, Get16
  <2>2. v = AssembleIn(c, h)
    BY <1>1 DEF Laid
  <2> QED  BY <1>4, <2>1, <2>2 DEF AnalyzeEof1, ReadHeader
<1>6. /\ phase' = "run" /\ UNCHANGED <<container, validated, heights, it>>
      /\ pos' = 0 /\ height' = 0 /\ call_stack' = << >>
      /\ calls' = <<[section |-> 1, base |-> 0]>>
  BY DEF AnalyzeEof1, section, parser
<1>7. StackLimit \in Nat
  BY LimitFacts
<1>8. Bounds'
  BY <1>1, <1>6, <1>7 DEF Bounds
<1> DEFINE first == [section |-> 1, base |-> 0]
<1>9. /\ 1 \in 1..n /\ v.code_offsets[1] \in Nat
      /\ v.types[1].max_stack_height \in Nat
      /\ v.types[1].max_stack_height <= StackLimit
      /\ v.types[1].inputs = 0 /\ ~ Returns(v.types[1].outputs)
      /\ heights[1][0] = 0 /\ 0 \in StartsOf(CodeOf(c, v, 1), v.code_sizes[1])
  <2>1. 1 \in 1..n
    BY <1>2
  <2>2. /\ v.code_offsets[1] \in Nat /\ v.types[1] \in TypeRecord
        /\ v.types[1].max_stack_height <= MAX_STACK_HEIGHT
        /\ heights[1][0] = v.types[1].inputs
        /\ 0 \in StartsOf(CodeOf(c, v, 1), v.code_sizes[1])
    BY <1>1, <2>1, ValidSection
  <2>3. v.types[1].inputs = 0 /\ v.types[1].outputs = NON_RETURNING_FUNCTION
    BY <1>1 DEF WellFormed
  <2>4. v.types[1].max_stack_height \in Nat
    BY <2>2 DEF TypeRecord
  <2>5. v.types[1].max_stack_height <= StackLimit
    BY <1>7, <2>2, <2>4 DEF MAX_STACK_HEIGHT
  <2> QED  BY <2>1, <2>2, <2>3, <2>4, <2>5 DEF Returns
<1>10. FrameOk(v, first)
  BY <1>9 DEF FrameOk
<1>11. StandsAt(c, v, heights, first, 0, 0)
  <2>1. 0 - (v.code_offsets[1] - v.code_offsets[1]) = 0
    BY <1>9
  <2> QED  BY <1>9, <2>1 DEF StandsAt
<1>12. /\ calls' = <<first>> /\ Len(calls') = 1 /\ calls'[1] = first
       /\ first \in [section : Nat, base : Int] /\ first.section = 1
       /\ Len(call_stack') = 0
  BY <1>6
<1>13. calls' \in Seq([section : Nat, base : Int])
  BY <1>12
<1>14. Before(Len(validated.code_sizes))'
  BY <1>1, <1>6 DEF Before
<1>15. c' = c /\ v' = v
  BY <1>6
<1> HIDE DEF first
<1>16. RunInv'
  <2>1. Len(calls') = Len(call_stack') + 1 /\ \A k \in 1..Len(call_stack') + 1 : k = 1
    BY <1>12
  <2>2. 1..Len(call_stack') = {}
    BY <1>12
  <2> QED
    BY <1>5, <1>6, <1>9, <1>10, <1>11, <1>12, <1>13, <1>14, <1>15, <2>1, <2>2 DEF RunInv
<1> QED  BY <1>6, <1>8, <1>16 DEF IInv

-----------------------------------------------------------------------------
(* The execution.                                                          *)

\* What the tables say of the instructions of a section: no cost is negative but that
\* of an undefined one, only instructions that go on to the next one add to the stack,
\* and the immediate data of jumps and calls is a word.
LEMMA RunTraits ==
    ASSUME NEW op \in Byte
    PROVE  /\ eof_cost_tables[PRAGUE][op] # undefined => eof_cost_tables[PRAGUE][op] \in Nat
           /\ stack_height_change[op] > 0 =>
                  op \notin TerminatingOps \cup {OP_RJUMP, OP_CALLF, OP_RJUMPI, OP_RJUMPV}
           /\ op \in {OP_RJUMP, OP_RJUMPI, OP_CALLF, OP_JUMPF} => immediate_size[op] = 2
           /\ op = OP_RJUMPV => immediate_size[op] = 1
<1>1. /\ op \in {OP_RJUMP, OP_RJUMPI, OP_CALLF, OP_JUMPF} => immediate_size[op] = 2
      /\ op = OP_RJUMPV => immediate_size[op] = 1
  BY DEF immediate_size, PushOps, OP_PUSH1, OP_PUSH32, OP_RJUMP, OP_RJUMPI, OP_CALLF,
     OP_JUMPF, OP_RJUMPV, Byte, OP_DUPN, OP_SWAPN
<1>2. stack_height_change[op] > 0 =>
          op \in EnvironmentOps \cup PushOps \cup DupOps
                   \cup {CodesizeOp, OP_PC, OP_GAS, OP_PUSH0, OP_DUPN, 233, 234}
  BY DEF stack_height_change
<1>3. stack_height_change[op] > 0 =>
          op \notin TerminatingOps \cup {OP_RJUMP, OP_CALLF, OP_RJUMPI, OP_RJUMPV}
  BY <1>2 DEF EnvironmentOps, PushOps, DupOps, CodesizeOp, OP_PC, OP_GAS, OP_PUSH0,
     OP_DUPN, OP_PUSH1, OP_PUSH32, OP_DUP1, TerminatingOps, OP_STOP, OP_RETURN, OP_RETF,
     OP_JUMPF, OP_REVERT, OP_INVALID, OP_SELFDESTRUCT, OP_RJUMP, OP_CALLF, OP_RJUMPI,
     OP_RJUMPV, Byte
<1>4. frontier_costs[op] \in Nat \/ frontier_costs[op] = undefined
  <2>1. \/ frontier_costs[op] \in {0, 1, 2, 3, 5, 8, 10, 20, 30, 40, 50, 32000, undefined}
        \/ op \in LogOps /\ frontier_costs[op] = (op - 159) * 375
    BY DEF frontier_costs
  <2> QED  BY <2>1 DEF LogOps
<1>5. gas_costs[PRAGUE][op] \in Nat \/ gas_costs[PRAGUE][op] = undefined
  <2>1. PRAGUE \in Revision
    BY DEF Revision, FRONTIER, PRAGUE
  <2> DEFINE cost == frontier_costs[op]
  <2>2. cost \in Nat \/ cost = undefined
    BY <1>4
  <2> HIDE DEF cost
  <2>3. gas_costs[PRAGUE][op] = cost \/ gas_costs[PRAGUE][op] \in
            {0, 2, 3, 4, 5, 40, 100, 200, 400, 700, 800, 5000, 32000}
    BY <2>1, SMTT(60) DEF gas_costs, cost
  <2> QED  BY <2>2, <2>3 DEF cost
<1>6. eof_cost_tables[PRAGUE][op] = undefined
      \/ eof_cost_tables[PRAGUE][op] = gas_costs[PRAGUE][op]
  <2>1. PRAGUE \in Revision
    BY DEF Revision, FRONTIER, PRAGUE
  <2> QED  BY <2>1 DEF eof_cost_tables
<1>7. eof_cost_tables[PRAGUE][op] # undefined => eof_cost_tables[PRAGUE][op] \in Nat
  BY <1>5, <1>6
<1> QED  BY <1>1, <1>3, <1>7

\* The function that runs, and the instruction it stands at.
Frame   == calls[Len(calls)]
Ran     == CodeOf(container, validated, Frame.section)
RanSize == validated.code_sizes[Frame.section]
Shift   == validated.code_offsets[Frame.section] - validated.code_offsets[1]
RanAt   == pos - Shift

\* The instruction that is executed is one of the section, with the stack at its height.
LEMMA RunFacts ==
    ASSUME IInv, phase = "run"
    PROVE  LET v == validated
               k == Frame.section
               H == heights[k]
           IN  /\ RunInv /\ header = v /\ container \in Seq(Byte)
               /\ Before(Len(v.code_sizes))
               /\ Len(calls) = Len(call_stack) + 1 /\ Len(call_stack) \in Nat
               /\ call_stack \in Seq(Int) /\ calls \in Seq([section : Nat, base : Int])
               /\ k \in 1..Len(v.code_sizes) /\ FrameOk(v, Frame)
               /\ Frame.base \in Nat
               /\ Frame.base + v.types[k].max_stack_height <= StackLimit
               /\ RanAt \in StartsOf(Ran, RanSize) /\ RanAt \in Nat
               /\ height = Frame.base + H[RanAt]
               /\ Shift \in Int /\ pos \in Int /\ pos = Shift + RanAt
               /\ height \in Nat /\ height <= StackLimit
<1> DEFINE v == validated
           depth == Len(call_stack)
<1>1. RunInv /\ Bounds
  BY DEF IInv
<1>2. /\ header = v /\ Before(Len(v.code_sizes)) /\ Len(calls) = depth + 1
      /\ calls \in Seq([section : Nat, base : Int])
      /\ \A n \in 1..depth + 1 : FrameOk(v, calls[n])
      /\ StandsAt(container, v, heights, calls[depth + 1], pos, height)
  BY <1>1 DEF RunInv
<1>3. /\ call_stack \in Seq(Int) /\ depth \in Nat /\ container \in Seq(Byte)
      /\ height \in Nat /\ height <= StackLimit
  BY <1>1, LimitFacts DEF Bounds
<1>4. Frame = calls[depth + 1] /\ depth + 1 \in 1..depth + 1
  BY <1>2, <1>3 DEF Frame
<1>5. /\ FrameOk(v, Frame) /\ Frame.section \in 1..Len(v.code_sizes) /\ Frame.base \in Nat
      /\ Frame.base + v.types[Frame.section].max_stack_height <= StackLimit
  BY <1>2, <1>4 DEF FrameOk
<1>6. RanAt \in StartsOf(Ran, RanSize) /\ height = Frame.base + heights[Frame.section][RanAt]
  BY <1>2, <1>4 DEF StandsAt, RanAt, Shift, Ran, RanSize
<1>7. WellFormed(v) /\ StartsOf(Ran, RanSize) \subseteq 0..RanSize - 1
      /\ RanSize \in Nat \ {0} /\ v.code_offsets[Frame.section] \in Nat
  BY <1>2, <1>3, <1>5, ValidSection DEF Ran, RanSize
<1>8. v.code_offsets[1] \in Nat
  <2>1. 1 \in 1..Len(v.code_sizes)
    BY <1>7, LimitFacts DEF WellFormed
  <2> QED  BY <1>7, <2>1 DEF WellFormed
<1>9. RanAt \in Nat /\ RanAt = pos - Shift /\ Shift \in Int
  BY <1>6, <1>7, <1>8 DEF RanAt, Shift
<1>10. pos \in Int
  BY <1>1 DEF RunInv
<1> QED  BY <1>1, <1>2, <1>3, <1>5, <1>6, <1>9, <1>10

\* Its type, and the heights of its section.
Own     == validated.types[Frame.section]
Heights == heights[Frame.section]

\* What the handlers read at the program counter are the bytes of the section.
LEMMA RunBytes ==
    ASSUME IInv, phase = "run", NEW q \in Nat
    PROVE  /\ Executed(pos + q) = Ran[RanAt + q]
           /\ Operand(pos + q) = WordOf(Ran, RanAt + q)
           /\ Jump(pos + q) = OffsetOf(Ran, RanAt + q)
<1> DEFINE v  == validated
           o1 == v.code_offsets[1]
           ok == v.code_offsets[Frame.section]
<1>1. /\ header = v /\ RanAt \in Nat /\ pos \in Int /\ Before(Len(v.code_sizes))
      /\ pos = Shift + RanAt /\ Frame.section \in 1..Len(v.code_sizes)
  BY RunFacts
<1>2. WellFormed(v) /\ Len(v.code_sizes) \in Nat \ {0}
  BY <1>1, LimitFacts DEF Before, WellFormed
<1>3. 1 \in 1..Len(v.code_sizes)
  BY <1>2
<1>4. o1 \in Nat /\ ok \in Nat
  BY <1>1, <1>2, <1>3 DEF WellFormed
<1>5. Shift = ok - o1
  BY DEF Shift
<1> HIDE DEF o1, ok
<1>6. o1 + (pos + q) = ok + (RanAt + q)
  BY <1>1, <1>4, <1>5
<1>7. At(o1 + (pos + q)) = Ran[RanAt + q] /\ At(o1 + (pos + q) + 1) = Ran[RanAt + q + 1]
  <2>1. \A r \in Nat : Ran[r] = Get(container, ok + r)
    BY DEF Ran, CodeOf, ok
  <2>2. RanAt + q \in Nat /\ RanAt + q + 1 \in Nat
    BY <1>1
  <2>3. ok + (RanAt + q) + 1 = ok + (RanAt + q + 1)
    BY <1>1, <1>4
  <2> QED  BY <1>6, <2>1, <2>2, <2>3 DEF At, Get
<1>8. Executed(pos + q) = Ran[RanAt + q]
  BY <1>1, <1>7 DEF Executed, o1
<1>9. read_uint16_be(o1 + (pos + q)) = WordOf(Ran, RanAt + q)
  BY <1>7 DEF read_uint16_be, WordOf
<1> QED  BY <1>1, <1>8, <1>9 DEF Operand, Jump, read_int16_be, OffsetOf, o1

\* The instruction that runs is a valid one of its section.
LEMMA RunInstruction ==
    ASSUME IInv, phase = "run"
    PROVE  LET p == RanAt IN
           /\ opcode = Ran[p] /\ opcode \in Byte
           /\ Ran \in [Nat -> Byte] /\ RanSize \in Nat \ {0}
           /\ StartsOf(Ran, RanSize) \subseteq 0..RanSize - 1
           /\ Own \in TypeRecord /\ Own.max_stack_height <= MAX_STACK_HEIGHT
           /\ Checked(Ran, RanSize, validated, p)
           /\ ReturnsBy(Ran, validated, p) => Returns(Own.outputs)
           /\ Dests(Ran, p) \subseteq StartsOf(Ran, RanSize)
           /\ \A s \in StartsOf(Ran, RanSize) : Heights[s] \in 0..Own.max_stack_height
           /\ Settled(Ran, RanSize, validated, Own, Heights, p)
<1> DEFINE k == Frame.section
<1>1. /\ Before(Len(validated.code_sizes)) /\ container \in Seq(Byte)
      /\ k \in 1..Len(validated.code_sizes)
      /\ RanAt \in StartsOf(Ran, RanSize) /\ RanAt \in Nat /\ pos \in Int
  BY RunFacts
<1>2. /\ Ran \in [Nat -> Byte] /\ RanSize \in Nat \ {0}
      /\ StartsOf(Ran, RanSize) \subseteq 0..RanSize - 1
      /\ Own \in TypeRecord /\ Own.max_stack_height <= MAX_STACK_HEIGHT
      /\ SectionOk(container, validated, k, Heights)
      /\ InstructionsOk(Ran, RanSize, validated, Own) /\ JumpsOk(Ran, RanSize)
  BY <1>1, ValidSection DEF Ran, RanSize, Own, Heights
<1>3. opcode = Ran[RanAt] /\ opcode \in Byte
  <2>1. Executed(pos + 0) = Ran[RanAt + 0]
    BY RunBytes
  <2>2. pos + 0 = pos /\ RanAt + 0 = RanAt
    BY <1>1
  <2> QED  BY <1>1, <1>2, <2>1, <2>2 DEF opcode
<1>4. \A s \in StartsOf(Ran, RanSize) :
         Heights[s] \in 0..Own.max_stack_height
         /\ Settled(Ran, RanSize, validated, Own, Heights, s)
  BY <1>2 DEF SectionOk, Ran, RanSize, Own
<1> QED  BY <1>1, <1>2, <1>3, <1>4 DEF InstructionsOk, JumpsOk

\* The execution ends.
LEMMA RunEnded ==
    ASSUME IInv, phase = "run", Ends
    PROVE  IInv'
<1>1. phase' = "done" /\ UNCHANGED <<container, it, height, call_stack>>
  BY DEF Ends, parser, machine
<1>2. Bounds'
  BY <1>1, BoundsKept DEF IInv, Bounds
<1> QED  BY <1>1, <1>2 DEF IInv

\* The execution goes on in the same section, where the heights of the section say
\* what the step makes of the stack.
LEMMA RunMoved ==
    ASSUME IInv, phase = "run", NEW next \in Int, NEW change \in Int,
           Moves(next, change), UNCHANGED <<call_stack, calls>>,
           next - Shift \in StartsOf(Ran, RanSize),
           Heights[next - Shift] = Heights[RanAt] + change
    PROVE  IInv'
<1> DEFINE v == validated
           depth == Len(call_stack)
<1>1. /\ phase' = "run" /\ pos' = next /\ height' = height + change
      /\ UNCHANGED <<container, it, header, validated, heights, call_stack, calls>>
  BY DEF Moves, parser, section
<1>2. /\ RunInv /\ Bounds
  BY DEF IInv
<1>3. /\ depth \in Nat /\ Frame.base \in Nat /\ height \in Nat
      /\ Frame.base + Own.max_stack_height <= StackLimit
      /\ height = Frame.base + Heights[RanAt] /\ Len(calls) = depth + 1
      /\ RanAt \in StartsOf(Ran, RanSize) /\ Before(Len(v.code_sizes))
  BY RunFacts DEF Own, Heights
<1>4. /\ Heights[RanAt] \in Int /\ Heights[next - Shift] \in Nat
      /\ Heights[next - Shift] <= Own.max_stack_height /\ Own.max_stack_height \in Nat
  <2>1. \A s \in StartsOf(Ran, RanSize) : Heights[s] \in 0..Own.max_stack_height
    BY RunInstruction
  <2>2. Own \in TypeRecord
    BY RunInstruction
  <2>3. Own.max_stack_height \in Nat
    BY <2>2 DEF TypeRecord
  <2>4. /\ Heights[RanAt] \in 0..Own.max_stack_height
        /\ Heights[next - Shift] \in 0..Own.max_stack_height
    BY <1>3, <2>1
  <2> QED  BY <2>3, <2>4
<1>5. height' = Frame.base + Heights[next - Shift] /\ height' \in 0..StackLimit
  <2> DEFINE now  == Heights[RanAt]
             then == Heights[next - Shift]
             base == Frame.base
             max  == Own.max_stack_height
  <2>1. then = now + change /\ now \in Int /\ then \in Nat /\ then <= max /\ max \in Nat
    BY <1>4
  <2>2. base \in Nat /\ base + max <= StackLimit /\ height = base + now
    BY <1>3
  <2>3. height' = height + change /\ StackLimit \in Nat
    BY <1>1, LimitFacts
  <2> HIDE DEF now, then, base, max
  <2>4. height' = base + then /\ height' \in 0..StackLimit
    BY <2>1, <2>2, <2>3
  <2> QED  BY <2>4 DEF base, then
<1>6. Bounds'
  BY <1>1, <1>2, <1>5 DEF Bounds
<1>7. StandsAt(container, v, heights, calls[depth + 1], next, height')
  <2>1. Frame = calls[depth + 1]
    BY <1>3 DEF Frame
  <2> QED  BY <1>5, <2>1 DEF StandsAt, Shift, Ran, RanSize, Heights
<1>8. Before(Len(v.code_sizes))'
  BY <1>1, <1>3 DEF Before
<1>9. RunInv'
  BY <1>1, <1>2, <1>7, <1>8 DEF RunInv
<1> QED  BY <1>1, <1>6, <1>9 DEF IInv

\* In particular at the next instruction, where any but the last of a path leads.
LEMMA RunNext ==
    ASSUME IInv, phase = "run", opcode \notin TerminatingOps \cup {OP_RJUMP}
    PROVE  LET next == After(Ran, RanAt) IN
           /\ DataOf(Ran, RanAt) \in Nat /\ next = RanAt + DataOf(Ran, RanAt) + 1
           /\ next \in StartsOf(Ran, RanSize)
           /\ opcode # OP_CALLF =>
                 Heights[next] = Heights[RanAt] + stack_height_change[opcode]
           /\ opcode = OP_CALLF =>
                 LET callee == validated.types[WordOf(Ran, RanAt + 1) + 1]
                 IN  Heights[next] = Heights[RanAt] + (callee.outputs - callee.inputs)
<1>1. /\ opcode = Ran[RanAt] /\ opcode \in Byte /\ Ran \in [Nat -> Byte]
      /\ RanSize \in Nat \ {0} /\ RanAt \in StartsOf(Ran, RanSize) /\ RanAt \in Nat
      /\ Settled(Ran, RanSize, validated, Own, Heights, RanAt)
  BY RunFacts, RunInstruction
<1>2. After(Ran, RanAt) < RanSize
  BY <1>1 DEF Settled
<1>3. After(Ran, RanAt) \in StartsOf(Ran, RanSize)
  BY <1>1, <1>2, AfterStart
<1>4. DataOf(Ran, RanAt) \in Nat
  BY <1>1, CodeFacts
<1> QED  BY <1>1, <1>3, <1>4 DEF Settled, After

\* An instruction of valid code meets its requirements: its height is the one that the
\* validator compared with them, and the height after it fits the stack.
LEMMA RunRequirement ==
    ASSUME IInv, phase = "run"
    PROVE  Requirement = "SUCCESS"
<1> DEFINE cost     == eof_cost_tables[PRAGUE][opcode]
           change   == stack_height_change[opcode]
           required == stack_height_required[opcode]
           base     == Frame.base
           now      == Heights[RanAt]
           max      == Own.max_stack_height
<1>1. /\ base \in Nat /\ base + max <= StackLimit /\ height = base + now
      /\ RanAt \in StartsOf(Ran, RanSize)
  BY RunFacts DEF Own, Heights
<1>2. /\ opcode = Ran[RanAt] /\ opcode \in Byte /\ Own \in TypeRecord
      /\ Checked(Ran, RanSize, validated, RanAt)
      /\ Settled(Ran, RanSize, validated, Own, Heights, RanAt)
      /\ \A s \in StartsOf(Ran, RanSize) : Heights[s] \in 0..max
  BY RunInstruction
<1>3. max \in Nat /\ now \in 0..max /\ StackLimit \in Nat
  BY <1>1, <1>2, LimitFacts DEF TypeRecord
<1>4. cost \in Nat
  BY <1>2, RunTraits DEF Checked
<1>5. change > 0 => height # StackLimit
  <2> SUFFICES ASSUME change > 0 PROVE height # StackLimit
    OBVIOUS
  <2> DEFINE then == Heights[After(Ran, RanAt)]
  <2>1. opcode \notin TerminatingOps \cup {OP_RJUMP, OP_CALLF, OP_RJUMPI, OP_RJUMPV}
    BY <1>2, RunTraits
  <2>2. After(Ran, RanAt) \in StartsOf(Ran, RanSize) /\ then = now + change
    BY <2>1, RunNext
  <2>3. then \in 0..max
    BY <1>2, <2>2
  <2>4. change \in Int
    BY <1>2, HeightTraits
  <2> HIDE DEF then, change, now, base, max
  <2> QED  BY <1>1, <1>3, <2>2, <2>3, <2>4
<1>6. ~ (height < required)
  <2>1. now >= required /\ required \in Nat
    BY <1>2, HeightTraits DEF Settled
  <2> HIDE DEF required, now, base, max
  <2> QED  BY <1>1, <1>3, <2>1
<1> HIDE DEF cost, change, required
<1>7. ~ (cost < 0)
  BY <1>4
<1> QED  BY <1>5, <1>6, <1>7 DEF Requirement, cost, change, required

\* The instructions that go on to the next one.
LEMMA PlainInv ==
    ASSUME IInv, Plain
    PROVE  IInv'
<1> DEFINE next   == pos + 1 + immediate_size[opcode]
           change == stack_height_change[opcode]
<1>1. /\ phase = "run" /\ Moves(next, change) /\ UNCHANGED <<call_stack, calls>>
      /\ opcode \notin TerminatingOps \cup {OP_RJUMP, OP_CALLF, OP_RJUMPV}
  BY DEF Plain, Runs
<1>2. /\ opcode = Ran[RanAt] /\ opcode \in Byte /\ pos \in Int /\ Shift \in Int
      /\ RanAt \in Nat /\ pos = Shift + RanAt
  BY <1>1, RunFacts, RunInstruction
<1>3. change \in Int /\ immediate_size[opcode] \in Nat
  BY <1>2, HeightTraits, ImmediateSizes
<1>4. next - Shift = After(Ran, RanAt) /\ next \in Int
  <2> DEFINE size == immediate_size[opcode]
  <2>1. size \in Nat
    BY <1>3
  <2>2. DataOf(Ran, RanAt) = size + 0
    BY <1>1, <1>2 DEF DataOf
  <2> HIDE DEF size
  <2>3. After(Ran, RanAt) = RanAt + size + 1
    BY <1>2, <2>1, <2>2 DEF After
  <2>4. (pos + 1 + size) - Shift = RanAt + size + 1 /\ pos + 1 + size \in Int
    BY <1>2, <2>1
  <2> QED  BY <2>3, <2>4 DEF size
<1>5. /\ After(Ran, RanAt) \in StartsOf(Ran, RanSize)
      /\ Heights[After(Ran, RanAt)] = Heights[RanAt] + change
  BY <1>1, RunNext
<1> HIDE DEF next, change
<1> QED  BY <1>1, <1>3, <1>4, <1>5, RunMoved

\* DUPN and SWAPN, of one byte of immediate data.
LEMMA IndexedInv ==
    ASSUME IInv, Indexed
    PROVE  IInv'
<1> DEFINE next   == pos + 2
           change == stack_height_change[opcode]
<1>1. phase = "run" /\ opcode \in {OP_DUPN, OP_SWAPN}
  BY DEF Indexed, Runs
<1>2. Ends \/ (Moves(next, change) /\ UNCHANGED <<call_stack, calls>>)
  BY DEF Indexed
<1>3. CASE Ends
  BY <1>1, <1>3, RunEnded
<1>4. CASE Moves(next, change) /\ UNCHANGED <<call_stack, calls>>
  <2>1. /\ opcode = Ran[RanAt] /\ opcode \in Byte /\ pos \in Int /\ Shift \in Int
        /\ RanAt \in Nat /\ pos = Shift + RanAt
    BY <1>1, RunFacts, RunInstruction
  <2>2. change \in Int
    BY <2>1, HeightTraits
  <2>3. opcode \notin TerminatingOps \cup {OP_RJUMP, OP_CALLF, OP_RJUMPV}
    BY <1>1 DEF TerminatingOps, OP_RJUMP, OP_CALLF, OP_RJUMPV, OP_DUPN, OP_SWAPN, OP_STOP,
       OP_RETURN, OP_RETF, OP_JUMPF, OP_REVERT, OP_INVALID, OP_SELFDESTRUCT
  <2>4. next - Shift = After(Ran, RanAt) /\ next \in Int
    <3>1. immediate_size[opcode] = 1
      BY <1>1 DEF immediate_size, OP_DUPN, OP_SWAPN, Byte, PushOps, OP_PUSH1, OP_PUSH32
    <3>2. DataOf(Ran, RanAt) = 1
      BY <2>1, <2>3, <3>1 DEF DataOf
    <3> QED  BY <2>1, <3>2 DEF After
  <2>5. /\ After(Ran, RanAt) \in StartsOf(Ran, RanSize)
        /\ Heights[After(Ran, RanAt)] = Heights[RanAt] + change
    BY <1>1, <2>3, RunNext
  <2> HIDE DEF next, change
  <2> QED  BY <1>1, <1>4, <2>2, <2>4, <2>5, RunMoved
<1> QED  BY <1>2, <1>3, <1>4

\* A relative jump that is taken leads to one of its destinations.
LEMMA RunJumped ==
    ASSUME IInv, phase = "run", NEW next \in Int, NEW change,
           Moves(next, change), UNCHANGED <<call_stack, calls>>,
           change = stack_height_change[opcode],
           next - Shift \in Dests(Ran, RanAt)
    PROVE  IInv'
<1>1. /\ opcode = Ran[RanAt] /\ opcode \in Byte
      /\ Dests(Ran, RanAt) \subseteq StartsOf(Ran, RanSize)
      /\ Settled(Ran, RanSize, validated, Own, Heights, RanAt)
  BY RunInstruction
<1>2. change \in Int
  BY <1>1, HeightTraits
<1>3. Heights[next - Shift] = Heights[RanAt] + change
  BY <1>1 DEF Settled
<1> QED  BY <1>1, <1>2, <1>3, RunMoved

\* RJUMP.
LEMMA RjumpInv ==
    ASSUME IInv, rjump
    PROVE  IInv'
<1> DEFINE next == pos + 3 + Jump(pos + 1)
<1>1. /\ phase = "run" /\ opcode = OP_RJUMP /\ Moves(next, 0)
      /\ UNCHANGED <<call_stack, calls>>
  BY DEF rjump, Runs
<1>2. /\ opcode = Ran[RanAt] /\ opcode \in Byte /\ pos \in Int /\ Shift \in Int
      /\ RanAt \in Nat /\ pos = Shift + RanAt /\ Ran \in [Nat -> Byte]
  BY <1>1, RunFacts, RunInstruction
<1>3. stack_height_change[opcode] = 0
  BY <1>1, <1>2, HeightTraits
<1>4. Jump(pos + 1) = OffsetOf(Ran, RanAt + 1)
  BY <1>1, RunBytes
<1>5. OffsetOf(Ran, RanAt + 1) \in Int
  BY <1>2, CodeFacts
<1>6. Dests(Ran, RanAt) = {RanAt + 3 + OffsetOf(Ran, RanAt + 1)}
  BY <1>1, <1>2 DEF Dests
<1>7. next - Shift \in Dests(Ran, RanAt) /\ next \in Int
  <2> DEFINE offset == OffsetOf(Ran, RanAt + 1)
  <2>1. offset \in Int /\ next = pos + 3 + offset
    BY <1>4, <1>5
  <2>2. Dests(Ran, RanAt) = {RanAt + 3 + offset}
    BY <1>6
  <2> HIDE DEF offset, next
  <2> QED  BY <1>2, <2>1, <2>2
<1> HIDE DEF next
<1> QED  BY <1>1, <1>3, <1>7, RunJumped

\* RJUMPI, which pops the condition and takes the jump or does not.
LEMMA RjumpiInv ==
    ASSUME IInv, rjumpi
    PROVE  IInv'
<1> DEFINE over == pos + 3
           next == pos + 3 + Jump(pos + 1)
<1>1. /\ phase = "run" /\ opcode = OP_RJUMPI /\ UNCHANGED <<call_stack, calls>>
      /\ (Moves(over, -1) \/ Moves(next, -1))
  BY DEF rjumpi, Runs
<1>2. /\ opcode = Ran[RanAt] /\ opcode \in Byte /\ pos \in Int /\ Shift \in Int
      /\ RanAt \in Nat /\ pos = Shift + RanAt /\ Ran \in [Nat -> Byte]
  BY <1>1, RunFacts, RunInstruction
<1>3. stack_height_change[opcode] = -1 /\ immediate_size[opcode] = 2
  BY <1>1, <1>2, HeightTraits, RunTraits
<1>4. CASE Moves(over, -1)
  <2>1. opcode \notin TerminatingOps \cup {OP_RJUMP, OP_CALLF, OP_RJUMPV}
    BY <1>1 DEF TerminatingOps, OP_RJUMP, OP_CALLF, OP_RJUMPV, OP_RJUMPI, OP_STOP,
       OP_RETURN, OP_RETF, OP_JUMPF, OP_REVERT, OP_INVALID, OP_SELFDESTRUCT
  <2>2. DataOf(Ran, RanAt) = 2
    BY <1>2, <1>3, <2>1 DEF DataOf
  <2>3. over - Shift = After(Ran, RanAt) /\ over \in Int
    BY <1>2, <2>2 DEF After
  <2>4. /\ After(Ran, RanAt) \in StartsOf(Ran, RanSize)
        /\ Heights[After(Ran, RanAt)] = Heights[RanAt] + (-1)
    BY <1>1, <1>3, <2>1, RunNext
  <2> HIDE DEF over
  <2> QED  BY <1>1, <1>4, <2>3, <2>4, RunMoved
<1>5. CASE Moves(next, -1)
  <2>1. Jump(pos + 1) = OffsetOf(Ran, RanAt + 1)
    BY <1>1, RunBytes
  <2>2. OffsetOf(Ran, RanAt + 1) \in Int
    BY <1>2, CodeFacts
  <2>3. Dests(Ran, RanAt) = {RanAt + 3 + OffsetOf(Ran, RanAt + 1)}
    BY <1>1, <1>2 DEF Dests
  <2>4. next - Shift \in Dests(Ran, RanAt) /\ next \in Int
    <3> DEFINE offset == OffsetOf(Ran, RanAt + 1)
    <3>1. offset \in Int /\ next = pos + 3 + offset
      BY <2>1, <2>2
    <3>2. Dests(Ran, RanAt) = {RanAt + 3 + offset}
      BY <2>3
    <3> HIDE DEF offset, next
    <3> QED  BY <1>2, <3>1, <3>2
  <2> HIDE DEF next
  <2> QED  BY <1>1, <1>3, <1>5, <2>4, RunJumped
<1> QED  BY <1>1, <1>4, <1>5

\* RJUMPV, whose table of offsets is its immediate data.
LEMMA RjumpvInv ==
    ASSUME IInv, rjumpv
    PROVE  IInv'
<1> DEFINE max_index == Executed(pos + 1)
           pc_post   == pos + 2 + (max_index + 1) * 2
<1>1. /\ phase = "run" /\ opcode = OP_RJUMPV /\ UNCHANGED <<call_stack, calls>>
      /\ \/ Moves(pc_post, -1)
         \/ \E case \in 0..max_index : Moves(pc_post + Jump(pos + 2 + case * 2), -1)
  BY DEF rjumpv, Runs
<1>2. /\ opcode = Ran[RanAt] /\ opcode \in Byte /\ pos \in Int /\ Shift \in Int
      /\ RanAt \in Nat /\ pos = Shift + RanAt /\ Ran \in [Nat -> Byte]
  BY <1>1, RunFacts, RunInstruction
<1>3. stack_height_change[opcode] = -1 /\ immediate_size[opcode] = 1
  BY <1>1, <1>2, HeightTraits, RunTraits
<1>4. max_index = Ran[RanAt + 1] /\ max_index \in Nat
  <2>1. phase = "run"
    BY <1>1
  <2>2. Executed(pos + 1) = Ran[RanAt + 1]
    BY <2>1, RunBytes
  <2>3. Ran[RanAt + 1] \in Byte
    BY <1>2
  <2> QED  BY <2>2, <2>3 DEF Byte
<1>5. DataOf(Ran, RanAt) = 1 + (max_index + 1) * 2
  BY <1>1, <1>2, <1>3, <1>4 DEF DataOf
<1> HIDE DEF max_index
<1>6. pc_post - Shift = After(Ran, RanAt) /\ pc_post \in Int
  BY <1>2, <1>4, <1>5 DEF After
<1>7. CASE Moves(pc_post, -1)
  <2>1. opcode \notin TerminatingOps \cup {OP_RJUMP, OP_CALLF}
    BY <1>1 DEF TerminatingOps, OP_RJUMP, OP_CALLF, OP_RJUMPV, OP_STOP,
       OP_RETURN, OP_RETF, OP_JUMPF, OP_REVERT, OP_INVALID, OP_SELFDESTRUCT
  <2>2. /\ After(Ran, RanAt) \in StartsOf(Ran, RanSize)
        /\ Heights[After(Ran, RanAt)] = Heights[RanAt] + (-1)
    BY <1>1, <1>3, <2>1, RunNext
  <2> HIDE DEF pc_post
  <2> QED  BY <1>1, <1>6, <1>7, <2>2, RunMoved
<1>8. ASSUME NEW case \in 0..max_index, Moves(pc_post + Jump(pos + 2 + case * 2), -1)
      PROVE  IInv'
  <2> DEFINE offset == OffsetOf(Ran, RanAt + 2 * (case + 1))
             next   == pc_post + Jump(pos + 2 + case * 2)
  <2>1. /\ case + 1 \in 1..Ran[RanAt + 1] + 1 /\ 2 + case * 2 \in Nat
        /\ RanAt + (2 + case * 2) = RanAt + 2 * (case + 1)
        /\ pos + 2 + case * 2 = pos + (2 + case * 2)
        /\ RanAt + 2 * (case + 1) \in Nat
    BY <1>2, <1>4, <1>8
  <2>2. Jump(pos + 2 + case * 2) = offset
    <3>1. Jump(pos + (2 + case * 2)) = OffsetOf(Ran, RanAt + (2 + case * 2))
      BY <1>1, <2>1, RunBytes
    <3> QED  BY <2>1, <3>1
  <2>3. offset \in Int
    BY <1>2, <2>1, CodeFacts
  <2>4. RanAt + 1 + DataOf(Ran, RanAt) + offset \in Dests(Ran, RanAt)
    BY <1>1, <1>2, <2>1 DEF Dests, OP_RJUMP, OP_RJUMPI, OP_RJUMPV
  <2> HIDE DEF offset
  <2>5. next - Shift \in Dests(Ran, RanAt) /\ next \in Int
    <3>1. next = pc_post + offset
      BY <2>2
    <3>2. next - Shift = RanAt + 1 + DataOf(Ran, RanAt) + offset /\ next \in Int
      <4> HIDE DEF next
      <4> QED  BY <1>2, <1>4, <1>5, <1>6, <2>3, <3>1 DEF After
    <3> QED  BY <2>4, <3>2
  <2>6. Moves(next, -1)
    BY <1>8
  <2> HIDE DEF next
  <2> QED  BY <1>1, <1>3, <2>5, <2>6, RunJumped
<1> QED  BY <1>1, <1>7, <1>8

\* The function that CALLF or JUMPF enters, as it is entered.
Target  == WordOf(Ran, RanAt + 1) + 1
Entered == [section |-> Target, base |-> height - validated.types[Target].inputs]

\* It is a function of the header that has what it needs on the stack, and the room its
\* section may need above that; execution goes on at its first instruction.
LEMMA RunCallee ==
    ASSUME IInv, phase = "run", opcode \in {OP_CALLF, OP_JUMPF}
    PROVE  LET v      == validated
               callee == v.types[Target]
               fid    == Operand(pos + 1)
           IN  /\ fid + 1 = Target /\ fid \in Nat /\ fid < Len(header.types)
               /\ Target \in 1..Len(v.code_sizes) /\ TypeOf(fid) = callee
               /\ callee.inputs \in Nat /\ callee.outputs \in Nat
               /\ callee.inputs <= Heights[RanAt] /\ Heights[RanAt] \in Nat
               /\ Entered \in [section : Nat, base : Int]
               /\ ~Overflows(fid) => FrameOk(v, Entered)
               /\ Offset(fid) \in Int
               /\ StandsAt(container, v, heights, Entered, Offset(fid), height)
<1> DEFINE v      == validated
           callee == v.types[Target]
           fid    == Operand(pos + 1)
<1>1. /\ header = v /\ RanAt \in Nat /\ Before(Len(v.code_sizes)) /\ WellFormed(v)
      /\ container \in Seq(Byte) /\ Frame.base \in Nat /\ height = Frame.base + Heights[RanAt]
      /\ height \in Nat /\ RanAt \in StartsOf(Ran, RanSize)
  BY RunFacts DEF Before, Heights
<1>2. /\ opcode = Ran[RanAt] /\ Ran \in [Nat -> Byte] /\ Own \in TypeRecord
      /\ Checked(Ran, RanSize, v, RanAt) /\ Settled(Ran, RanSize, v, Own, Heights, RanAt)
      /\ Heights[RanAt] \in 0..Own.max_stack_height
  BY <1>1, RunInstruction
<1>3. /\ fid = WordOf(Ran, RanAt + 1) /\ fid + 1 = Target
  BY RunBytes DEF Target
<1>4. /\ fid \in Nat /\ Target \in 1..Len(v.code_sizes) /\ callee.inputs \in Nat
      /\ callee.max_stack_height \in Nat /\ callee.outputs \in Nat
  BY <1>1, <1>2, <1>3, CalleeType DEF Target
<1>5. callee.inputs <= Heights[RanAt] /\ Heights[RanAt] \in Nat
  <2>1. Heights[RanAt] >= callee.inputs
    BY <1>2 DEF Settled, Target
  <2>2. Heights[RanAt] \in Nat
    BY <1>2 DEF TypeRecord
  <2> QED  BY <1>4, <2>1, <2>2
<1>6. TypeOf(fid) = callee
  BY <1>1, <1>3 DEF TypeOf
<1>7. /\ height - callee.inputs \in Nat
      /\ (height - callee.inputs) + callee.inputs = height
  <2> DEFINE needed == callee.inputs
             now    == Heights[RanAt]
             base   == Frame.base
  <2>1. needed \in Nat /\ now \in Nat /\ needed <= now /\ height = base + now /\ base \in Nat
    BY <1>1, <1>4, <1>5
  <2> HIDE DEF needed, now, base
  <2>2. height - needed \in Nat /\ (height - needed) + needed = height
    BY <2>1
  <2> QED  BY <2>2 DEF needed
<1>8. Target \in Nat /\ Entered \in [section : Nat, base : Int]
  BY <1>4, <1>7 DEF Entered
<1>9. ~Overflows(fid) => FrameOk(v, Entered)
  <2> SUFFICES ASSUME ~Overflows(fid) PROVE FrameOk(v, Entered)
    OBVIOUS
  <2> DEFINE needed == callee.inputs
             max    == callee.max_stack_height
  <2>1. ~ (height + max - needed > StackLimit)
    BY <1>6 DEF Overflows
  <2>2. needed \in Nat /\ max \in Nat /\ height \in Nat /\ StackLimit \in Nat
    BY <1>1, <1>4, LimitFacts
  <2> HIDE DEF needed, max
  <2>3. (height - needed) + max <= StackLimit
    BY <2>1, <2>2
  <2>4. Entered.section = Target /\ Entered.base = height - callee.inputs
    BY DEF Entered
  <2> QED  BY <1>4, <1>7, <2>3, <2>4 DEF FrameOk, needed, max
<1>10. /\ Offset(fid) = v.code_offsets[Target] - v.code_offsets[1] /\ Offset(fid) \in Int
       /\ Offset(fid) - (v.code_offsets[Target] - v.code_offsets[1]) = 0
  <2>1. 1 \in 1..Len(v.code_sizes)
    BY <1>4
  <2>2. v.code_offsets[1] \in Nat /\ v.code_offsets[Target] \in Nat
    BY <1>1, <1>4, <2>1 DEF WellFormed
  <2>3. Offset(fid) = v.code_offsets[Target] - v.code_offsets[1]
    BY <1>1, <1>3 DEF Offset
  <2> QED  BY <2>2, <2>3
<1>11. StandsAt(container, v, heights, Entered, Offset(fid), height)
  <2>1. /\ 0 \in StartsOf(CodeOf(container, v, Target), v.code_sizes[Target])
        /\ heights[Target][0] = callee.inputs
    BY <1>1, <1>4, ValidSection
  <2>2. Entered.section = Target /\ Entered.base = height - callee.inputs
    BY DEF Entered
  <2> QED  BY <1>7, <1>10, <2>1, <2>2 DEF StandsAt
<1>12. fid < Len(header.types)
  BY <1>1, <1>2, <1>3 DEF Checked
<1> QED  BY <1>1, <1>3, <1>4, <1>5, <1>6, <1>8, <1>9, <1>10, <1>11, <1>12

\* Calls and addresses put on their stacks and taken from them.
LEMMA CallsAppended ==
    ASSUME NEW s \in Seq([section : Nat, base : Int]), NEW x \in [section : Nat, base : Int]
    PROVE  /\ Append(s, x) \in Seq([section : Nat, base : Int])
           /\ Len(Append(s, x)) = Len(s) + 1 /\ Append(s, x)[Len(s) + 1] = x
           /\ \A k \in 1..Len(s) : Append(s, x)[k] = s[k]
OBVIOUS

\* The same for a return address.
LEMMA AddressAppended ==
    ASSUME NEW s \in Seq(Int), NEW x \in Int
    PROVE  /\ Append(s, x) \in Seq(Int)
           /\ Len(Append(s, x)) = Len(s) + 1 /\ Append(s, x)[Len(s) + 1] = x
           /\ \A k \in 1..Len(s) : Append(s, x)[k] = s[k]
OBVIOUS

\* Where a return address stands, by its offset in the section.
LEMMA Standing ==
    ASSUME NEW c, NEW v, NEW H, NEW call, NEW p, NEW h, NEW r,
           r = p - (v.code_offsets[call.section] - v.code_offsets[1]),
           r \in StartsOf(CodeOf(c, v, call.section), v.code_sizes[call.section]),
           h = call.base + H[call.section][r]
    PROVE  StandsAt(c, v, H, call, p, h)
BY Zenon DEF StandsAt

\* CALLF: the function that is called will find its place, and it will leave the stack
\* as high as the section of the caller says of the instruction after the call.
LEMMA CallfInv ==
    ASSUME IInv, callf
    PROVE  IInv'
<1> DEFINE v      == validated
           depth  == Len(call_stack)
           fid    == Operand(pos + 1)
           callee == v.types[Target]
<1>1. /\ phase = "run" /\ opcode = OP_CALLF
      /\ \/ Ends
         \/ /\ ~Overflows(fid) /\ ~CallStackFull
            /\ call_stack' = Append(call_stack, pos + 3)
            /\ calls' = Append(calls, [section |-> fid + 1,
                                       base |-> height - TypeOf(fid).inputs])
            /\ Moves(Offset(fid), 0)
  BY DEF callf, Runs
<1>2. CASE Ends
  BY <1>1, <1>2, RunEnded
<1>3. ASSUME ~Overflows(fid), ~CallStackFull,
             call_stack' = Append(call_stack, pos + 3),
             calls' = Append(calls, [section |-> fid + 1,
                                     base |-> height - TypeOf(fid).inputs]),
             Moves(Offset(fid), 0)
      PROVE  IInv'
  <2>1. /\ header = v /\ RanAt \in Nat /\ Before(Len(v.code_sizes))
        /\ Len(calls) = depth + 1 /\ depth \in Nat /\ call_stack \in Seq(Int)
        /\ calls \in Seq([section : Nat, base : Int])
        /\ Frame.base \in Nat /\ height = Frame.base + Heights[RanAt] /\ height \in Nat
        /\ pos \in Int /\ Shift \in Int /\ pos = Shift + RanAt
        /\ RunInv /\ Bounds
    BY <1>1, RunFacts DEF Heights, IInv
  <2>2. /\ opcode = Ran[RanAt] /\ opcode \in Byte
        /\ Checked(Ran, RanSize, v, RanAt)
    BY <1>1, RunInstruction
  <2>3. /\ fid + 1 = Target /\ TypeOf(fid) = callee
        /\ callee.inputs \in Nat /\ callee.outputs \in Nat
        /\ callee.inputs <= Heights[RanAt] /\ Heights[RanAt] \in Nat
        /\ Entered \in [section : Nat, base : Int] /\ FrameOk(v, Entered)
        /\ Offset(fid) \in Int
        /\ StandsAt(container, v, heights, Entered, Offset(fid), height)
    BY <1>1, <1>3, RunCallee
  <2>4. /\ phase' = "run" /\ pos' = Offset(fid) /\ height' = height
        /\ UNCHANGED <<container, it, header, validated, heights>>
    BY <1>1, <1>3, <2>1 DEF Moves, parser, section
  <2>5. calls' = Append(calls, Entered)
    BY <1>3, <2>3 DEF Entered
  <2>6. /\ calls' \in Seq([section : Nat, base : Int]) /\ Len(calls') = depth + 2
        /\ calls'[depth + 2] = Entered
        /\ \A k \in 1..depth + 1 : calls'[k] = calls[k]
    <3>1. /\ calls' \in Seq([section : Nat, base : Int]) /\ Len(calls') = Len(calls) + 1
          /\ calls'[Len(calls) + 1] = Entered
          /\ \A k \in 1..Len(calls) : calls'[k] = calls[k]
      BY <2>1, <2>3, <2>5, CallsAppended
    <3>2. Len(calls) + 1 = depth + 2
      BY <2>1
    <3> QED  BY <2>1, <3>1, <3>2
  <2>7. /\ call_stack' \in Seq(Int) /\ Len(call_stack') = depth + 1
        /\ call_stack'[depth + 1] = pos + 3
        /\ \A k \in 1..depth : call_stack'[k] = call_stack[k]
    BY <1>3, <2>1, AddressAppended
  <2>8. Len(call_stack') <= StackLimit
    BY <1>3, <2>1, <2>7, LimitFacts DEF CallStackFull
  <2>9. Bounds'
    BY <2>1, <2>4, <2>7, <2>8 DEF Bounds
  <2>10. (pos + 3) - Shift = After(Ran, RanAt)
    <3>1. immediate_size[opcode] = 2 /\ opcode # OP_RJUMPV
      BY <1>1, <2>2, RunTraits DEF OP_CALLF, OP_RJUMPV
    <3>2. DataOf(Ran, RanAt) = 2
      BY <2>2, <3>1 DEF DataOf
    <3> QED  BY <2>1, <3>2 DEF After
  <2>11. /\ After(Ran, RanAt) \in StartsOf(Ran, RanSize)
         /\ Heights[After(Ran, RanAt)] = Heights[RanAt] + (callee.outputs - callee.inputs)
    <3>1. opcode \notin TerminatingOps \cup {OP_RJUMP}
      BY <1>1 DEF TerminatingOps, OP_RJUMP, OP_CALLF, OP_STOP, OP_RETURN, OP_RETF,
         OP_JUMPF, OP_REVERT, OP_INVALID, OP_SELFDESTRUCT
    <3> QED  BY <1>1, <3>1, RunNext DEF Target
  <2>12. Entered.base + callee.outputs = Frame.base + Heights[After(Ran, RanAt)]
    <3> DEFINE ins  == callee.inputs
               outs == callee.outputs
               now  == Heights[RanAt]
               then == Heights[After(Ran, RanAt)]
               base == Frame.base
    <3>1. Entered.base = height - ins
      BY DEF Entered
    <3>2. /\ ins \in Nat /\ outs \in Nat /\ now \in Nat /\ base \in Nat
          /\ height = base + now /\ then = now + (outs - ins)
      BY <2>1, <2>3, <2>11
    <3> HIDE DEF ins, outs, now, then, base
    <3>3. (height - ins) + outs = base + then
      BY <3>2
    <3> QED  BY <3>1, <3>3 DEF outs, base, then
  <2>13. StandsAt(container, v, heights, calls[depth + 1], pos + 3,
                  Entered.base + callee.outputs)
    <3>1. calls[depth + 1] = Frame
      BY <2>1 DEF Frame
    <3>2. StandsAt(container, v, heights, Frame, pos + 3, Entered.base + callee.outputs)
      <4> DEFINE back  == Entered.base + callee.outputs
                 next  == After(Ran, RanAt)
                 there == pos + 3
      <4>1. /\ there - Shift = next /\ next \in StartsOf(Ran, RanSize)
            /\ back = Frame.base + Heights[next]
        BY <2>10, <2>11, <2>12
      <4> HIDE DEF back, next, there
      <4>2. next = there - (v.code_offsets[Frame.section] - v.code_offsets[1])
        BY <4>1 DEF Shift
      <4>3. /\ next \in StartsOf(CodeOf(container, v, Frame.section),
                                v.code_sizes[Frame.section])
            /\ back = Frame.base + heights[Frame.section][next]
        BY <4>1 DEF Ran, RanSize, Heights
      <4>4. StandsAt(container, v, heights, Frame, there, back)
        BY <4>2, <4>3, Standing
      <4> QED  BY <4>4 DEF back, there
    <3> QED  BY <3>1, <3>2
  <2>14. \A n \in 1..depth + 2 : FrameOk(v, calls'[n])
    <3>1. \A n \in 1..depth + 1 : FrameOk(v, calls'[n])
      BY <2>1, <2>6 DEF RunInv
    <3>2. \A n \in 1..depth + 2 : n \in 1..depth + 1 \/ n = depth + 2
      BY <2>1
    <3> QED  BY <2>3, <2>6, <3>1, <3>2
  <2>15. ~ Returns(v.types[calls'[1].section].outputs)
    <3>1. 1 \in 1..depth + 1
      BY <2>1
    <3> QED  BY <2>1, <2>6, <3>1 DEF RunInv
  <2>16. ASSUME NEW n \in 1..depth + 1, Returns(v.types[calls'[n + 1].section].outputs)
         PROVE  StandsAt(container, v, heights, calls'[n], call_stack'[n],
                         calls'[n + 1].base + v.types[calls'[n + 1].section].outputs)
    <3>1. CASE n = depth + 1
      <4>1. calls'[n] = calls[depth + 1] /\ calls'[n + 1] = Entered
            /\ call_stack'[n] = pos + 3
        <5>1. n + 1 = depth + 2 /\ depth + 1 \in 1..depth + 1
          BY <2>1, <3>1
        <5> QED  BY <2>6, <2>7, <3>1, <5>1
      <4>2. Entered.section = Target
        BY DEF Entered
      <4> QED  BY <2>13, <4>1, <4>2
    <3>2. CASE n # depth + 1
      <4>1. n \in 1..depth /\ n \in 1..depth + 1 /\ n + 1 \in 1..depth + 1
        BY <2>1, <3>2
      <4>2. calls'[n] = calls[n] /\ calls'[n + 1] = calls[n + 1]
            /\ call_stack'[n] = call_stack[n]
        BY <2>6, <2>7, <4>1
      <4> QED  BY <2>1, <2>16, <4>1, <4>2 DEF RunInv
    <3> QED  BY <3>1, <3>2
  <2>17. Before(Len(v.code_sizes))'
    BY <2>1, <2>4 DEF Before
  <2>18. RunInv'
    <3>1. /\ header' = v' /\ pos' \in Int /\ Len(calls') = Len(call_stack') + 1
          /\ calls' \in Seq([section : Nat, base : Int])
      BY <2>1, <2>3, <2>4, <2>6, <2>7
    <3>2. \A n \in 1..Len(call_stack') + 1 : FrameOk(v', calls'[n])
      BY <2>1, <2>4, <2>7, <2>14
    <3>3. ~ Returns(v'.types[calls'[1].section].outputs)
      BY <2>4, <2>15
    <3>4. \A n \in 1..Len(call_stack') :
             Returns(v'.types[calls'[n + 1].section].outputs) =>
                StandsAt(container', v', heights', calls'[n], call_stack'[n],
                         calls'[n + 1].base + v'.types[calls'[n + 1].section].outputs)
      BY <2>4, <2>7, <2>16
    <3>5. StandsAt(container', v', heights', calls'[Len(call_stack') + 1], pos', height')
      BY <2>1, <2>3, <2>4, <2>6, <2>7
    <3> QED  BY <2>17, <3>1, <3>2, <3>3, <3>4, <3>5 DEF RunInv
  <2> QED  BY <2>4, <2>9, <2>18 DEF IInv
<1> QED  BY <1>1, <1>2, <1>3

\* A RETF runs only in a function that was called, and finds where its caller stands.
LEMMA RunReturns ==
    ASSUME IInv, phase = "run", ReturnsBy(Ran, validated, RanAt)
    PROVE  LET v     == validated
               depth == Len(call_stack)
           IN  /\ Returns(Own.outputs) /\ depth \in Nat \ {0}
               /\ StandsAt(container, v, heights, calls[depth], call_stack[depth],
                           Frame.base + Own.outputs)
<1> DEFINE v     == validated
           depth == Len(call_stack)
<1>1. /\ RunInv /\ depth \in Nat /\ Len(calls) = depth + 1
  BY RunFacts
<1>2. Frame = calls[depth + 1]
  BY <1>1 DEF Frame
<1>3. Returns(Own.outputs)
  BY RunInstruction
<1>4. depth # 0
  <2>1. ~ Returns(v.types[calls[1].section].outputs)
    BY <1>1 DEF RunInv
  <2> QED  BY <1>2, <1>3, <2>1 DEF Own
<1>5. depth \in 1..depth
  BY <1>1, <1>4
<1>6. Returns(v.types[calls[depth + 1].section].outputs) =>
          StandsAt(container, v, heights, calls[depth], call_stack[depth],
                   calls[depth + 1].base + v.types[calls[depth + 1].section].outputs)
  BY <1>1, <1>5 DEF RunInv
<1> QED  BY <1>1, <1>2, <1>3, <1>4, <1>6 DEF Own

\* Addresses and calls without the last one.
LEMMA CallsFront ==
    ASSUME NEW s \in Seq([section : Nat, base : Int]), NEW m \in Nat, Len(s) = m + 1
    PROVE  /\ SubSeq(s, 1, m) \in Seq([section : Nat, base : Int])
           /\ Len(SubSeq(s, 1, m)) = m
           /\ \A k \in 1..m : SubSeq(s, 1, m)[k] = s[k]
<1> DEFINE Call == [section : Nat, base : Int]
<1>1. s \in Seq(Call)
  OBVIOUS
<1> HIDE DEF Call
<1>2. /\ SubSeq(s, 1, m) \in Seq(Call) /\ Len(SubSeq(s, 1, m)) = m
      /\ \A k \in 1..m : SubSeq(s, 1, m)[k] = s[k]
  BY <1>1
<1> QED  BY <1>2 DEF Call

\* The same for a return address.
LEMMA AddressFront ==
    ASSUME NEW s \in Seq(Int), NEW m \in Nat, Len(s) = m + 1
    PROVE  /\ SubSeq(s, 1, m) \in Seq(Int) /\ Len(SubSeq(s, 1, m)) = m
           /\ \A k \in 1..m : SubSeq(s, 1, m)[k] = s[k] /\ s[m + 1] \in Int
OBVIOUS

\* RETF: the caller goes on where it stands.
LEMMA RetfInv ==
    ASSUME IInv, retf
    PROVE  IInv'
<1> DEFINE v     == validated
           depth == Len(call_stack)
<1>1. /\ phase = "run" /\ opcode = OP_RETF
      /\ call_stack' = SubSeq(call_stack, 1, depth - 1)
      /\ calls' = SubSeq(calls, 1, Len(calls) - 1)
      /\ Moves(call_stack[depth], 0)
  BY DEF retf, Runs
<1>2. /\ header = v /\ RanAt \in StartsOf(Ran, RanSize) /\ Before(Len(v.code_sizes))
      /\ Len(calls) = depth + 1 /\ depth \in Nat /\ call_stack \in Seq(Int)
      /\ calls \in Seq([section : Nat, base : Int])
      /\ height = Frame.base + Heights[RanAt] /\ height \in Nat
      /\ RunInv /\ Bounds
  BY <1>1, RunFacts DEF Heights, IInv
<1>3. /\ opcode = Ran[RanAt]
      /\ Settled(Ran, RanSize, v, Own, Heights, RanAt)
  BY <1>1, RunInstruction
<1>4. ReturnsBy(Ran, v, RanAt)
  BY <1>1, <1>3 DEF ReturnsBy
<1>5. /\ depth \in Nat \ {0}
      /\ StandsAt(container, v, heights, calls[depth], call_stack[depth],
                  Frame.base + Own.outputs)
  BY <1>1, <1>4, RunReturns
<1>6. height = Frame.base + Own.outputs
  BY <1>1, <1>2, <1>3 DEF Settled
<1>7. PICK m \in Nat : m = depth - 1
  BY <1>5
<1>8. depth = m + 1 /\ Len(calls) = (m + 1) + 1 /\ Len(calls) - 1 = m + 1 /\ m + 1 \in Nat
  BY <1>2, <1>7
<1>9. /\ call_stack' \in Seq(Int) /\ Len(call_stack') = m
      /\ \A k \in 1..m : call_stack'[k] = call_stack[k]
      /\ call_stack[depth] \in Int
  <2>1. call_stack[m + 1] \in Int
    <3>1. m + 1 \in 1..Len(call_stack)
      BY <1>2, <1>8
    <3> QED  BY <1>2, <3>1
  <2> QED  BY <1>1, <1>2, <1>7, <1>8, <2>1, AddressFront
<1>10. /\ calls' \in Seq([section : Nat, base : Int]) /\ Len(calls') = m + 1
       /\ \A k \in 1..m + 1 : calls'[k] = calls[k]
  <2>1. calls' = SubSeq(calls, 1, m + 1)
    BY <1>1, <1>8
  <2> QED  BY <1>2, <1>8, <2>1, CallsFront
<1>11. /\ phase' = "run" /\ pos' = call_stack[depth] /\ height' = height
       /\ UNCHANGED <<container, it, header, validated, heights>>
  BY <1>1, <1>2 DEF Moves, parser, section
<1>12. Bounds'
  <2>1. m <= StackLimit
    BY <1>2, <1>8, LimitFacts DEF Bounds
  <2> QED  BY <1>2, <1>9, <1>11, <2>1 DEF Bounds
<1>13. StandsAt(container', v', heights', calls'[Len(call_stack') + 1], pos', height')
  <2>1. calls'[m + 1] = calls[depth]
    BY <1>8, <1>10
  <2> QED  BY <1>5, <1>6, <1>9, <1>11, <2>1
<1>14. \A n \in 1..Len(call_stack') + 1 : FrameOk(v', calls'[n])
  <2>1. \A n \in 1..m + 1 : n \in 1..depth + 1
    BY <1>8
  <2> QED  BY <1>2, <1>9, <1>10, <1>11, <2>1 DEF RunInv
<1>15. ~ Returns(v'.types[calls'[1].section].outputs)
  <2>1. 1 \in 1..m + 1
    BY <1>7
  <2> QED  BY <1>2, <1>10, <1>11, <2>1 DEF RunInv
<1>16. \A n \in 1..Len(call_stack') :
          Returns(v'.types[calls'[n + 1].section].outputs) =>
             StandsAt(container', v', heights', calls'[n], call_stack'[n],
                      calls'[n + 1].base + v'.types[calls'[n + 1].section].outputs)
  <2> SUFFICES ASSUME NEW n \in 1..m, Returns(v.types[calls'[n + 1].section].outputs)
               PROVE  StandsAt(container, v, heights, calls'[n], call_stack'[n],
                               calls'[n + 1].base + v.types[calls'[n + 1].section].outputs)
    BY <1>9, <1>11
  <2>1. n \in 1..depth /\ n \in 1..m + 1 /\ n + 1 \in 1..m + 1
    BY <1>8
  <2>2. calls'[n] = calls[n] /\ calls'[n + 1] = calls[n + 1] /\ call_stack'[n] = call_stack[n]
    BY <1>9, <1>10, <2>1
  <2> QED  BY <1>2, <2>1, <2>2 DEF RunInv
<1>17. /\ Before(Len(validated.code_sizes))' /\ header' = v' /\ pos' \in Int
       /\ Len(calls') = Len(call_stack') + 1
  BY <1>2, <1>9, <1>10, <1>11 DEF Before
<1>18. RunInv'
  BY <1>10, <1>13, <1>14, <1>15, <1>16, <1>17 DEF RunInv
<1> QED  BY <1>11, <1>12, <1>18 DEF IInv

\* The last call, replaced.
LEMMA CallsReplaced ==
    ASSUME NEW s \in Seq([section : Nat, base : Int]), NEW x \in [section : Nat, base : Int],
           NEW m \in Nat, Len(s) = m + 1
    PROVE  LET t == [s EXCEPT ![Len(s)] = x]
           IN  /\ t \in Seq([section : Nat, base : Int]) /\ Len(t) = m + 1
               /\ t[m + 1] = x /\ \A k \in 1..m : t[k] = s[k]
<1> DEFINE Call == [section : Nat, base : Int]
           t    == [s EXCEPT ![Len(s)] = x]
<1>1. s \in Seq(Call) /\ x \in Call /\ Len(s) \in 1..Len(s)
  OBVIOUS
<1> HIDE DEF Call
<1>2. /\ t \in Seq(Call) /\ Len(t) = Len(s)
      /\ \A j \in 1..Len(s) : t[j] = IF j = Len(s) THEN x ELSE s[j]
  BY <1>1, ExceptSeq
<1> HIDE DEF t
<1>3. t[m + 1] = x /\ \A k \in 1..m : t[k] = s[k]
  BY <1>2
<1> QED  BY <1>2, <1>3 DEF Call, t

\* JUMPF: the function that is entered will leave its caller the stack that the one it
\* replaces was to leave, and never returns if that one was not to return.
LEMMA JumpfInv ==
    ASSUME IInv, jumpf
    PROVE  IInv'
<1> DEFINE v      == validated
           depth  == Len(call_stack)
           fid    == Operand(pos + 1)
           callee == v.types[Target]
<1>1. /\ phase = "run" /\ opcode = OP_JUMPF
      /\ \/ Ends
         \/ /\ ~Overflows(fid) /\ UNCHANGED call_stack
            /\ calls' = [calls EXCEPT ![Len(calls)] =
                            [section |-> fid + 1, base |-> height - TypeOf(fid).inputs]]
            /\ Moves(Offset(fid), 0)
  BY DEF jumpf, Runs
<1>2. CASE Ends
  BY <1>1, <1>2, RunEnded
<1>3. ASSUME ~Overflows(fid), UNCHANGED call_stack,
             calls' = [calls EXCEPT ![Len(calls)] =
                          [section |-> fid + 1, base |-> height - TypeOf(fid).inputs]],
             Moves(Offset(fid), 0)
      PROVE  IInv'
  <2>1. /\ header = v /\ RanAt \in StartsOf(Ran, RanSize) /\ Before(Len(v.code_sizes))
        /\ Len(calls) = depth + 1 /\ depth \in Nat /\ call_stack \in Seq(Int)
        /\ calls \in Seq([section : Nat, base : Int])
        /\ Frame.base \in Nat /\ height = Frame.base + Heights[RanAt] /\ height \in Nat
        /\ RunInv /\ Bounds
    BY <1>1, RunFacts DEF Heights, IInv
  <2>2. /\ opcode = Ran[RanAt] /\ Own \in TypeRecord
        /\ Settled(Ran, RanSize, v, Own, Heights, RanAt)
    BY <1>1, RunInstruction
  <2>3. /\ fid + 1 = Target /\ TypeOf(fid) = callee
        /\ callee.inputs \in Nat /\ callee.outputs \in Nat
        /\ Heights[RanAt] \in Nat
        /\ Entered \in [section : Nat, base : Int] /\ FrameOk(v, Entered)
        /\ Offset(fid) \in Int
        /\ StandsAt(container, v, heights, Entered, Offset(fid), height)
    BY <1>1, <1>3, RunCallee
  <2>4. /\ phase' = "run" /\ pos' = Offset(fid) /\ height' = height
        /\ UNCHANGED <<container, it, header, validated, heights, call_stack>>
    BY <1>1, <1>3, <2>1 DEF Moves, parser, section
  <2>5. calls' = [calls EXCEPT ![Len(calls)] = Entered]
    BY <1>3, <2>3 DEF Entered
  <2>6. /\ calls' \in Seq([section : Nat, base : Int]) /\ Len(calls') = depth + 1
        /\ calls'[depth + 1] = Entered
        /\ \A k \in 1..depth : calls'[k] = calls[k]
    BY <2>1, <2>3, <2>5, CallsReplaced
  <2>7. Entered.section = Target
    BY DEF Entered
  <2>8. ASSUME Returns(callee.outputs)
        PROVE  /\ ReturnsBy(Ran, v, RanAt)
               /\ Entered.base + callee.outputs = Frame.base + Own.outputs
    <3>1. ReturnsBy(Ran, v, RanAt)
      BY <1>1, <2>2, <2>8 DEF ReturnsBy, Target
    <3>2. Heights[RanAt] = Own.outputs + callee.inputs - callee.outputs
      BY <1>1, <2>2, <2>8 DEF Settled, Target
    <3> DEFINE ins  == callee.inputs
               outs == callee.outputs
               own  == Own.outputs
               now  == Heights[RanAt]
               base == Frame.base
    <3>3. Entered.base = height - ins
      BY DEF Entered
    <3>4. /\ ins \in Nat /\ outs \in Nat /\ own \in Nat /\ base \in Nat
          /\ height = base + now /\ now = own + ins - outs
      BY <2>1, <2>2, <2>3, <3>2 DEF TypeRecord
    <3> HIDE DEF ins, outs, own, now, base
    <3>5. (height - ins) + outs = base + own
      BY <3>4
    <3> QED  BY <3>1, <3>3, <3>5 DEF outs, own, base
  <2>9. Bounds'
    BY <2>1, <2>4 DEF Bounds
  <2>10. \A n \in 1..depth + 1 : FrameOk(v, calls'[n])
    <3>1. \A n \in 1..depth + 1 : n \in 1..depth \/ n = depth + 1
      BY <2>1
    <3>2. \A n \in 1..depth : FrameOk(v, calls[n])
      BY <2>1 DEF RunInv
    <3> QED  BY <2>3, <2>6, <3>1, <3>2
  <2>11. ~ Returns(v.types[calls'[1].section].outputs)
    <3>1. CASE depth = 0
      <4>1. calls'[1] = Entered
        BY <2>6, <3>1
      <4>2. ~ Returns(callee.outputs)
        <5> SUFFICES ASSUME Returns(callee.outputs) PROVE FALSE
          OBVIOUS
        <5> QED  BY <1>1, <2>8, <3>1, RunReturns
      <4> QED  BY <2>7, <4>1, <4>2
    <3>2. CASE depth # 0
      <4>1. 1 \in 1..depth
        BY <2>1, <3>2
      <4> QED  BY <2>1, <2>6, <4>1 DEF RunInv
    <3> QED  BY <3>1, <3>2
  <2>12. ASSUME NEW n \in 1..depth, Returns(v.types[calls'[n + 1].section].outputs)
         PROVE  StandsAt(container, v, heights, calls'[n], call_stack[n],
                         calls'[n + 1].base + v.types[calls'[n + 1].section].outputs)
    <3>1. calls'[n] = calls[n]
      BY <2>6
    <3>2. CASE n = depth
      <4>1. calls'[n + 1] = Entered
        BY <2>6, <3>2
      <4>2. Returns(callee.outputs)
        BY <2>7, <2>12, <4>1
      <4>3. StandsAt(container, v, heights, calls[depth], call_stack[depth],
                     Frame.base + Own.outputs)
        BY <1>1, <2>8, <4>2, RunReturns
      <4>4. Entered.base + callee.outputs = Frame.base + Own.outputs
        BY <2>8, <4>2
      <4> QED  BY <2>7, <3>1, <3>2, <4>1, <4>3, <4>4
    <3>3. CASE n # depth
      <4>1. n + 1 \in 1..depth
        BY <2>1, <3>3
      <4>2. calls'[n + 1] = calls[n + 1]
        BY <2>6, <4>1
      <4> QED  BY <2>1, <2>12, <3>1, <4>2 DEF RunInv
    <3> QED  BY <3>2, <3>3
  <2>13. Before(Len(v.code_sizes))'
    BY <2>1, <2>4 DEF Before
  <2>14. RunInv'
    <3>1. /\ header' = v' /\ pos' \in Int /\ Len(calls') = Len(call_stack') + 1
          /\ calls' \in Seq([section : Nat, base : Int])
      BY <2>1, <2>3, <2>4, <2>6
    <3>2. \A n \in 1..Len(call_stack') + 1 : FrameOk(v', calls'[n])
      BY <2>4, <2>10
    <3>3. ~ Returns(v'.types[calls'[1].section].outputs)
      BY <2>4, <2>11
    <3>4. \A n \in 1..Len(call_stack') :
             Returns(v'.types[calls'[n + 1].section].outputs) =>
                StandsAt(container', v', heights', calls'[n], call_stack'[n],
                         calls'[n + 1].base + v'.types[calls'[n + 1].section].outputs)
      BY <2>4, <2>12
    <3>5. StandsAt(container', v', heights', calls'[Len(call_stack') + 1], pos', height')
      BY <2>3, <2>4, <2>6
    <3> QED  BY <2>13, <3>1, <3>2, <3>3, <3>4, <3>5 DEF RunInv
  <2> QED  BY <2>4, <2>9, <2>14 DEF IInv
<1> QED  BY <1>1, <1>2, <1>3

-----------------------------------------------------------------------------
(* The theorems.                                                           *)

\* The initial states.
LEMMA InitInv == Init => IInv
BY LimitFacts DEF Init, IInv, Bounds

\* A step that changes nothing.
LEMMA StutterInv ==
    ASSUME IInv, UNCHANGED vars
    PROVE  IInv'
BY DEF vars, parser, section, machine, IInv, Bounds, HeadersInv, AtType, InType, AtCode,
   InCode, AtData, InData, AtEnd, Ended, BodiesSize, SectionInv, Before, ReadInv, RunInv

\* One step of the execution.
LEMMA RunStep ==
    ASSUME IInv, Run
    PROVE  IInv'
<1>1. CASE Fails
  BY <1>1, RunEnded DEF Fails
<1>2. CASE Halts
  BY <1>2, RunEnded DEF Halts, Runs
<1>3. CASE Plain
  BY <1>3, PlainInv
<1>4. CASE Indexed
  BY <1>4, IndexedInv
<1>5. CASE rjump
  BY <1>5, RjumpInv
<1>6. CASE rjumpi
  BY <1>6, RjumpiInv
<1>7. CASE rjumpv
  BY <1>7, RjumpvInv
<1>8. CASE callf
  BY <1>8, CallfInv
<1>9. CASE retf
  BY <1>9, RetfInv
<1>10. CASE jumpf
  BY <1>10, JumpfInv
<1> QED
  BY <1>1, <1>2, <1>3, <1>4, <1>5, <1>6, <1>7, <1>8, <1>9, <1>10 DEF Run

\* One step of the system.
LEMMA Step == IInv /\ [Next]_vars => IInv'
<1> SUFFICES ASSUME IInv, [Next]_vars PROVE IInv'
  OBVIOUS
<1>1. CASE validate_eof
  BY <1>1, StartInv
<1>2. CASE HeaderId
  BY <1>2, HeaderIdInv
<1>3. CASE HeaderSize
  BY <1>3, HeaderSizeInv
<1>4. CASE HeaderEnd
  BY <1>4, HeaderEndInv
<1>5. CASE validate_types
  BY <1>5, TypesInv
<1>6. CASE validate_instructions
  BY <1>6, InstructionsInv
<1>7. CASE InstructionsEnd
  BY <1>7, InstructionsEndInv
<1>8. CASE validate_rjump_destinations
  BY <1>8, JumpsInv
<1>9. CASE RjumpsEnd
  BY <1>9, JumpsEndInv
<1>10. CASE validate_max_stack_height
  BY <1>10, VisitInv
<1>11. CASE HeightsEnd
  BY <1>11, HeightsEndInv
<1>12. CASE ReadSection
  BY <1>12, ReadSectionInv
<1>13. CASE AnalyzeEof1
  BY <1>13, AnalyzeInv
<1>14. CASE Run
  BY <1>14, RunStep
<1>15. CASE Finished \/ UNCHANGED vars
  BY <1>15, StutterInv DEF Finished
<1> QED
  BY <1>1, <1>2, <1>3, <1>4, <1>5, <1>6, <1>7, <1>8, <1>9, <1>10, <1>11, <1>12, <1>13, <1>14,
     <1>15 DEF Next, Validate

\* The inductive invariant: what each loop of the validator has established of the
\* section so far, and what valid sections say of every function that is running.
THEOREM Inductive == Spec => []IInv
<1>1. Init => IInv
  BY InitInv
<1>2. IInv /\ [Next]_vars => IInv'
  BY Step
<1> QED  BY <1>1, <1>2, PTL DEF Spec

\* The validator's loops stay in the section they are about, and what they note are
\* positions of it; the stacks of the execution are within their limits.
THEOREM TypeCorrect == Spec => []TypeOK
<1>1. IInv => TypeOK
  <2> SUFFICES ASSUME IInv PROVE TypeOK
    OBVIOUS
  <2>1. /\ phase \in {"start", "headers", "types", "instructions", "rjumps", "heights",
                      "read", "run", "done", "rejected"}
        /\ height \in 0..StackLimit /\ Len(call_stack) <= StackLimit
    BY DEF IInv, Bounds
  <2>2. ASSUME phase \in {"instructions", "rjumps", "heights"}
        PROVE  /\ code_idx \in DOMAIN header.code_sizes
               /\ immediates \cup rjumpdests \subseteq 0..CodeSize - 1
               /\ {worklist[k] : k \in DOMAIN worklist} \subseteq 0..CodeSize - 1
    <3> DEFINE b == CodeOf(container, validated, code_idx)
               n == validated.code_sizes[code_idx]
    <3>1. SectionInv /\ container \in Seq(Byte)
      BY <2>2 DEF IInv, Bounds
    <3>2. /\ code_idx \in 1..Len(validated.code_sizes) /\ header = validated
          /\ WellFormed(validated)
      BY <3>1 DEF SectionInv, Before
    <3>3. /\ code_idx \in DOMAIN header.code_sizes /\ n \in Nat \ {0}
          /\ validated.code_offsets[code_idx] \in Nat
      BY <3>2 DEF WellFormed
    <3>4. b \in [Nat -> Byte]
      BY <3>1, <3>3, CodeType
    <3> HIDE DEF b, n
    <3>5. StartsOf(b, n) \subseteq 0..n - 1
      BY <3>3, <3>4, StartFacts
    <3>6. immediates \cup rjumpdests \subseteq 0..n - 1
      BY <3>1 DEF SectionInv, n
    <3>7. worklist = << >> \/ worklist \in Seq(StartsOf(b, n))
      BY <2>2, <3>1 DEF SectionInv, b, n
    <3>8. {worklist[k] : k \in DOMAIN worklist} \subseteq 0..n - 1
      <4>1. ASSUME NEW k \in DOMAIN worklist PROVE worklist[k] \in 0..n - 1
        BY <3>5, <3>7
      <4> QED  BY <4>1
    <3>9. n = CodeSize
      BY <3>2 DEF CodeSize, n
    <3> QED  BY <3>3, <3>6, <3>8, <3>9
  <2> QED  BY <2>1, <2>2 DEF TypeOK
<1> QED  BY <1>1, Inductive, PTL

\* No header parser goes past the end of the container, the one that checks nothing
\* included.
THEOREM ReadsStayInside == Spec => []ReadsInside
<1>1. IInv => ReadsInside
  BY DEF IInv, Bounds, ReadsInside
<1> QED  BY <1>1, Inductive, PTL

\* The unchecked parser finds the header that was validated, which accounts for every
\* byte of the container.
THEOREM HeadersAgree == Spec => []ParsersAgree
<1>1. IInv => ParsersAgree
  <2> SUFFICES ASSUME IInv, phase = "run"
               PROVE  /\ header = validated
                      /\ header.code_offsets[1]
                           + Total(header.code_sizes, Len(header.code_sizes))
                           + header.data_size = Len(container)
    BY DEF ParsersAgree
  <2>1. header = validated /\ Laid(container, validated)
    BY RunFacts DEF Before
  <2> QED  BY <2>1 DEF Laid
<1> QED  BY <1>1, Inductive, PTL

\* Valid code never makes check_requirements fail for another reason than gas.
THEOREM ValidCodeMeetsRequirements == Spec => []RequirementsMet
<1>1. IInv => RequirementsMet
  BY RunRequirement DEF RequirementsMet
<1> QED  BY <1>1, Inductive, PTL

\* Valid code runs from the start of an instruction to the start of an instruction, in
\* the section of the function that was called last and has not returned.
THEOREM RunsOnInstructions == Spec => []OnInstruction
<1>1. IInv => OnInstruction
  <2> SUFFICES ASSUME IInv, phase = "run"
               PROVE  pos - Offset(Frame.section - 1) \in Starts(Frame.section)
    BY DEF OnInstruction, Frame
  <2>1. /\ header = validated /\ container \in Seq(Byte)
        /\ Before(Len(validated.code_sizes))
        /\ Frame.section \in 1..Len(validated.code_sizes)
        /\ RanAt \in StartsOf(Ran, RanSize)
    BY RunFacts
  <2>2. Offset(Frame.section - 1) = Shift
    <3>1. (Frame.section - 1) + 1 = Frame.section
      BY <2>1
    <3> QED  BY <2>1, <3>1 DEF Offset, Shift
  <2>3. Starts(Frame.section) = StartsOf(Ran, RanSize)
    BY <2>1, ValidSection, StartsMatch DEF Ran, RanSize
  <2> QED  BY <2>1, <2>2, <2>3 DEF RanAt
<1> QED  BY <1>1, Inductive, PTL

\* However an instruction is reached, the stack above the base of its function is as
\* high as the validator found it to be there.
THEOREM RunsAtHeights == Spec => []HeightsAsValidated
<1>1. IInv => HeightsAsValidated
  <2> SUFFICES ASSUME IInv, phase = "run"
               PROVE  height - Frame.base
                        = heights[Frame.section][pos - Offset(Frame.section - 1)]
    BY DEF HeightsAsValidated, Frame
  <2>1. /\ header = validated /\ RanAt \in StartsOf(Ran, RanSize)
        /\ Frame.section \in 1..Len(validated.code_sizes)
        /\ height = Frame.base + Heights[RanAt] /\ Frame.base \in Nat
    BY RunFacts DEF Heights
  <2>2. Offset(Frame.section - 1) = Shift
    <3>1. (Frame.section - 1) + 1 = Frame.section
      BY <2>1
    <3> QED  BY <2>1, <3>1 DEF Offset, Shift
  <2>3. Heights[RanAt] \in Int
    BY <2>1, RunInstruction
  <2>4. height - Frame.base = Heights[RanAt]
    BY <2>1, <2>3
  <2> QED  BY <2>2, <2>4 DEF Heights, RanAt
<1> QED  BY <1>1, Inductive, PTL

\* The handlers that look at nothing before they read find what they read.
THEOREM UncheckedAccessesSafe == Spec => []UncheckedAccessSafe
<1>1. IInv => UncheckedAccessSafe
  <2> SUFFICES ASSUME IInv, phase = "run"
               PROVE  /\ opcode = OP_RETF => call_stack # << >>
                      /\ opcode \in {OP_CALLF, OP_JUMPF} =>
                             Operand(pos + 1) < Len(header.types)
                      /\ opcode = OP_DATALOADN =>
                             Operand(pos + 1) + WordSize <= header.data_size
    BY DEF UncheckedAccessSafe
  <2>1. /\ opcode = Ran[RanAt] /\ header = validated
        /\ Checked(Ran, RanSize, validated, RanAt)
    BY RunFacts, RunInstruction
  <2>2. opcode = OP_RETF => call_stack # << >>
    <3>1. opcode = OP_RETF => ReturnsBy(Ran, validated, RanAt)
      BY <2>1 DEF ReturnsBy
    <3>2. opcode = OP_RETF => Len(call_stack) \in Nat \ {0}
      BY <3>1, RunReturns
    <3> QED  BY <3>2
  <2>3. opcode \in {OP_CALLF, OP_JUMPF} => Operand(pos + 1) < Len(header.types)
    BY RunCallee
  <2>4. opcode = OP_DATALOADN => Operand(pos + 1) + WordSize <= header.data_size
    <3>1. Operand(pos + 1) = WordOf(Ran, RanAt + 1)
      BY RunBytes
    <3> QED  BY <2>1, <3>1 DEF Checked
  <2> QED  BY <2>2, <2>3, <2>4
<1> QED  BY <1>1, Inductive, PTL

=============================================================================
