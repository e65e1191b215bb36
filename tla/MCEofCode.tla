----------------------------- MODULE MCEofCode -----------------------------
(* Containers for TLC: all short codes made of a few instructions, with    *)
(* all declarations of their types, and one container with every byte of   *)
(* its header changed and cut at every length.                             *)
EXTENDS EofCode, TLC

Word(n) == <<n \div 256, n % 256>>

Concat(parts) ==
    LET upto[k \in 0..Len(parts)] == IF k = 0 THEN << >> ELSE upto[k - 1] \o parts[k]
    IN  upto[Len(parts)]

Container(codes, types, data) ==
    <<239, 0, VERSION, TYPE_SECTION>> \o Word(4 * Len(codes))
    \o <<CODE_SECTION>> \o Word(Len(codes))
    \o Concat([k \in DOMAIN codes |-> Word(Len(codes[k]))])
    \o <<DATA_SECTION>> \o Word(Len(data)) \o <<TERMINATOR>>
    \o Concat(types) \o Concat(codes) \o data

Codes(fragments, n) == {Concat(parts) : parts \in UNION {[1..k -> fragments] : k \in 1..n}}

Type(inputs, outputs, max) == <<inputs, outputs, 0, max>>
First(max) == Type(0, NON_RETURNING_FUNCTION, max)

Push  == <<OP_PUSH0>>
Pop   == <<PopOp>>
Stop  == <<OP_STOP>>
Call(k)  == <<OP_CALLF, 0, k>>
JumpF(k) == <<OP_JUMPF, 0, k>>
Ret   == <<OP_RETF>>

\* Jumps forward over one byte, to the next instruction, back over the byte before
\* them and into their own immediate data.
Jump1 == <<OP_RJUMPI, 0, 1>>
Jumps == {Jump1, <<OP_RJUMPI, 255, 252>>, <<OP_RJUMP, 255, 252>>,
          <<OP_RJUMPI, 255, 254>>, <<OP_RJUMPV, 1, 0, 0, 0, 1>>}

OneSection ==
    {Container(<<Push \o code>>, <<First(max)>>, <<0, 0>>) :
        code \in Codes(Jumps \cup {Push, Pop, Stop, <<OP_DUPN, 0>>}, 3), max \in 0..2}
    \cup {Container(<<<<OP_DATALOADN, 0, k>> \o Stop>>, <<First(1)>>, <<7, 7, 7>>) :
             k \in 0..2}
    \cup {Container(<<<<op, 0>>>>, <<First(0)>>, << >>) : op \in {OP_JUMP, OP_LOG1, 12}}
    \cup {Container(<<code>>, <<First(0)>>, << >>) :
             code \in {Ret, <<OP_RJUMP, 255, 253>>}}

Callees == {body \o end : body \in {<< >>} \cup Codes({Push, Pop, Call(1), Jump1}, 2),
                          end \in {Ret, JumpF(2), Jump1 \o Ret \o Ret}}
Callers == {Call(1) \o Stop, Push \o Call(1) \o Stop, Push \o JumpF(1),
            Push \o Call(1) \o <<OP_RJUMPI, 255, 249>> \o Stop, JumpF(1)}

Calls ==
    {Container(<<caller, callee, Ret>>, <<First(top), Type(inputs, outputs, max),
                                          Type(1, 1, 1)>>, << >>) :
        caller \in Callers, callee \in Callees, top \in 0..1, inputs \in 0..1,
        outputs \in {0, 1, NON_RETURNING_FUNCTION}, max \in 0..2}

Sample == Container(<<Push \o Call(1) \o Stop, Ret>>, <<First(1), Type(0, 0, 0)>>, <<9>>)
Edited ==
    {[Sample EXCEPT ![k] = byte] : k \in 1..26, byte \in {0, 1, 2, 4, 5, 255}}
    \cup {SubSeq(Sample, 1, k) : k \in 0..Len(Sample)} \cup {Append(Sample, 0)}

MCContainers == OneSection \cup Calls \cup Edited

=============================================================================
