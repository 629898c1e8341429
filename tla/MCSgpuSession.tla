--------------------------- MODULE MCSgpuSession ---------------------------
(* SgpuSession with two live resources, three handles and short buffers.   *)
EXTENDS SgpuSession, TLC

CONSTANTS g1, g2, g3

MCGpuHandles == {g1, g2, g3}
Symmetry == Permutations(MCGpuHandles)
MCByte == {0, 1}

Handles == 1..(HandleMax - 1)

\* A well-formed request, and one whose declared length is off by one.
Req(opcode, payload) ==
    [header |-> [NewHeader(VF_FAMILY_SGPU, opcode) EXCEPT
                    !.request_id = opcode,
                    !.payload_bytes = Len(payload),
                    !.message_bytes = MsgBytes + Len(payload)],
     payload |-> payload]
Inconsistent(f) == [f EXCEPT !.header.payload_bytes = @ + 1]

ListReq(cmds) == Req(VF_SGPU_SUBMIT_COMMAND_LIST, <<Word(Len(cmds))>> \o cmds)

\* Lists: one copy of any kind, out of bounds ones among them; chains of two
\* whose order matters; a supported command before one that is not.
MCLists ==
    {<<>>}
    \cup {<<Copy(1, d, n)>> : d \in Handles, n \in 1..2}
    \cup {<<Copy(s, 1, 1)>> : s \in Handles \ {1}}
    \cup {<<Copy(1, d, 1), Copy(d, 1, 2)>> : d \in Handles \ {1}}
    \cup {<<Copy(1, 2, 1), c>> :
             c \in {Present(1), Present(3), Unsupported("clear")}}
    \cup {<<Copy(1, 2, 1), Copy(1, 2, 1), Copy(1, 2, 1)>>}

Candidates ==
    {ListReq(cmds) : cmds \in MCLists}
    \cup {Req(VF_SGPU_CREATE_RESOURCE, <<Word(n)>>) : n \in 0..3}
    \cup {Req(VF_SGPU_DESTROY_RESOURCE, <<Word(h)>>) : h \in 0..HandleMax}
    \cup {Req(VF_SGPU_PRESENT, <<Word(h)>>) : h \in {1, 3}}
    \cup {Req(opcode, <<>>) : opcode \in {1, 2, 4, 5}}
    \cup {Req(opcode, <<Word(1), Word(1)>>) : opcode \in {1, 3, 7}}
    \cup {Inconsistent(Req(3, <<Word(1)>>))}

MCRequests == {f \in Candidates : f.header \in VfMsgHeader}
=============================================================================
