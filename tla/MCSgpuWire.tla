----------------------------- MODULE MCSgpuWire -----------------------------
(* SgpuWire with headers around every boundary of the layout.              *)
EXTENDS SgpuWire

Base == NewHeader(VF_FAMILY_SGPU, 2)

\* Boundary values of the four fields the layout depends on, the two that
\* select the protocol, and fields the inline profile carries along.
MCHeaders ==
    {[Base EXCEPT !.message_bytes = m, !.payload_offset = o,
                  !.payload_bytes = n, !.reserved0 = o, !.flags = n] :
        m \in 12..(MsgBytes + PayloadMax + 1),
        o \in {0, 1, U64Max - 1, U64Max},
        n \in 0..(PayloadMax + 1)}
    \cup {[Base EXCEPT !.family = 2], [Base EXCEPT !.family = 4],
          [Base EXCEPT !.magic = 0], [Base EXCEPT !.abi_major = 2],
          [Base EXCEPT !.header_bytes = 12],
          [Base EXCEPT !.reserved0 = U64Max]}

MCCells == {Zero, Word(5)}

MCFrames ==
    {[header |-> h, payload |-> p] :
        h \in MCHeaders,
        p \in {<<>>, <<Word(5)>>, <<Word(5), Zero>>, <<Zero, Word(5), Word(5)>>}}
=============================================================================
