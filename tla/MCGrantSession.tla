--------------------------- MODULE MCGrantSession ---------------------------
(* Two cells with one slot each, two objects, and capabilities that are not *)
(* yet valid, expire, are not readable, or carry reserved rights.           *)
EXTENDS GrantSession, TLC

CONSTANTS o1, o2

MCObjects == {o1, o2}
Symmetry == Permutations(MCObjects)

Endpoint == Handle(1, 1)
MCBindings ==
    {[caller_cell |-> c, endpoint_handle |-> e] :
        c \in {0, 1, 2}, e \in {Handle(1, 0), Handle(0, 1), Endpoint}}

\* A command list of two cells, with padding in its inline form.
ListFrame ==
    [header |-> [NewHeader(VF_FAMILY_SGPU, 5) EXCEPT
                    !.request_id = 7,
                    !.object = Endpoint,
                    !.payload_offset = 1,
                    !.payload_bytes = 2,
                    !.message_bytes = MsgBytes + 3],
     payload |-> <<Word(1), Word(2)>>]
MCInlineFrames == {f \in {ListFrame} : f.header \in VfMsgHeader}

\* A handle of generation 2 with nothing behind it but a guess, by either
\* cell; from one of them also a payload over the limit, a present request,
\* another endpoint, and a list without any bytes.
Guess == GrantHeader(ListFrame, Handle(2, Slot), 0)
Candidates ==
    {[cell |-> c, header |-> Guess] : c \in CellIds}
    \cup {[cell |-> 1, header |-> h] :
              h \in {[Guess EXCEPT !.payload_bytes = PayloadMax + 1],
                     [Guess EXCEPT !.opcode = 7],
                     [Guess EXCEPT !.object = Handle(1, 2)],
                     [Guess EXCEPT !.payload_bytes = 0, !.payload_grant = 0]}}
MCForged == {m \in Candidates : m.header \in VfMsgHeader}

MCTerms ==
    {[rights |-> {"read"}, valid_from |-> 0, expires_at |-> 1],
     [rights |-> {"read"}, valid_from |-> 1, expires_at |-> 2],
     [rights |-> {"write"}, valid_from |-> 0, expires_at |-> 2]}
=============================================================================
