------------------------------ MODULE SgpuWire ------------------------------
(***************************************************************************)
(* A frame travels: a caller encodes it (SgpuFrame::try_to_wire), a peer   *)
(* or the transport may cut, extend or rewrite the bytes, the receiver     *)
(* decodes them (SgpuFrame::from_wire) and forwards the decoded frame with *)
(* SgpuFrame::to_wire, which panics on an invalid frame.                   *)
(***************************************************************************)
EXTENDS VfFrame

CONSTANTS
    Frames,     \* the frames callers construct, valid or not
    Cells,      \* the values a body cell can take
    MaxDamage   \* bound: how often one transfer is changed on its way

ASSUME FramesAssumption ==
    /\ Cells \subseteq {Word(n) : n \in U32}
    /\ Zero \in Cells
    /\ Frames \subseteq [header : VfMsgHeader, payload : Seq(Cells)]
    /\ MaxDamage \in Nat

VARIABLES
    sent,      \* the frame the caller encoded
    wire,      \* the bytes on their way
    damage,    \* how many changes were made to them
    received,  \* the frame from_wire returned
    stage      \* "idle", "flying", "received", "refused", "relayed", "panic"

vars == <<sent, wire, damage, received, stage>>

NoFrame == [header |-> NewHeader(0, 0), payload |-> <<>>]

Init ==
    /\ sent = NoFrame
    /\ wire = <<>>
    /\ damage = 0
    /\ received = NoFrame
    /\ stage = "idle"

\* try_to_wire: nothing is allocated or copied for a frame that does not
\* validate; the caller gets the error.
Send(f) ==
    /\ stage = "idle"
    /\ sent' = f
    /\ IF ValidateError(f) = "ok"
       THEN wire' = ToWire(f) /\ stage' = "flying"
       ELSE wire' = wire /\ stage' = "refused"
    /\ UNCHANGED <<damage, received>>

Damaged == stage = "flying" /\ damage < MaxDamage

Truncate(n) ==
    /\ Damaged
    /\ n < Len(wire)
    /\ wire' = SubSeq(wire, 1, n)
    /\ damage' = damage + 1
    /\ UNCHANGED <<sent, received, stage>>

Extend(c) ==
    /\ Damaged
    /\ wire' = Append(wire, c)
    /\ damage' = damage + 1
    /\ UNCHANGED <<sent, received, stage>>

RewriteBody(i, c) ==
    /\ Damaged
    /\ i \in (MsgBytes + 1)..Len(wire)
    /\ wire' = [wire EXCEPT ![i] = c]
    /\ damage' = damage + 1
    /\ UNCHANGED <<sent, received, stage>>

RewriteHeader(h) ==
    /\ Damaged
    /\ Len(wire) >= MsgBytes
    /\ wire' = [i \in 1..Len(wire) |->
                   IF i <= MsgBytes THEN Encode(h)[i] ELSE wire[i]]
    /\ damage' = damage + 1
    /\ UNCHANGED <<sent, received, stage>>

Receive ==
    /\ stage = "flying"
    /\ IF FromWireError(wire) = "ok"
       THEN received' = FromWire(wire) /\ stage' = "received"
       ELSE received' = received /\ stage' = "refused"
    /\ UNCHANGED <<sent, wire, damage>>

\* to_wire of the decoded frame: try_to_wire().expect(...).
Relay ==
    /\ stage = "received"
    /\ IF ValidateError(received) = "ok"
       THEN wire' = ToWire(received) /\ stage' = "relayed"
       ELSE wire' = wire /\ stage' = "panic"
    /\ UNCHANGED <<sent, damage, received>>

Next ==
    \/ \E f \in Frames : Send(f)
    \/ \E n \in 0..(U32Max - 1) : Truncate(n)
    \/ \E c \in Cells : Extend(c)
    \/ \E i \in 1..U32Max, c \in Cells : RewriteBody(i, c)
    \/ \E f \in Frames : RewriteHeader(f.header)
    \/ Receive
    \/ Relay

Spec == Init /\ [][Next]_vars

-----------------------------------------------------------------------------

\* Forwarding what from_wire accepted never reaches the expect() in to_wire,
\* whatever happened to the bytes: the two validations agree.
DecodedNeverPanics == stage # "panic"

\* An undamaged transfer is decoded, and to the frame that was sent: header
\* fields the profile does not use (flags, reserved0, grant) included.
Faithful ==
    damage = 0 =>
        /\ stage \in {"received", "relayed"} => received = sent
        /\ stage = "flying" => FromWireError(wire) = "ok"

\* A damaged transfer is never completed or cut silently: what is accepted
\* has exactly the declared length and carries the whole declared payload, as
\* it lies in the transfer.
NoSilentTruncation ==
    stage = "received" =>
        /\ Len(wire) = received.header.message_bytes
        /\ Len(received.payload) = received.header.payload_bytes
        /\ \A i \in 1..Len(received.payload) :
              received.payload[i] =
                 wire[MsgBytes + received.header.payload_offset + i]

\* Padding is the only thing a relay may change: the relayed bytes decode to
\* the frame that was received.
RelayKeepsFrame ==
    stage = "relayed" =>
        FromWireError(wire) = "ok" /\ FromWire(wire) = received

\* The codec's round trip, in both directions and under damage: what was sent
\* arrives, what arrives is all that was declared, and what is relayed decodes
\* to what arrived (try_to_wire, from_wire, to_wire).
RoundTrip ==
    /\ Faithful
    /\ NoSilentTruncation
    /\ RelayKeepsFrame

\* try_to_wire refuses exactly the frames it must: no combination of declared
\* lengths and offsets slips through by wrapping around an integer width, and
\* no well-formed frame is lost. In particular no transfer larger than header
\* plus VF_PAYLOAD_MAX is ever reserved.
AcceptsExactly ==
    damage = 0 /\ stage # "idle" =>
        (/\ GoodLayout(sent.header)
         /\ Len(sent.payload) = sent.header.payload_bytes)
        <=> stage # "refused"
=============================================================================
