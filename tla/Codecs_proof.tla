---------------------------- MODULE Codecs_proof ----------------------------
(***************************************************************************)
(* Proofs about the three codecs: the frame, for every width and every     *)
(* payload limit; the capability record, with the widths it has in the     *)
(* code; the guest launch plan, for every cell, length and bound.          *)
(***************************************************************************)
EXTENDS SgpuWire, SgpuCaps, GuestPlan, SequenceTheorems, WellFoundedInduction,
        TLAPS

Cell64 == {Word(n) : n \in U64}

\* The cells a header field can occupy: five fields are u64, the rest narrower.
HeaderCell(i) ==
    IF i \in {7, 8, 9, 10, 13} THEN Cell64 ELSE {Word(n) : n \in U32}

LEMMA TypedHeader ==
    ASSUME NEW w, \A i \in 1..MsgBytes : w[i] \in HeaderCell(i)
    PROVE  Decode(w) \in VfMsgHeader
<1>1. \A i \in 1..MsgBytes :
         i \in {7, 8, 9, 10, 13} => Num(w[i]) \in U64
    BY DEF HeaderCell, Cell64, Word, Num, MsgBytes
<1>2. \A i \in 1..MsgBytes :
         i \notin {7, 8, 9, 10, 13} => Num(w[i]) \in U32
    BY DEF HeaderCell, Word, Num, MsgBytes
<1>3. QED
    BY <1>1, <1>2 DEF Decode, VfMsgHeader, MsgBytes

LEMMA EncodedHeader ==
    ASSUME NEW h \in VfMsgHeader, NEW i \in 1..MsgBytes
    PROVE  Encode(h)[i] \in HeaderCell(i) /\ Encode(h)[i] \in Cell64
<1>1. U32 \subseteq U64
    BY WidthAssumption DEF U32, U64
<1>2. /\ \A n \in U64 : Word(n) \in Cell64
      /\ \A n \in U32 : Word(n) \in {Word(m) : m \in U32}
    BY DEF Cell64
<1>3. /\ h.request_id \in U64 /\ h.object \in U64
      /\ h.payload_grant \in U64 /\ h.payload_offset \in U64
      /\ h.reserved0 \in U64
      /\ h.magic \in U32 /\ h.abi_major \in U32 /\ h.header_bytes \in U32
      /\ h.message_bytes \in U32 /\ h.family \in U32 /\ h.opcode \in U32
      /\ h.payload_bytes \in U32 /\ h.flags \in U32
    BY DEF VfMsgHeader
<1>4. i \in {7, 8, 9, 10, 13} => \E n \in U64 : Encode(h)[i] = Word(n)
    BY <1>3 DEF Encode, MsgBytes
<1>5. i \notin {7, 8, 9, 10, 13} => \E n \in U32 : Encode(h)[i] = Word(n)
    BY <1>3 DEF Encode, MsgBytes
<1>6. QED
    BY <1>1, <1>2, <1>4, <1>5 DEF HeaderCell

\* The chain of early returns in frame_layout accepts a header exactly when
\* GoodLayout holds: no checked addition hides a wrap-around.
THEOREM LayoutExact ==
    ASSUME NEW h \in VfMsgHeader
    PROVE  FrameLayoutError(h) = "ok" <=> GoodLayout(h)
<1> USE WidthAssumption DEF U32, U64, MsgBytes, VfMsgHeader
<1>1. ShapeError(h) = "ok" <=>
         /\ h.magic = VF_MSG_MAGIC /\ h.abi_major = VF_ABI_MAJOR
         /\ h.header_bytes = MsgBytes /\ h.message_bytes >= MsgBytes
         /\ h.payload_bytes <= PayloadMax /\ h.family \in Families
    BY DEF ShapeError
<1>2. PayloadEndError(h) = "ok" <=>
         /\ PayloadEnd(h) <= U64Max
         /\ h.message_bytes >= MsgBytes
         /\ PayloadEnd(h) <= h.message_bytes - MsgBytes
    BY DEF PayloadEndError, PayloadEnd
<1>3. IndexError(h) = "ok" <=>
         /\ FrameStart(h) <= U64Max /\ FrameEnd(h) <= U64Max
         /\ h.message_bytes <= UsizeMax /\ FrameStart(h) <= UsizeMax
         /\ FrameEnd(h) <= UsizeMax /\ FrameEnd(h) <= h.message_bytes
    BY DEF IndexError, FrameStart, FrameEnd, PayloadEnd
<1>4. FrameLayoutError(h) = "ok" <=>
         /\ ShapeError(h) = "ok"
         /\ h.family = VF_FAMILY_SGPU
         /\ h.message_bytes <= MsgBytes + PayloadMax
         /\ PayloadEndError(h) = "ok"
         /\ IndexError(h) = "ok"
    BY DEF FrameLayoutError
<1>5. QED
    BY <1>1, <1>2, <1>3, <1>4
       DEF GoodLayout, FrameStart, FrameEnd, PayloadEnd, VF_FAMILY_SGPU,
           Families

\* Reading the header cells back gives the header, field by field.
LEMMA HeaderRoundTrip ==
    ASSUME NEW h \in VfMsgHeader, NEW w,
           \A i \in 1..MsgBytes : w[i] = Encode(h)[i]
    PROVE  Decode(w) = h
<1>1. /\ w[1] = <<h.magic>> /\ w[2] = <<h.abi_major>>
      /\ w[3] = <<h.header_bytes>> /\ w[4] = <<h.message_bytes>>
      /\ w[5] = <<h.family>> /\ w[6] = <<h.opcode>>
      /\ w[7] = <<h.request_id>> /\ w[8] = <<h.object>>
      /\ w[9] = <<h.payload_grant>> /\ w[10] = <<h.payload_offset>>
      /\ w[11] = <<h.payload_bytes>> /\ w[12] = <<h.flags>>
      /\ w[13] = <<h.reserved0>>
    BY DEF Encode, Word, MsgBytes
<1>2. QED
    BY <1>1 DEF Decode, Num, VfMsgHeader

\* The range arithmetic of an accepted header, in the form the codec uses it.
LEMMA LayoutRange ==
    ASSUME NEW h \in VfMsgHeader, FrameLayoutError(h) = "ok"
    PROVE  /\ FrameStart(h) \in Nat /\ FrameEnd(h) \in Nat
           /\ MsgBytes <= FrameStart(h)
           /\ FrameEnd(h) - FrameStart(h) = h.payload_bytes
           /\ FrameEnd(h) <= h.message_bytes
           /\ h.message_bytes \in MsgBytes..(MsgBytes + PayloadMax)
           /\ h.payload_bytes \in Nat
    BY LayoutExact, WidthAssumption
       DEF GoodLayout, FrameStart, FrameEnd, PayloadEnd, VfMsgHeader, U32, U64,
           MsgBytes

\* The wire image of a valid frame has the declared length and the header.
LEMMA WireShape ==
    ASSUME NEW f, f.header \in VfMsgHeader, ValidateError(f) = "ok"
    PROVE  /\ FrameLayoutError(f.header) = "ok"
           /\ DOMAIN ToWire(f) = 1..f.header.message_bytes
           /\ Decode(ToWire(f)) = f.header
<1>1. FrameLayoutError(f.header) = "ok"
    BY DEF ValidateError
<1>2. DOMAIN ToWire(f) = 1..f.header.message_bytes
    BY DEF ToWire
<1>3. \A i \in 1..MsgBytes : ToWire(f)[i] = Encode(f.header)[i]
    BY <1>1, LayoutRange DEF ToWire, MsgBytes
<1>4. QED
    BY <1>1, <1>2, <1>3, HeaderRoundTrip

\* from_wire undoes try_to_wire: whatever frame was accepted for encoding
\* comes back, with its padding dropped and every header field kept.
THEOREM FrameRoundTrip ==
    ASSUME NEW f, NEW S, f = [header |-> f.header, payload |-> f.payload],
           f.header \in VfMsgHeader, f.payload \in Seq(S),
           ValidateError(f) = "ok"
    PROVE  /\ FromWireError(ToWire(f)) = "ok"
           /\ FromWire(ToWire(f)) = f
<1> DEFINE h == f.header
           w == ToWire(f)
<1>1. /\ FrameLayoutError(h) = "ok"
      /\ DOMAIN w = 1..h.message_bytes
      /\ Decode(w) = h
    BY WireShape
<1>2. Len(w) = h.message_bytes
    BY <1>1, WidthAssumption DEF ToWire, VfMsgHeader, U32
<1>3. FromWireError(w) = "ok"
    BY <1>1, <1>2, LayoutRange, WidthAssumption DEF FromWireError, MsgBytes
<1>4. /\ Len(f.payload) = FrameEnd(h) - FrameStart(h)
      /\ DOMAIN f.payload = 1..(FrameEnd(h) - FrameStart(h))
    BY LayoutRange, <1>1 DEF ValidateError
<1>5. \A i \in 1..(FrameEnd(h) - FrameStart(h)) :
         w[FrameStart(h) + i] = f.payload[i]
    BY <1>1, LayoutRange, WidthAssumption DEF ToWire, MsgBytes
<1>6. FromWire(w).payload = f.payload
    BY <1>1, <1>4, <1>5 DEF FromWire
<1>7. FromWire(w).header = h
    BY <1>1 DEF FromWire
<1>8. QED
    BY <1>3, <1>6, <1>7 DEF FromWire

\* What from_wire accepts validates, has the declared length, and carries the
\* declared payload as it lies in the transfer, whatever the bytes are.
LEMMA AcceptedWire ==
    ASSUME NEW w \in Seq(Cell64), Decode(w) \in VfMsgHeader,
           FromWireError(w) = "ok"
    PROVE  LET f == FromWire(w) IN
           /\ f = [header |-> f.header, payload |-> f.payload]
           /\ f.header \in VfMsgHeader
           /\ f.payload \in Seq(Cell64)
           /\ ValidateError(f) = "ok"
           /\ Len(w) = f.header.message_bytes
           /\ Len(f.payload) = f.header.payload_bytes
           /\ \A i \in 1..Len(f.payload) :
                 f.payload[i] = w[MsgBytes + f.header.payload_offset + i]
<1> DEFINE h == Decode(w)
           n == FrameEnd(h) - FrameStart(h)
           p == [i \in 1..n |-> w[FrameStart(h) + i]]
<1>1. /\ FrameLayoutError(h) = "ok"
      /\ Len(w) = h.message_bytes
    BY DEF FromWireError
<1>2. FromWire(w) = [header |-> h, payload |-> p]
    BY DEF FromWire
<1>3. n \in Nat /\ n = h.payload_bytes
    BY <1>1, LayoutRange
<1>4. \A i \in 1..n : FrameStart(h) + i \in 1..Len(w)
    BY <1>1, LayoutRange DEF MsgBytes
<1>5. p \in Seq(Cell64) /\ Len(p) = n
  <2>1. \A i \in 1..n : p[i] \in Cell64
      BY <1>4
  <2>2. p \in [1..n -> Cell64]
      BY <2>1
  <2>3. QED
      BY <2>2, <1>3
<1>6. ValidateError(FromWire(w)) = "ok"
  <2>1. FromWire(w).header = h /\ FromWire(w).payload = p
      BY <1>2
  <2>2. Len(FromWire(w).payload)
           = FrameEnd(FromWire(w).header) - FrameStart(FromWire(w).header)
      BY <2>1, <1>5
  <2>3. FrameLayoutError(FromWire(w).header) = "ok"
      BY <2>1, <1>1
  <2>4. QED
      BY <2>2, <2>3 DEF ValidateError
<1>7. \A i \in 1..n : p[i] = w[MsgBytes + h.payload_offset + i]
    BY DEF FrameStart
<1>8. QED
    BY <1>1, <1>2, <1>3, <1>5, <1>6, <1>7

-----------------------------------------------------------------------------
(* The invariant of a transfer.  The bytes on their way always carry typed *)
(* header cells; what has been received validates, and while it is not yet *)
(* relayed it is still what from_wire makes of the bytes.                  *)

WireTyped ==
    /\ wire \in Seq(Cell64)
    /\ \A i \in 1..MsgBytes : i <= Len(wire) => wire[i] \in HeaderCell(i)
    /\ damage \in Nat

ReceivedOK ==
    stage = "received" =>
        /\ FromWireError(wire) = "ok"
        /\ received = FromWire(wire)

RelayedOK ==
    stage = "relayed" => FromWireError(wire) = "ok" /\ FromWire(wire) = received

SentOK ==
    damage = 0 /\ stage = "flying" =>
        FromWireError(wire) = "ok" /\ FromWire(wire) = sent

SentKept ==
    damage = 0 /\ stage \in {"received", "relayed"} => received = sent

IInv ==
    /\ WireTyped
    /\ ReceivedOK
    /\ RelayedOK
    /\ SentOK
    /\ SentKept
    /\ DecodedNeverPanics

LEMMA InitIInv == Init => IInv
<1> SUFFICES ASSUME Init PROVE IInv
    OBVIOUS
<1>1. WireTyped
    BY DEF Init, WireTyped, MsgBytes
<1>2. QED
    BY <1>1 DEF Init, IInv, ReceivedOK, RelayedOK, SentOK, SentKept,
                DecodedNeverPanics

\* Encoding a valid frame puts typed bytes on the wire that decode to it.
LEMMA EncodedWire ==
    ASSUME NEW f, f = [header |-> f.header, payload |-> f.payload],
           f.header \in VfMsgHeader, f.payload \in Seq(Cell64),
           ValidateError(f) = "ok"
    PROVE  /\ ToWire(f) \in Seq(Cell64)
           /\ \A i \in 1..MsgBytes : ToWire(f)[i] \in HeaderCell(i)
           /\ FromWireError(ToWire(f)) = "ok"
           /\ FromWire(ToWire(f)) = f
<1> DEFINE h == f.header
           w == ToWire(f)
<1>1. /\ FrameLayoutError(h) = "ok"
      /\ DOMAIN w = 1..h.message_bytes
      /\ Decode(w) = h
    BY WireShape
<1>2. Len(f.payload) = FrameEnd(h) - FrameStart(h)
    BY DEF ValidateError
<1>3. \A i \in 1..h.message_bytes : w[i] \in Cell64
  <2> TAKE i \in 1..h.message_bytes
  <2>1. CASE i <= MsgBytes
    <3>1. w[i] = Encode(h)[i] /\ i \in 1..MsgBytes
        BY <2>1 DEF ToWire, MsgBytes
    <3>2. \A j \in 1..MsgBytes : Encode(h)[j] \in Cell64
        BY EncodedHeader
    <3>3. QED
        BY <3>1, <3>2
  <2>2. CASE i > MsgBytes /\ i \in (FrameStart(h) + 1)..FrameEnd(h)
    <3>1. w[i] = f.payload[i - FrameStart(h)]
        BY <2>2 DEF ToWire, MsgBytes
    <3>2. i - FrameStart(h) \in 1..Len(f.payload)
        BY <2>2, <1>1, <1>2, LayoutRange
    <3>3. QED
        BY <3>1, <3>2
  <2>3. CASE i > MsgBytes /\ i \notin (FrameStart(h) + 1)..FrameEnd(h)
    <3>1. w[i] = Zero
        BY <2>3 DEF ToWire, MsgBytes
    <3>2. QED
        BY <3>1, WidthAssumption DEF Zero, Cell64, U64
  <2>4. QED
      BY <2>1, <2>2, <2>3 DEF MsgBytes
<1>4. w \in Seq(Cell64)
  <2>1. h.message_bytes \in Nat
      BY <1>1, LayoutRange DEF MsgBytes
  <2>2. w \in [1..h.message_bytes -> Cell64]
      BY <1>3 DEF ToWire
  <2>3. QED
      BY <2>1, <2>2
<1>5. \A i \in 1..MsgBytes : w[i] \in HeaderCell(i)
  <2>1. \A i \in 1..MsgBytes : w[i] = Encode(h)[i]
      BY <1>1, LayoutRange DEF ToWire, MsgBytes
  <2>2. QED
      BY <2>1, EncodedHeader
<1>6. QED
    BY <1>4, <1>5, FrameRoundTrip

LEMMA NextIInv == IInv /\ [Next]_vars => IInv'
<1> SUFFICES ASSUME IInv, [Next]_vars PROVE IInv'
    OBVIOUS
<1> USE DEF IInv
<1>cells. Cells \subseteq {Word(n) : n \in U32} /\ Cells \subseteq Cell64
    BY FramesAssumption, WidthAssumption DEF Cell64, U32, U64
<1>body. \A i \in 1..MsgBytes : Cells \subseteq HeaderCell(i)
    BY <1>cells DEF HeaderCell
<1>1. ASSUME NEW f \in Frames, Send(f) PROVE IInv'
  <2>0. /\ f = [header |-> f.header, payload |-> f.payload]
        /\ f.header \in VfMsgHeader
        /\ f.payload \in Seq(Cell64)
      BY FramesAssumption, <1>cells
  <2>1. CASE ValidateError(f) = "ok"
    <3>1. wire' = ToWire(f) /\ stage' = "flying" /\ sent' = f
          /\ UNCHANGED damage
        BY <1>1, <2>1 DEF Send
    <3>2. /\ wire' \in Seq(Cell64)
          /\ \A i \in 1..MsgBytes : wire'[i] \in HeaderCell(i)
          /\ FromWireError(wire') = "ok" /\ FromWire(wire') = sent'
        BY <2>0, <2>1, <3>1, EncodedWire
    <3>3. QED
        BY <3>1, <3>2 DEF WireTyped, ReceivedOK, RelayedOK, SentOK, SentKept,
                          DecodedNeverPanics
  <2>2. CASE ValidateError(f) # "ok"
      BY <1>1, <2>2 DEF Send, WireTyped, ReceivedOK, RelayedOK, SentOK,
                        SentKept, DecodedNeverPanics
  <2>3. QED
      BY <2>1, <2>2
\* A change on the way only has to keep the header cells typed.
<1>2. ASSUME Damaged, wire' \in Seq(Cell64),
             \A i \in 1..MsgBytes :
                i <= Len(wire') => wire'[i] \in HeaderCell(i),
             damage' = damage + 1, UNCHANGED <<sent, received, stage>>
      PROVE  IInv'
    BY <1>2 DEF Damaged, WireTyped, ReceivedOK, RelayedOK, SentOK, SentKept,
                DecodedNeverPanics
<1>3. ASSUME NEW n \in 0..(U32Max - 1), Truncate(n) PROVE IInv'
  <2>1. wire \in Seq(Cell64) /\ wire' = SubSeq(wire, 1, n) /\ n < Len(wire)
        /\ n \in Nat
      BY <1>3, WidthAssumption DEF Truncate, WireTyped
  <2>2. /\ wire' \in Seq(Cell64) /\ Len(wire') = n
        /\ \A i \in 1..n : wire'[i] = wire[i]
      BY <2>1
  <2>3. QED
      BY <1>2, <1>3, <2>1, <2>2 DEF Truncate, WireTyped, MsgBytes
<1>4. ASSUME NEW c \in Cells, Extend(c) PROVE IInv'
  <2>1. /\ wire \in Seq(Cell64) /\ wire' \in Seq(Cell64)
        /\ Len(wire') = Len(wire) + 1 /\ wire'[Len(wire) + 1] = c
        /\ \A i \in 1..Len(wire) : wire'[i] = wire[i]
      BY <1>4, <1>cells DEF Extend, WireTyped
  <2>2. \A i \in 1..MsgBytes :
           i <= Len(wire') => wire'[i] \in HeaderCell(i)
    <3> TAKE i \in 1..MsgBytes
    <3> HAVE i <= Len(wire')
    <3>1. i \in 1..Len(wire) \/ i = Len(wire) + 1
        BY <2>1 DEF MsgBytes
    <3>2. CASE i \in 1..Len(wire)
        BY <2>1, <3>2 DEF WireTyped
    <3>3. CASE i = Len(wire) + 1
        BY <2>1, <3>3, <1>body
    <3>4. QED
        BY <3>1, <3>2, <3>3
  <2>3. QED
      BY <1>2, <1>4, <2>1, <2>2 DEF Extend
<1>5. ASSUME NEW i \in 1..U32Max, NEW c \in Cells, RewriteBody(i, c)
      PROVE  IInv'
  <2>1. /\ wire' \in Seq(Cell64) /\ Len(wire') = Len(wire)
        /\ \A j \in 1..MsgBytes : j <= Len(wire) => wire'[j] = wire[j]
      BY <1>5, <1>cells DEF RewriteBody, WireTyped, MsgBytes
  <2>2. QED
      BY <1>2, <1>5, <2>1 DEF RewriteBody, WireTyped
<1>6. ASSUME NEW f \in Frames, RewriteHeader(f.header) PROVE IInv'
  <2>1. f.header \in VfMsgHeader
      BY FramesAssumption
  <2>2. \A i \in 1..MsgBytes :
           /\ Encode(f.header)[i] \in HeaderCell(i)
           /\ Encode(f.header)[i] \in Cell64
      BY <2>1, EncodedHeader
  <2>3. /\ wire \in Seq(Cell64)
        /\ wire' = [i \in 1..Len(wire) |->
                       IF i <= MsgBytes THEN Encode(f.header)[i] ELSE wire[i]]
      BY <1>6 DEF RewriteHeader, WireTyped
  <2>4. \A i \in 1..Len(wire) : wire'[i] \in Cell64
      BY <2>2, <2>3 DEF MsgBytes
  <2>5. wire' \in Seq(Cell64) /\ Len(wire') = Len(wire)
      BY <2>3, <2>4
  <2>6. QED
      BY <1>2, <1>6, <2>2, <2>3, <2>5 DEF RewriteHeader, MsgBytes
<1>7. CASE Receive
    BY <1>7 DEF Receive, WireTyped, ReceivedOK, RelayedOK, SentOK, SentKept,
                DecodedNeverPanics
<1>8. CASE Relay
  <2>1. /\ wire \in Seq(Cell64) /\ FromWireError(wire) = "ok"
        /\ received = FromWire(wire) /\ stage = "received"
      BY <1>8 DEF Relay, WireTyped, ReceivedOK
  <2>2. Decode(wire) \in VfMsgHeader
    <3>1. Len(wire) >= MsgBytes
        BY <2>1 DEF FromWireError, MsgBytes
    <3>2. QED
        BY <2>1, <3>1, TypedHeader DEF WireTyped, MsgBytes
  <2>3. /\ received = [header |-> received.header,
                       payload |-> received.payload]
        /\ received.header \in VfMsgHeader
        /\ received.payload \in Seq(Cell64)
        /\ ValidateError(received) = "ok"
      BY <2>1, <2>2, AcceptedWire
  <2>4. wire' = ToWire(received) /\ stage' = "relayed"
        /\ UNCHANGED <<sent, damage, received>>
      BY <1>8, <2>3 DEF Relay
  <2>5. /\ wire' \in Seq(Cell64)
        /\ \A i \in 1..MsgBytes : wire'[i] \in HeaderCell(i)
        /\ FromWireError(wire') = "ok" /\ FromWire(wire') = received'
      BY <2>3, <2>4, EncodedWire
  <2>6. QED
      BY <2>1, <2>4, <2>5 DEF WireTyped, ReceivedOK, RelayedOK, SentOK,
                              SentKept, DecodedNeverPanics
<1>9. CASE UNCHANGED vars
    BY <1>9 DEF vars, WireTyped, ReceivedOK, RelayedOK, SentOK, SentKept,
                DecodedNeverPanics
<1>10. QED
    BY <1>1, <1>3, <1>4, <1>5, <1>6, <1>7, <1>8, <1>9 DEF Next

LEMMA IInvImplies ==
    IInv => DecodedNeverPanics /\ RoundTrip
<1> SUFFICES ASSUME IInv PROVE DecodedNeverPanics /\ RoundTrip
    OBVIOUS
<1>1. DecodedNeverPanics /\ Faithful /\ RelayKeepsFrame
    BY DEF IInv, Faithful, RelayKeepsFrame, SentOK, SentKept, RelayedOK
<1>2. NoSilentTruncation
  <2>1. SUFFICES ASSUME stage = "received" PROVE NoSilentTruncation
      BY DEF NoSilentTruncation
  <2>2. /\ wire \in Seq(Cell64) /\ FromWireError(wire) = "ok"
        /\ received = FromWire(wire)
      BY <2>1 DEF IInv, WireTyped, ReceivedOK
  <2>3. Decode(wire) \in VfMsgHeader
    <3>1. Len(wire) >= MsgBytes
        BY <2>2 DEF FromWireError, MsgBytes
    <3>2. QED
        BY <2>2, <3>1, TypedHeader DEF IInv, WireTyped, MsgBytes
  <2>4. QED
      BY <2>2, <2>3, AcceptedWire DEF NoSilentTruncation
<1>3. QED
    BY <1>1, <1>2 DEF RoundTrip

\* A decoded frame is never the one to_wire panics on, whatever was done to
\* the bytes before they were decoded.
THEOREM RelayNeverPanics == Spec => []DecodedNeverPanics
<1>1. IInv => DecodedNeverPanics
    BY DEF IInv
<1>2. QED
    BY InitIInv, NextIInv, <1>1, PTL DEF Spec

\* Undamaged transfers round-trip, damaged ones are refused or carried whole,
\* and relaying keeps the frame.
THEOREM TransferFaithful == Spec => []RoundTrip
<1>1. IInv => RoundTrip
    BY IInvImplies
<1>2. QED
    BY InitIInv, NextIInv, <1>1, PTL DEF Spec
-----------------------------------------------------------------------------
(* What try_to_wire accepts.                                               *)

\* The checks of validate accept exactly the frames of AcceptsExactly.
LEMMA ValidExact ==
    ASSUME NEW f, f.header \in VfMsgHeader
    PROVE  ValidateError(f) = "ok" <=>
              GoodLayout(f.header) /\ Len(f.payload) = f.header.payload_bytes
<1>1. FrameLayoutError(f.header) = "ok" <=> GoodLayout(f.header)
    BY LayoutExact
<1>2. FrameLayoutError(f.header) = "ok" =>
         FrameEnd(f.header) - FrameStart(f.header) = f.header.payload_bytes
    BY LayoutRange
<1>3. QED
    BY <1>1, <1>2 DEF ValidateError

SentTyped == stage # "idle" => sent.header \in VfMsgHeader

Judged ==
    damage = 0 /\ stage # "idle" =>
        (ValidateError(sent) = "ok" <=> stage # "refused")

LEMMA JudgedStep == IInv /\ SentTyped /\ Judged /\ [Next]_vars => SentTyped' /\ Judged'
<1> SUFFICES ASSUME IInv, SentTyped, Judged, [Next]_vars
             PROVE  SentTyped' /\ Judged'
    OBVIOUS
<1>1. ASSUME NEW f \in Frames, Send(f) PROVE SentTyped' /\ Judged'
  <2>1. f.header \in VfMsgHeader
      BY FramesAssumption
  <2>2. QED
      BY <1>1, <2>1 DEF Send, SentTyped, Judged
<1>2. ASSUME damage' = damage + 1, UNCHANGED <<sent, stage>>
      PROVE  SentTyped' /\ Judged'
    BY <1>2 DEF IInv, WireTyped, SentTyped, Judged
<1>3. ASSUME Receive PROVE SentTyped' /\ Judged'
    BY <1>3 DEF Receive, IInv, SentOK, SentTyped, Judged
<1>4. ASSUME Relay PROVE SentTyped' /\ Judged'
    BY <1>4 DEF Relay, SentTyped, Judged
<1>5. ASSUME UNCHANGED vars PROVE SentTyped' /\ Judged'
    BY <1>5 DEF vars, SentTyped, Judged
<1>6. QED
    BY <1>1, <1>2, <1>3, <1>4, <1>5
       DEF Next, Truncate, Extend, RewriteBody, RewriteHeader

\* try_to_wire refuses exactly the frames it must, for every width of the
\* integers and every limit of the payload.
THEOREM SendExact == Spec => []AcceptsExactly
<1>1. Init => SentTyped /\ Judged
    BY DEF Init, SentTyped, Judged
<1>2. SentTyped /\ Judged => AcceptsExactly
    BY ValidExact DEF SentTyped, Judged, AcceptsExactly
<1>3. QED
    BY InitIInv, NextIInv, JudgedStep, <1>1, <1>2, PTL DEF Spec

-----------------------------------------------------------------------------
(* The capability record, with the widths that bytes, u64 and u32 have in  *)
(* the code: no two of its fields lie on the same byte, whatever the       *)
(* record is and whichever byte is damaged.                                *)

VramSize == {n \in Nat : n < 18446744073709551616}
ThreadCount == {n \in Nat : n < 4294967296}
CodeWidths ==
    Byte = 256 /\ VramSizes = VramSize /\ ThreadCounts = ThreadCount

\* A set of naturals that is not empty has a least element.
LEMMA LeastNat ==
    ASSUME NEW S \in SUBSET Nat, S # {}
    PROVE  \E n \in S : \A m \in S : n <= m
<1> DEFINE R == OpToRel(<, Nat)
<1>1. \A x, y \in Nat : <<y, x>> \in R <=> y < x
    BY DEF OpToRel
<1>2. \E x \in S : \A y \in S : ~ (<<y, x>> \in R)
  <2>1. IsWellFoundedOn(R, Nat)
      BY NatLessThanWellFounded
  <2>2. S \subseteq Nat
      OBVIOUS
  <2> HIDE DEF R
  <2>3. QED
      BY <2>1, <2>2, WFMin
<1> HIDE DEF R
<1>3. PICK x \in S : \A y \in S : ~ (<<y, x>> \in R)
    BY <1>2
<1>4. ASSUME NEW y \in S PROVE x <= y
  <2>1. x \in Nat /\ y \in Nat
      OBVIOUS
  <2>2. ~ (<<y, x>> \in R)
      BY <1>3
  <2>3. ~ (y < x)
      BY <1>1, <2>1, <2>2
  <2>4. QED
      BY <2>1, <2>3
<1>5. QED
    BY <1>4

\* Whatever holds at the start of an interval and goes on holds all over it.
LEMMA Onward ==
    ASSUME NEW k \in Nat, NEW P \in SUBSET Nat, 0 \in P,
           \A i \in 1..k : i - 1 \in P => i \in P
    PROVE  0..k \subseteq P
<1> DEFINE Out == {i \in 0..k : i \notin P}
<1>1. ASSUME Out # {} PROVE FALSE
  <2>1. PICK m \in Out : \A l \in Out : m <= l
    <3>1. Out \in SUBSET Nat
        OBVIOUS
    <3> HIDE DEF Out
    <3>2. QED
        BY <1>1, <3>1, LeastNat
  <2>2. m \in 1..k /\ m \notin P
      OBVIOUS
  <2>3. m - 1 \in 0..k /\ ~ (m <= m - 1)
      BY <2>2
  <2>4. m - 1 \in P
      BY <2>1, <2>3
  <2>5. QED
      BY <2>2, <2>4
<1>2. QED
    BY <1>1

\* f starts with x and goes on as F says.
Follows(f, S, x, F, k) ==
    /\ f \in [0..k -> S]
    /\ f[0] = x
    /\ \A i \in 1..k : f[i] = F[<<i, f[i - 1]>>]

\* A function can be given by its start and its steps.
LEMMA Recursion ==
    \A S : \A x \in S, F \in [Nat \X S -> S], k \in Nat :
        \E f : Follows(f, S, x, F, k)
<1> SUFFICES ASSUME NEW S, NEW x \in S, NEW F \in [Nat \X S -> S], NEW k \in Nat
             PROVE  \E f : Follows(f, S, x, F, k)
    OBVIOUS
<1> DEFINE Good(j, f) == Follows(f, S, x, F, j)
           P == {j \in Nat : \E f : Good(j, f)}
<1>1. 0 \in P
  <2> DEFINE f == [i \in 0..0 |-> x]
  <2>1. Good(0, f)
      BY DEF Follows
  <2>2. QED
      BY <2>1
<1>2. ASSUME NEW j \in 1..k, j - 1 \in P PROVE j \in P
  <2>1. PICK f : Good(j - 1, f)
      BY <1>2
  <2>2. j \in Nat /\ j - 1 \in 0..(j - 1)
      OBVIOUS
  <2>3. f[j - 1] \in S
      BY <2>1, <2>2 DEF Follows
  <2> DEFINE y == F[<<j, f[j - 1]>>]
             g == [i \in 0..j |-> IF i = j THEN y ELSE f[i]]
  <2>4. y \in S
      BY <2>2, <2>3
  <2>5. \A i \in 0..j : i # j => i \in 0..(j - 1)
      BY <2>2
  <2>6. g \in [0..j -> S]
      BY <2>1, <2>4, <2>5 DEF Follows
  <2>7. g[0] = x
      BY <2>1, <2>2 DEF Follows
  <2>8. ASSUME NEW i \in 1..j PROVE g[i] = F[<<i, g[i - 1]>>]
    <3>1. i \in 0..j /\ i - 1 \in 0..j /\ i - 1 # j
        BY <2>2
    <3>2. g[i - 1] = f[i - 1]
        BY <3>1
    <3>3. CASE i = j
        BY <3>1, <3>2, <3>3
    <3>4. CASE i # j
      <4>1. i \in 1..(j - 1)
          BY <2>2, <3>4
      <4>2. f[i] = F[<<i, f[i - 1]>>]
          BY <2>1, <4>1 DEF Follows
      <4>3. QED
          BY <3>1, <3>2, <3>4, <4>2
    <3>5. QED
        BY <3>3, <3>4
  <2> HIDE DEF g, y
  <2>9. Good(j, g)
      BY <2>6, <2>7, <2>8 DEF Follows
  <2>10. QED
      BY <2>2, <2>9
<1>3. P \in SUBSET Nat
    OBVIOUS
<1> HIDE DEF P
<1>4. 0..k \subseteq P
    BY <1>1, <1>2, <1>3, Onward
<1>5. k \in P
    BY <1>4
<1>6. QED
    BY <1>5 DEF P

\* Each quotient is that of the one before it.
IsShift(f, n, k) ==
    f = [i \in 0..k |-> IF i = 0 THEN n ELSE f[i - 1] \div Byte]

\* Quotients is that function: the recursion defines one.
LEMMA QuotientsShift ==
    ASSUME CodeWidths, NEW n \in Nat, NEW k \in Nat
    PROVE  IsShift(Quotients(n, k), n, k)
<1> DEFINE F == [p \in Nat \X Nat |-> p[2] \div 256]
<1>1. F \in [Nat \X Nat -> Nat]
    OBVIOUS
<1>2. \A i \in Nat, v \in Nat : F[<<i, v>>] = v \div 256
    OBVIOUS
<1> HIDE DEF F
<1>3. PICK f : Follows(f, Nat, n, F, k)
    BY <1>1, Recursion
<1>4. ASSUME NEW i \in 0..k
      PROVE  f[i] = IF i = 0 THEN n ELSE f[i - 1] \div 256
  <2>1. CASE i = 0
      BY <1>3, <2>1 DEF Follows
  <2>2. CASE i # 0
    <3>1. i \in 1..k /\ i - 1 \in 0..k
        BY <2>2
    <3>2. f[i - 1] \in Nat /\ i \in Nat
        BY <1>3, <3>1 DEF Follows
    <3>3. F[<<i, f[i - 1]>>] = f[i - 1] \div 256
        BY <1>2, <3>2
    <3>4. QED
        BY <1>3, <2>2, <3>1, <3>3 DEF Follows
  <2>3. QED
      BY <2>1, <2>2
<1>5. f = [i \in 0..k |-> f[i]]
    BY <1>3 DEF Follows
<1>6. IsShift(f, n, k)
  <2>1. \A i \in 0..k : f[i] = IF i = 0 THEN n ELSE f[i - 1] \div Byte
      BY <1>4 DEF CodeWidths
  <2>2. QED
      BY <1>5, <2>1 DEF IsShift
<1>7. Quotients(n, k) = CHOOSE r : IsShift(r, n, k)
    BY Zenon DEF Quotients, IsShift
<1> HIDE DEF IsShift
<1>8. QED
    BY <1>6, <1>7

\* What the function of quotients is at each byte.
LEMMA ShiftSteps ==
    ASSUME CodeWidths,
           NEW n \in Nat, NEW k \in Nat, NEW f, IsShift(f, n, k)
    PROVE  /\ f[0] = n
           /\ \A i \in 1..k : f[i] = f[i - 1] \div 256
           /\ \A i \in 0..k : f[i] \in Nat
<1>1. \A i \in 0..k : f[i] = IF i = 0 THEN n ELSE f[i - 1] \div 256
  <2>1. \A i \in 0..k : f[i] = IF i = 0 THEN n ELSE f[i - 1] \div Byte
      BY DEF IsShift
  <2>2. QED
      BY <2>1 DEF CodeWidths
<1>2. f[0] = n /\ \A i \in 1..k : f[i] = f[i - 1] \div 256
    BY <1>1
<1> DEFINE P == {i \in Nat : i <= k => f[i] \in Nat}
<1>3. 0 \in P
    BY <1>2
<1>4. ASSUME NEW i \in 1..k, i - 1 \in P PROVE i \in P
  <2>1. f[i - 1] \in Nat /\ i \in Nat
      BY <1>4
  <2>2. f[i - 1] \div 256 \in Nat
      BY <2>1
  <2>3. QED
      BY <1>2, <2>1, <2>2
<1>5. P \in SUBSET Nat
    OBVIOUS
<1> HIDE DEF P
<1>6. 0..k \subseteq P
    BY <1>3, <1>4, <1>5, Onward
<1>7. \A i \in 0..k : f[i] \in Nat
    BY <1>6 DEF P
<1>8. QED
    BY <1>2, <1>7

\* A byte taken off a number takes it off its bound.
LEMMA OneByteLess ==
    \A x, m \in Nat : x < 256 * m => x \div 256 < m
  OBVIOUS

\* Nothing is left of a number behind as many bytes as its type has.
LEMMA Exhausted ==
    ASSUME CodeWidths, NEW n \in Nat, NEW f
    PROVE  /\ n < 4294967296 /\ IsShift(f, n, 4) => f[4] = 0
           /\ n < 18446744073709551616 /\ IsShift(f, n, 8) => f[8] = 0
<1>1. ASSUME n < 4294967296, IsShift(f, n, 4) PROVE f[4] = 0
  <2>1. /\ f[0] = n
        /\ \A i \in 1..4 : f[i] = f[i - 1] \div 256
        /\ \A i \in 0..4 : f[i] \in Nat
      BY <1>1, ShiftSteps
  <2>2. f[1] \in Nat /\ f[1] < 16777216
      BY <1>1, <2>1, OneByteLess, SMT
  <2>3. f[2] \in Nat /\ f[2] < 65536
      BY <2>2, <2>1, OneByteLess, SMT
  <2>4. f[3] \in Nat /\ f[3] < 256
      BY <2>3, <2>1, OneByteLess, SMT
  <2>5. f[4] \in Nat /\ f[4] < 1
      BY <2>4, <2>1, OneByteLess, SMT
  <2>6. QED
      BY <2>5, SMT
<1>2. ASSUME n < 18446744073709551616, IsShift(f, n, 8) PROVE f[8] = 0
  <2>1. /\ f[0] = n
        /\ \A i \in 1..8 : f[i] = f[i - 1] \div 256
        /\ \A i \in 0..8 : f[i] \in Nat
      BY <1>2, ShiftSteps
  <2>2. f[1] \in Nat /\ f[1] < 72057594037927936
      BY <1>2, <2>1, OneByteLess, SMT
  <2>3. f[2] \in Nat /\ f[2] < 281474976710656
      BY <2>2, <2>1, OneByteLess, SMT
  <2>4. f[3] \in Nat /\ f[3] < 1099511627776
      BY <2>3, <2>1, OneByteLess, SMT
  <2>5. f[4] \in Nat /\ f[4] < 4294967296
      BY <2>4, <2>1, OneByteLess, SMT
  <2>6. f[5] \in Nat /\ f[5] < 16777216
      BY <2>5, <2>1, OneByteLess, SMT
  <2>7. f[6] \in Nat /\ f[6] < 65536
      BY <2>6, <2>1, OneByteLess, SMT
  <2>8. f[7] \in Nat /\ f[7] < 256
      BY <2>7, <2>1, OneByteLess, SMT
  <2>9. f[8] \in Nat /\ f[8] < 1
      BY <2>8, <2>1, OneByteLess, SMT
  <2>10. QED
      BY <2>9, SMT
<1>3. QED
    BY <1>1, <1>2, SMT

\* The value of the high bytes, one more at each step.
IsValue(g, w, k) ==
    g = [i \in 0..k |-> IF i = 0 THEN 0 ELSE g[i - 1] * Byte + w[k + 1 - i]]

\* What Number does, one byte at a time.
Reads(g, w, v) ==
    /\ v = g[Len(w)]
    /\ g[0] = 0
    /\ \A i \in 1..Len(w) : g[i] = g[i - 1] * 256 + w[Len(w) + 1 - i]
    /\ \A i \in 0..Len(w) : g[i] \in Nat

\* Number reads its bytes so, and every value on the way is a natural number.
LEMMA NumberValue ==
    ASSUME CodeWidths
    PROVE  \A w \in Seq(0..255) : \E g : Reads(g, w, Number(w))
<1> SUFFICES ASSUME NEW w \in Seq(0..255)
             PROVE  \E g : Reads(g, w, Number(w))
    OBVIOUS
<1>0. \A j \in 1..Len(w) : w[j] \in 0..255
    BY ElementOfSeq
<1> DEFINE k == Len(w)
           Digit(i) == IF i \in 1..k THEN w[k + 1 - i] ELSE 0
           F == [p \in Nat \X Nat |-> p[2] * 256 + Digit(p[1])]
<1>1. k \in Nat
    OBVIOUS
<1>2. \A i \in Nat : Digit(i) \in Nat
  <2>1. ASSUME NEW i \in 1..Len(w) PROVE w[Len(w) + 1 - i] \in Nat
    <3>1. Len(w) + 1 - i \in 1..Len(w)
        BY <1>1
    <3>2. w[Len(w) + 1 - i] \in 0..255
        BY <1>0, <3>1
    <3>3. \A v \in 0..255 : v \in Nat
        OBVIOUS
    <3>4. QED
        BY <3>2, <3>3, Zenon
  <2>2. QED
      BY <2>1
<1> HIDE DEF k
<1>3. \A i \in 1..k : Digit(i) = w[k + 1 - i]
    OBVIOUS
<1> HIDE DEF Digit
<1>4. F \in [Nat \X Nat -> Nat]
  <2>1. ASSUME NEW p \in Nat \X Nat PROVE p[2] * 256 + Digit(p[1]) \in Nat
    <3>1. p[1] \in Nat /\ p[2] \in Nat
        OBVIOUS
    <3>2. Digit(p[1]) \in Nat
        BY <1>2, <3>1
    <3>3. QED
        BY <3>1, <3>2
  <2>2. QED
      BY <2>1
<1>5. \A i \in Nat, v \in Nat : F[<<i, v>>] = v * 256 + Digit(i)
    OBVIOUS
<1> HIDE DEF F
<1>6. PICK f : Follows(f, Nat, 0, F, k)
  <2>1. 0 \in Nat
      OBVIOUS
  <2>2. QED
      BY <1>1, <1>4, <2>1, Recursion
<1>7. ASSUME NEW i \in 0..k
      PROVE  f[i] = IF i = 0 THEN 0 ELSE f[i - 1] * 256 + w[k + 1 - i]
  <2>1. CASE i = 0
      BY <1>6, <2>1 DEF Follows
  <2>2. CASE i # 0
    <3>1. i \in 1..k /\ i - 1 \in 0..k
        BY <1>1, <2>2
    <3>2. f[i - 1] \in Nat /\ i \in Nat
        BY <1>6, <3>1 DEF Follows
    <3>3. f[i] = f[i - 1] * 256 + Digit(i)
        BY <1>5, <1>6, <3>1, <3>2 DEF Follows
    <3>4. QED
        BY <1>3, <2>2, <3>1, <3>3
  <2>3. QED
      BY <2>1, <2>2
<1>8. f = [i \in 0..k |-> f[i]]
    BY <1>6 DEF Follows
<1>9. IsValue(f, w, k)
  <2>1. \A i \in 0..k :
           f[i] = IF i = 0 THEN 0 ELSE f[i - 1] * Byte + w[k + 1 - i]
      BY <1>7 DEF CodeWidths
  <2>2. QED
      BY <1>8, <2>1 DEF IsValue
<1> DEFINE g == CHOOSE r : IsValue(r, w, k)
<1>10. Number(w) = g[k]
    BY Zenon DEF Number, IsValue, k
<1>11. IsValue(g, w, k)
  <2> HIDE DEF IsValue
  <2>1. QED
      BY <1>9
<1> HIDE DEF g
<1>12. \A i \in 0..k : g[i] = IF i = 0 THEN 0 ELSE g[i - 1] * 256 + w[k + 1 - i]
  <2>1. \A i \in 0..k :
           g[i] = IF i = 0 THEN 0 ELSE g[i - 1] * Byte + w[k + 1 - i]
      BY <1>11 DEF IsValue
  <2>2. QED
      BY <2>1 DEF CodeWidths
<1>13. g[0] = 0 /\ \A i \in 1..k : g[i] = g[i - 1] * 256 + w[k + 1 - i]
    BY <1>1, <1>12
<1> DEFINE P == {i \in Nat : i <= k => g[i] \in Nat}
<1>14. 0 \in P
    BY <1>13
<1>15. ASSUME NEW i \in 1..k, i - 1 \in P PROVE i \in P
  <2>1. g[i - 1] \in Nat /\ i \in Nat
      BY <1>1, <1>15
  <2>2. w[k + 1 - i] \in Nat
      BY <1>2, <1>3, <2>1
  <2>3. QED
      BY <1>13, <2>1, <2>2
<1>16. P \in SUBSET Nat
    OBVIOUS
<1> HIDE DEF P
<1>17. 0..k \subseteq P
    BY <1>1, <1>14, <1>15, <1>16, Onward
<1>18. \A i \in 0..k : g[i] \in Nat
    BY <1>1, <1>17 DEF P
<1>19. QED
    BY <1>10, <1>13, <1>18 DEF k, Reads

\* Reading the bytes of a number gives the number.
LEMMA ReadBack ==
    ASSUME CodeWidths, NEW n \in Nat, NEW k \in Nat, Quotients(n, k)[k] = 0
    PROVE  /\ LittleEndian(n, k) \in Seq(0..255)
           /\ Len(LittleEndian(n, k)) = k
           /\ Number(LittleEndian(n, k)) = n
<1> DEFINE f == Quotients(n, k)
           w == LittleEndian(n, k)
<1>1. /\ f[0] = n
      /\ \A i \in 1..k : f[i] = f[i - 1] \div 256
      /\ \A i \in 0..k : f[i] \in Nat
    BY QuotientsShift, ShiftSteps
<1>2. w = [i \in 1..k |-> f[i - 1] % 256]
    BY DEF LittleEndian, CodeWidths
<1>3. f[k] = 0
    OBVIOUS
<1> HIDE DEF f, w
<1>4. \A i \in 1..k : i - 1 \in 0..k
    OBVIOUS
<1>5. \A i \in 1..k : f[i - 1] % 256 \in 0..255
  <2>1. \A x \in Nat : x % 256 \in 0..255
      OBVIOUS
  <2>2. QED
      BY <1>1, <1>4, <2>1
<1>6. w \in [1..k -> 0..255]
    BY <1>2, <1>5
<1>7. w \in Seq(0..255) /\ Len(w) = k
    BY <1>6
<1>8. \E g : Reads(g, w, Number(w))
    BY <1>7, NumberValue
<1>9. PICK g : /\ Number(w) = g[k]
               /\ g[0] = 0
               /\ \A i \in 1..k : g[i] = g[i - 1] * 256 + w[k + 1 - i]
               /\ \A i \in 0..k : g[i] \in Nat
    BY <1>7, <1>8 DEF Reads
<1> DEFINE P == {i \in Nat : i <= k => g[i] = f[k - i]}
<1>10. 0 \in P
    BY <1>3, <1>9
<1>11. ASSUME NEW i \in 1..k, i - 1 \in P PROVE i \in P
  <2>1. /\ k + 1 - i \in 1..k /\ k - i \in 0..k /\ i - 1 <= k /\ i \in Nat
        /\ k - (i - 1) = k + 1 - i /\ (k + 1 - i) - 1 = k - i
      OBVIOUS
  <2>2. g[i - 1] = f[k + 1 - i]
      BY <1>11, <2>1
  <2>3. f[k + 1 - i] = f[k - i] \div 256
      BY <1>1, <2>1
  <2>4. w[k + 1 - i] = f[k - i] % 256
      BY <1>2, <2>1
  <2>5. f[k - i] \in Nat
      BY <1>1, <2>1
  <2>6. g[i] = (f[k - i] \div 256) * 256 + (f[k - i] % 256)
      BY <1>9, <2>2, <2>3, <2>4
  <2>7. \A x \in Nat : (x \div 256) * 256 + (x % 256) = x
      OBVIOUS
  <2>8. g[i] = f[k - i]
      BY <2>5, <2>6, <2>7
  <2>9. QED
      BY <2>1, <2>8
<1>12. P \in SUBSET Nat
    OBVIOUS
<1> HIDE DEF P
<1>13. k \in P
  <2>1. 0..k \subseteq P
      BY <1>10, <1>11, <1>12, Onward
  <2>2. QED
      BY <2>1
<1>14. g[k] = f[0]
    BY <1>13 DEF P
<1>15. QED
    BY <1>1, <1>7, <1>9, <1>14 DEF w

\* So the bytes of a u32 and of a u64 give the number back.
LEMMA FieldsReadBack ==
    ASSUME CodeWidths, NEW n \in Nat
    PROVE  /\ n < 4294967296 =>
                 /\ LittleEndian(n, 4) \in Seq(0..255)
                 /\ Len(LittleEndian(n, 4)) = 4
                 /\ Number(LittleEndian(n, 4)) = n
           /\ n < 18446744073709551616 =>
                 /\ LittleEndian(n, 8) \in Seq(0..255)
                 /\ Len(LittleEndian(n, 8)) = 8
                 /\ Number(LittleEndian(n, 8)) = n
<1>1. 4 \in Nat /\ 8 \in Nat
    OBVIOUS
<1>2. Quotients(n, 4)[4] = 0 =>
         /\ LittleEndian(n, 4) \in Seq(0..255)
         /\ Len(LittleEndian(n, 4)) = 4
         /\ Number(LittleEndian(n, 4)) = n
    BY <1>1, ReadBack
<1>3. Quotients(n, 8)[8] = 0 =>
         /\ LittleEndian(n, 8) \in Seq(0..255)
         /\ Len(LittleEndian(n, 8)) = 8
         /\ Number(LittleEndian(n, 8)) = n
    BY <1>1, ReadBack
<1>4. IsShift(Quotients(n, 4), n, 4) /\ IsShift(Quotients(n, 8), n, 8)
    BY <1>1, QuotientsShift
<1>5. n < 4294967296 => Quotients(n, 4)[4] = 0
    BY <1>4, Exhausted, SMT
<1>6. n < 18446744073709551616 => Quotients(n, 8)[8] = 0
    BY <1>4, Exhausted, SMT
<1>7. QED
    BY <1>2, <1>3, <1>5, <1>6, SMT

\* A byte more to read moves the bound by a byte.
LEMMA OneByteMore ==
    \A x, m \in Nat : x < m => \A b \in 0..255 : x * 256 + b < 256 * m
  OBVIOUS

\* What is read of as many bytes as a type has fits the type.
LEMMA NumberFits ==
    ASSUME CodeWidths, NEW w \in Seq(0..255)
    PROVE  /\ Number(w) \in Nat
           /\ Len(w) = 4 => Number(w) < 4294967296
           /\ Len(w) = 8 => Number(w) < 18446744073709551616
<1>1. PICK g :
         /\ Number(w) = g[Len(w)]
         /\ g[0] = 0
         /\ \A i \in 1..Len(w) : g[i] = g[i - 1] * 256 + w[Len(w) + 1 - i]
         /\ \A i \in 0..Len(w) : g[i] \in Nat
  <2>1. PICK g : Reads(g, w, Number(w))
      BY NumberValue
  <2>2. QED
      BY <2>1 DEF Reads
<1>2. \A j \in 1..Len(w) : w[j] \in 0..255
    BY ElementOfSeq
<1>3. \A i \in 1..Len(w) : \E b \in 0..255 : g[i] = g[i - 1] * 256 + b
  <2>1. \A i \in 1..Len(w) : Len(w) + 1 - i \in 1..Len(w)
      OBVIOUS
  <2>2. QED
      BY <1>1, <1>2, <2>1
<1>4. Len(w) \in Nat
    OBVIOUS
<1>5. ASSUME NEW i \in 1..Len(w), NEW m \in Nat, g[i - 1] < m
      PROVE  g[i] < 256 * m
  <2>1. g[i - 1] \in Nat
      BY <1>1, <1>4
  <2>2. PICK b \in 0..255 : g[i] = g[i - 1] * 256 + b
      BY <1>3
  <2>3. g[i - 1] * 256 + b < 256 * m
      BY <1>5, <2>1, OneByteMore
  <2>4. QED
      BY <2>2, <2>3, Zenon
<1>6. Number(w) \in Nat
    BY <1>1, <1>4
<1>7. ASSUME Len(w) = 4 PROVE Number(w) < 4294967296
  <2>1. \A i \in 1..4, m \in Nat : g[i - 1] < m => g[i] < 256 * m
      BY <1>5, <1>7
  <2>2. g[1] < 256
      BY <1>1, <2>1, SMT
  <2>3. g[2] < 65536
      BY <2>2, <2>1, SMT
  <2>4. g[3] < 16777216
      BY <2>3, <2>1, SMT
  <2>5. g[4] < 4294967296
      BY <2>4, <2>1, SMT
  <2>6. QED
      BY <1>1, <1>7, <2>5, SMT
<1>8. ASSUME Len(w) = 8 PROVE Number(w) < 18446744073709551616
  <2>1. \A i \in 1..8, m \in Nat : g[i - 1] < m => g[i] < 256 * m
      BY <1>5, <1>8
  <2>2. g[1] < 256
      BY <1>1, <2>1, SMT
  <2>3. g[2] < 65536
      BY <2>2, <2>1, SMT
  <2>4. g[3] < 16777216
      BY <2>3, <2>1, SMT
  <2>5. g[4] < 4294967296
      BY <2>4, <2>1, SMT
  <2>6. g[5] < 1099511627776
      BY <2>5, <2>1, SMT
  <2>7. g[6] < 281474976710656
      BY <2>6, <2>1, SMT
  <2>8. g[7] < 72057594037927936
      BY <2>7, <2>1, SMT
  <2>9. g[8] < 18446744073709551616
      BY <2>8, <2>1, SMT
  <2>10. QED
      BY <1>1, <1>8, <2>9, SMT
<1>9. QED
    BY <1>6, <1>7, <1>8, SMT

Vendors == GpuVendor
Versions == MetalVersion

\* Both enumerations have four names.
LEMMA FourNames ==
    /\ DOMAIN Vendors = 1..4 /\ Len(Vendors) = 4
    /\ DOMAIN Versions = 1..4 /\ Len(Versions) = 4
    BY DEF Vendors, Versions, GpuVendor, MetalVersion

\* A discriminant is a byte, by which the name is found again; every byte has
\* a name.
LEMMA Discriminants ==
    ASSUME NEW names, DOMAIN names = 1..4, Len(names) = 4
    PROVE  /\ \A v \in Range(names) :
                 /\ Discriminant(names, v) \in 0..255
                 /\ Named(names, Discriminant(names, v)) = v
           /\ \A b \in 0..255 : Named(names, b) \in Range(names)
<1>1. ASSUME NEW v \in Range(names)
      PROVE  /\ Discriminant(names, v) \in 0..255
             /\ Named(names, Discriminant(names, v)) = v
  <2> DEFINE d == CHOOSE i \in DOMAIN names : names[i] = v
  <2>1. \E i \in DOMAIN names : names[i] = v
      BY DEF Range
  <2>2. d \in DOMAIN names /\ names[d] = v
      BY <2>1
  <2>3. Discriminant(names, v) = d - 1
      BY DEF Discriminant
  <2> HIDE DEF d
  <2>4. d \in 1..4
      BY <2>2
  <2>5. Named(names, d - 1) = names[d]
      BY <2>4 DEF Named
  <2>6. QED
      BY <2>2, <2>3, <2>4, <2>5
<1>2. ASSUME NEW b \in 0..255 PROVE Named(names, b) \in Range(names)
  <2>1. (IF b < Len(names) THEN b + 1 ELSE Len(names)) \in DOMAIN names
      OBVIOUS
  <2>2. QED
      BY <2>1 DEF Named, Range
<1>3. QED
    BY <1>1, <1>2

\* The two sets of numbers by their bounds.
LEMMA Widths ==
    /\ \A n : n \in VramSize <=> n \in Nat /\ n < 18446744073709551616
    /\ \A n : n \in ThreadCount <=> n \in Nat /\ n < 4294967296
  BY SMT DEF VramSize, ThreadCount

\* What is known of a record's fields.
LEMMA RecordFields ==
    ASSUME CodeWidths, NEW c \in SgpuCaps
    PROVE  /\ c.vendor \in Range(Vendors)
           /\ c.metal_version \in Range(Versions)
           /\ c.vram_bytes \in Nat /\ c.vram_bytes < 18446744073709551616
           /\ c.max_threads_per_threadgroup \in Nat
           /\ c.max_threads_per_threadgroup < 4294967296
           /\ c.has_compute_shaders \in BOOLEAN
           /\ c.software_accelerated \in BOOLEAN
           /\ c = [vendor |-> c.vendor, metal_version |-> c.metal_version,
                   vram_bytes |-> c.vram_bytes,
                   max_threads_per_threadgroup |-> c.max_threads_per_threadgroup,
                   has_compute_shaders |-> c.has_compute_shaders,
                   software_accelerated |-> c.software_accelerated]
<1>1. c \in [vendor : Range(Vendors), metal_version : Range(Versions),
             vram_bytes : VramSize, max_threads_per_threadgroup : ThreadCount,
             has_compute_shaders : BOOLEAN, software_accelerated : BOOLEAN]
    BY Zenon DEF SgpuCaps, Vendors, Versions, CodeWidths
<1>2. c.vram_bytes \in VramSize /\ c.max_threads_per_threadgroup \in ThreadCount
    BY <1>1
<1>3. /\ c.vram_bytes \in Nat /\ c.vram_bytes < 18446744073709551616
      /\ c.max_threads_per_threadgroup \in Nat
      /\ c.max_threads_per_threadgroup < 4294967296
    BY <1>2, Widths, SMT
<1>4. /\ c.vendor \in Range(Vendors)
      /\ c.metal_version \in Range(Versions)
      /\ c.has_compute_shaders \in BOOLEAN
      /\ c.software_accelerated \in BOOLEAN
      /\ c = [vendor |-> c.vendor, metal_version |-> c.metal_version,
              vram_bytes |-> c.vram_bytes,
              max_threads_per_threadgroup |-> c.max_threads_per_threadgroup,
              has_compute_shaders |-> c.has_compute_shaders,
              software_accelerated |-> c.software_accelerated]
    BY <1>1
<1>5. QED
    BY <1>3, <1>4, SMT

\* Messages.
Octets == Seq(0..255)

\* e is s and behind it t.
Joins(e, s, t) ==
    /\ e \in Octets
    /\ Len(e) = Len(s) + Len(t)
    /\ \A i \in 1..Len(s) : e[i] = s[i]
    /\ \A i \in 1..Len(t) : e[Len(s) + i] = t[i]

\* Sequences of bytes are joined so.
LEMMA Beside == \A s, t \in Octets : Joins(s \o t, s, t)
<1> SUFFICES ASSUME NEW s \in Octets, NEW t \in Octets
             PROVE  Joins(s \o t, s, t)
    OBVIOUS
<1>1. /\ s \o t \in Octets
      /\ Len(s \o t) = Len(s) + Len(t)
      /\ \A i \in 1..(Len(s) + Len(t)) :
            (s \o t)[i] = IF i <= Len(s) THEN s[i] ELSE t[i - Len(s)]
    BY ConcatProperties DEF Octets
<1>2. Len(s) \in Nat /\ Len(t) \in Nat
    BY DEF Octets
<1>3. ASSUME NEW i \in 1..Len(s) PROVE (s \o t)[i] = s[i]
    BY <1>1, <1>2
<1>4. ASSUME NEW i \in 1..Len(t) PROVE (s \o t)[Len(s) + i] = t[i]
  <2>1. Len(s) + i \in 1..(Len(s) + Len(t)) /\ ~ (Len(s) + i <= Len(s))
        /\ Len(s) + i - Len(s) = i
      BY <1>2
  <2>2. QED
      BY <1>1, <2>1
<1>5. QED
    BY <1>1, <1>3, <1>4 DEF Joins

\* The bytes of a record, and where they lie.
Row(v, m, x, y, h, a) ==
    <<v>> \o Zeros(3) \o <<m>> \o Zeros(3) \o x \o y
    \o <<h>> \o Zeros(3) \o <<a>> \o Zeros(15)

Lies(e, v, m, x, y, h, a) ==
    /\ e \in Octets /\ Len(e) = 40
    /\ e[1] = v /\ e[5] = m /\ e[21] = h /\ e[25] = a
    /\ \A i \in 1..8 : e[8 + i] = x[i]
    /\ \A i \in 1..4 : e[16 + i] = y[i]

LEMMA Layout ==
    \A v, m, h, a \in 0..255 : \A x, y \in Octets :
        Len(x) = 8 /\ Len(y) = 4 =>
            Lies(Row(v, m, x, y, h, a), v, m, x, y, h, a)
<1> TAKE v, m, h, a \in 0..255
<1> TAKE x, y \in Octets
<1> HAVE Len(x) = 8 /\ Len(y) = 4
<1> DEFINE e == Row(v, m, x, y, h, a)
<1> DEFINE z3 == Zeros(3)
           z15 == Zeros(15)
           e1 == <<v>> \o z3
           e2 == e1 \o <<m>>
           e3 == e2 \o z3
           e4 == e3 \o x
           e5 == e4 \o y
           e6 == e5 \o <<h>>
           e7 == e6 \o z3
           e8 == e7 \o <<a>>
           e9 == e8 \o z15
<1>1. z3 \in Octets /\ Len(z3) = 3 /\ z15 \in Octets /\ Len(z15) = 15
    BY DEF Octets, Zeros
<1>2. \A b \in 0..255 : <<b>> \in Octets /\ Len(<<b>>) = 1 /\ <<b>>[1] = b
    BY DEF Octets
<1>3. e = e9
    BY Zenon DEF Row
<1> HIDE DEF e
<1> HIDE DEF z3, z15
<1>4. /\ e1 \in Octets /\ Len(e1) = 4 /\ e1[1] = v
  <2>1. Joins(e1, <<v>>, z3)
      BY <1>1, <1>2, Beside, Zenon
  <2> HIDE DEF e1
  <2>2. QED
      BY <1>1, <1>2, <2>1 DEF Joins
<1> HIDE DEF e1
<1>5. /\ e2 \in Octets /\ Len(e2) = 5 /\ e2[1] = v /\ e2[5] = m
  <2>1. Joins(e2, e1, <<m>>)
      BY <1>1, <1>2, <1>4, Beside, Zenon
  <2> HIDE DEF e2
  <2>2. QED
      BY <1>1, <1>2, <1>4, <2>1 DEF Joins
<1> HIDE DEF e2
<1>6. /\ e3 \in Octets /\ Len(e3) = 8 /\ e3[1] = v /\ e3[5] = m
  <2>1. Joins(e3, e2, z3)
      BY <1>1, <1>2, <1>5, Beside, Zenon
  <2> HIDE DEF e3
  <2>2. QED
      BY <1>1, <1>2, <1>5, <2>1 DEF Joins
<1> HIDE DEF e3
<1>7. /\ e4 \in Octets /\ Len(e4) = 16 /\ e4[1] = v /\ e4[5] = m
      /\ \A i \in 1..8 : e4[8 + i] = x[i]
  <2>1. Joins(e4, e3, x)
      BY <1>1, <1>2, <1>6, Beside, Zenon
  <2> HIDE DEF e4
  <2>2. QED
      BY <1>1, <1>2, <1>6, <2>1 DEF Joins
<1> HIDE DEF e4
<1>8. /\ e5 \in Octets /\ Len(e5) = 20
      /\ \A i \in 1..16 : e5[i] = e4[i]
      /\ \A i \in 1..4 : e5[16 + i] = y[i]
  <2>1. Joins(e5, e4, y)
      BY <1>1, <1>2, <1>7, Beside, Zenon
  <2> HIDE DEF e5
  <2>2. QED
      BY <1>1, <1>2, <1>7, <2>1 DEF Joins
<1> HIDE DEF e5
<1>9. /\ e6 \in Octets /\ Len(e6) = 21 /\ e6[21] = h
      /\ \A i \in 1..20 : e6[i] = e5[i]
  <2>1. Joins(e6, e5, <<h>>)
      BY <1>1, <1>2, <1>8, Beside, Zenon
  <2> HIDE DEF e6
  <2>2. QED
      BY <1>1, <1>2, <1>8, <2>1 DEF Joins
<1> HIDE DEF e6
<1>10. /\ e7 \in Octets /\ Len(e7) = 24
      /\ \A i \in 1..21 : e7[i] = e6[i]
  <2>1. Joins(e7, e6, z3)
      BY <1>1, <1>2, <1>9, Beside, Zenon
  <2> HIDE DEF e7
  <2>2. QED
      BY <1>1, <1>2, <1>9, <2>1 DEF Joins
<1> HIDE DEF e7
<1>11. /\ e8 \in Octets /\ Len(e8) = 25 /\ e8[25] = a
      /\ \A i \in 1..24 : e8[i] = e7[i]
  <2>1. Joins(e8, e7, <<a>>)
      BY <1>1, <1>2, <1>10, Beside, Zenon
  <2> HIDE DEF e8
  <2>2. QED
      BY <1>1, <1>2, <1>10, <2>1 DEF Joins
<1> HIDE DEF e8
<1>12. /\ e9 \in Octets /\ Len(e9) = 40
      /\ \A i \in 1..25 : e9[i] = e8[i]
  <2>1. Joins(e9, e8, z15)
      BY <1>1, <1>2, <1>11, Beside, Zenon
  <2> HIDE DEF e9
  <2>2. QED
      BY <1>1, <1>2, <1>11, <2>1 DEF Joins
<1> HIDE DEF e9
<1>13. ASSUME NEW i \in 1..16 PROVE e9[i] = e4[i]
  <2>1. i \in 1..20 /\ i \in 1..21 /\ i \in 1..24 /\ i \in 1..25
      OBVIOUS
  <2>2. e9[i] = e8[i] /\ e8[i] = e7[i] /\ e7[i] = e6[i] /\ e6[i] = e5[i]
      BY <1>9, <1>10, <1>11, <1>12, <2>1, Zenon
  <2>3. QED
      BY <1>8, <2>2
<1>14. ASSUME NEW i \in 1..4 PROVE e9[16 + i] = y[i]
  <2> DEFINE j == 16 + i
  <2>1. j \in 1..20 /\ j \in 1..21 /\ j \in 1..24 /\ j \in 1..25
      OBVIOUS
  <2>2. e5[j] = y[i]
      BY <1>8
  <2> HIDE DEF j
  <2>3. e9[j] = e8[j] /\ e8[j] = e7[j] /\ e7[j] = e6[j] /\ e6[j] = e5[j]
      BY <1>9, <1>10, <1>11, <1>12, <2>1, Zenon
  <2>4. QED
      BY <2>2, <2>3 DEF j
<1>15. e9[21] = h /\ e9[25] = a
    BY <1>9, <1>10, <1>11, <1>12
<1>16. \A i \in 1..8 : e9[8 + i] = x[i]
  <2>1. \A i \in 1..8 : 8 + i \in 1..16
      OBVIOUS
  <2>2. QED
      BY <1>7, <1>13, <2>1
<1>17. e9[1] = v /\ e9[5] = m
    BY <1>7, <1>13
<1>18. QED
    BY <1>3, <1>12, <1>14, <1>15, <1>16, <1>17 DEF Lies, e

\* A part of a message by its bytes.
LEMMA Slices ==
    ASSUME NEW w \in Octets, NEW m \in Nat, NEW k \in Nat, m + k <= Len(w)
    PROVE  /\ SubSeq(w, m + 1, m + k) \in Octets
           /\ SubSeq(w, m + 1, m + k) = [i \in 1..k |-> w[m + i]]
<1>1. Len(w) \in Nat /\ \A i \in 1..Len(w) : w[i] \in 0..255
    BY ElementOfSeq DEF Octets
<1>2. SubSeq(w, m + 1, m + k) = [i \in 1..k |-> w[m + i]]
  <2>1. SubSeq(w, m + 1, m + k) = [i \in 1..((m + k) - (m + 1) + 1) |-> w[i + (m + 1) - 1]]
      BY DEF Octets
  <2>2. QED
      BY <2>1
<1>3. [i \in 1..k |-> w[m + i]] \in Octets
  <2>1. \A i \in 1..k : m + i \in 1..Len(w)
      BY <1>1
  <2>2. \A i \in 1..k : w[m + i] \in 0..255
      BY <1>1, <2>1
  <2>3. QED
      BY <2>2 DEF Octets
<1>4. QED
    BY <1>2, <1>3

\* The bytes decode reads two numbers of.
LEMMA NumberSlices ==
    ASSUME NEW w \in Octets, Len(w) >= 40
    PROVE  /\ SubSeq(w, 9, 16) \in Octets
           /\ SubSeq(w, 9, 16) = [i \in 1..8 |-> w[8 + i]]
           /\ SubSeq(w, 17, 20) \in Octets
           /\ SubSeq(w, 17, 20) = [i \in 1..4 |-> w[16 + i]]
<1>1. Len(w) \in Nat
    BY DEF Octets
<1>2. /\ SubSeq(w, 8 + 1, 8 + 8) \in Octets
      /\ SubSeq(w, 8 + 1, 8 + 8) = [i \in 1..8 |-> w[8 + i]]
  <2>1. 8 \in Nat /\ 8 + 8 <= Len(w)
      BY <1>1
  <2>2. QED
      BY <2>1, Slices
<1>3. /\ SubSeq(w, 16 + 1, 16 + 4) \in Octets
      /\ SubSeq(w, 16 + 1, 16 + 4) = [i \in 1..4 |-> w[16 + i]]
  <2>1. 16 \in Nat /\ 4 \in Nat /\ 16 + 4 <= Len(w)
      BY <1>1
  <2>2. QED
      BY <2>1, Slices
<1>4. 8 + 1 = 9 /\ 8 + 8 = 16 /\ 16 + 1 = 17 /\ 16 + 4 = 20
    OBVIOUS
<1>5. QED
    BY <1>2, <1>3, <1>4

\* What decode makes of each field.
LEMMA Decoded ==
    ASSUME NEW w
    PROVE  LET d == DecodeCaps(w) IN
           /\ d.vendor = Named(Vendors, w[1])
           /\ d.metal_version = Named(Versions, w[5])
           /\ d.vram_bytes = Number(SubSeq(w, 9, 16))
           /\ d.max_threads_per_threadgroup = Number(SubSeq(w, 17, 20))
           /\ d.has_compute_shaders = (w[21] # 0)
           /\ d.software_accelerated = (w[25] # 0)
  BY DEF DecodeCaps, Vendors, Versions

\* Each field is read of bytes of its own.
LEMMA SameField ==
    ASSUME NEW w \in Octets, Len(w) >= 40, NEW u \in Octets, Len(u) >= 40
    PROVE  LET d == DecodeCaps(w)
               r == DecodeCaps(u)
           IN  /\ w[1] = u[1] => d.vendor = r.vendor
               /\ w[5] = u[5] => d.metal_version = r.metal_version
               /\ (\A i \in 9..16 : w[i] = u[i]) => d.vram_bytes = r.vram_bytes
               /\ (\A i \in 17..20 : w[i] = u[i]) =>
                     d.max_threads_per_threadgroup = r.max_threads_per_threadgroup
               /\ w[21] = u[21] => d.has_compute_shaders = r.has_compute_shaders
               /\ w[25] = u[25] => d.software_accelerated = r.software_accelerated
<1>1. ASSUME \A i \in 9..16 : w[i] = u[i]
      PROVE  SubSeq(w, 9, 16) = SubSeq(u, 9, 16)
  <2>1. \A i \in 1..8 : 8 + i \in 9..16
      OBVIOUS
  <2>2. [i \in 1..8 |-> w[8 + i]] = [i \in 1..8 |-> u[8 + i]]
      BY <1>1, <2>1
  <2>3. QED
      BY <2>2, NumberSlices
<1>2. ASSUME \A i \in 17..20 : w[i] = u[i]
      PROVE  SubSeq(w, 17, 20) = SubSeq(u, 17, 20)
  <2>1. \A i \in 1..4 : 16 + i \in 17..20
      OBVIOUS
  <2>2. [i \in 1..4 |-> w[16 + i]] = [i \in 1..4 |-> u[16 + i]]
      BY <1>2, <2>1
  <2>3. QED
      BY <2>2, NumberSlices
<1> DEFINE d == DecodeCaps(w)
           r == DecodeCaps(u)
<1>3. /\ d.vendor = Named(Vendors, w[1])
      /\ d.metal_version = Named(Versions, w[5])
      /\ d.vram_bytes = Number(SubSeq(w, 9, 16))
      /\ d.max_threads_per_threadgroup = Number(SubSeq(w, 17, 20))
      /\ d.has_compute_shaders = (w[21] # 0)
      /\ d.software_accelerated = (w[25] # 0)
    BY Decoded
<1>4. /\ r.vendor = Named(Vendors, u[1])
      /\ r.metal_version = Named(Versions, u[5])
      /\ r.vram_bytes = Number(SubSeq(u, 9, 16))
      /\ r.max_threads_per_threadgroup = Number(SubSeq(u, 17, 20))
      /\ r.has_compute_shaders = (u[21] # 0)
      /\ r.software_accelerated = (u[25] # 0)
    BY Decoded
<1> HIDE DEF d, r
<1>5. /\ w[1] = u[1] => d.vendor = r.vendor
      /\ w[5] = u[5] => d.metal_version = r.metal_version
      /\ w[21] = u[21] => d.has_compute_shaders = r.has_compute_shaders
      /\ w[25] = u[25] => d.software_accelerated = r.software_accelerated
    BY <1>3, <1>4
<1>6. /\ (\A i \in 9..16 : w[i] = u[i]) => d.vram_bytes = r.vram_bytes
      /\ (\A i \in 17..20 : w[i] = u[i]) =>
            d.max_threads_per_threadgroup = r.max_threads_per_threadgroup
    BY <1>1, <1>2, <1>3, <1>4
<1>7. QED
    BY <1>5, <1>6, Zenon DEF d, r

\* Whatever the bytes are, what is read is a record.
LEMMA DecodeTyped ==
    ASSUME CodeWidths, NEW w \in Octets, Len(w) >= 40
    PROVE  DecodeCaps(w) \in SgpuCaps
<1>1. \A i \in {1, 5} : w[i] \in 0..255
  <2>1. \A i \in 1..Len(w) : w[i] \in 0..255
      BY ElementOfSeq DEF Octets
  <2>2. Len(w) \in Nat
      BY DEF Octets
  <2>3. QED
      BY <2>1, <2>2
<1>2. /\ Named(Vendors, w[1]) \in Range(Vendors)
      /\ Named(Versions, w[5]) \in Range(Versions)
    BY <1>1, FourNames, Discriminants
<1>3. /\ SubSeq(w, 9, 16) \in Seq(0..255) /\ Len(SubSeq(w, 9, 16)) = 8
      /\ SubSeq(w, 17, 20) \in Seq(0..255) /\ Len(SubSeq(w, 17, 20)) = 4
    BY NumberSlices DEF Octets
<1>4. /\ Number(SubSeq(w, 9, 16)) \in VramSize
      /\ Number(SubSeq(w, 17, 20)) \in ThreadCount
  <2> DEFINE s == SubSeq(w, 9, 16)
             t == SubSeq(w, 17, 20)
  <2> HIDE DEF s, t
  <2>1. /\ s \in Seq(0..255) /\ Len(s) = 8
        /\ t \in Seq(0..255) /\ Len(t) = 4
      BY <1>3 DEF s, t
  <2>2. Number(s) \in Nat /\ Number(s) < 18446744073709551616
      BY <2>1, NumberFits, SMT
  <2>3. Number(t) \in Nat /\ Number(t) < 4294967296
      BY <2>1, NumberFits, SMT
  <2>4. Number(s) \in VramSize /\ Number(t) \in ThreadCount
      BY <2>2, <2>3, Widths, SMT
  <2>5. QED
      BY <2>4 DEF s, t
<1>5. (w[21] # 0) \in BOOLEAN /\ (w[25] # 0) \in BOOLEAN
    OBVIOUS
<1>6. DecodeCaps(w) =
        [vendor |-> Named(Vendors, w[1]),
         metal_version |-> Named(Versions, w[5]),
         vram_bytes |-> Number(SubSeq(w, 9, 16)),
         max_threads_per_threadgroup |-> Number(SubSeq(w, 17, 20)),
         has_compute_shaders |-> w[21] # 0,
         software_accelerated |-> w[25] # 0]
    BY Zenon DEF DecodeCaps, Vendors, Versions
<1>7. SgpuCaps =
        [vendor : Range(Vendors), metal_version : Range(Versions),
         vram_bytes : VramSize, max_threads_per_threadgroup : ThreadCount,
         has_compute_shaders : BOOLEAN, software_accelerated : BOOLEAN]
    BY Zenon DEF SgpuCaps, Vendors, Versions, CodeWidths
<1>8. QED
    BY <1>2, <1>4, <1>5, <1>6, <1>7

\* Where the bytes of a record lie.
LEMMA Encoded ==
    ASSUME CodeWidths, NEW c \in SgpuCaps
    PROVE  LET e == EncodeCaps(c) IN
           /\ e \in Octets /\ Len(e) = 40
           /\ e[1] = Discriminant(Vendors, c.vendor)
           /\ e[5] = Discriminant(Versions, c.metal_version)
           /\ SubSeq(e, 9, 16) = LittleEndian(c.vram_bytes, 8)
           /\ SubSeq(e, 17, 20) =
                 LittleEndian(c.max_threads_per_threadgroup, 4)
           /\ e[21] = Flag(c.has_compute_shaders)
           /\ e[25] = Flag(c.software_accelerated)
<1> DEFINE e == EncodeCaps(c)
           v == Discriminant(Vendors, c.vendor)
           m == Discriminant(Versions, c.metal_version)
           x == LittleEndian(c.vram_bytes, 8)
           y == LittleEndian(c.max_threads_per_threadgroup, 4)
           h == Flag(c.has_compute_shaders)
           a == Flag(c.software_accelerated)
<1>1. e = Row(v, m, x, y, h, a)
    BY Zenon DEF EncodeCaps, Row, Vendors, Versions
<1>2. v \in 0..255 /\ m \in 0..255
    BY RecordFields, FourNames, Discriminants
<1>3. h \in 0..255 /\ a \in 0..255
    BY DEF Flag
<1>4. /\ x \in Octets /\ Len(x) = 8 /\ x = [i \in 1..8 |-> x[i]]
      /\ y \in Octets /\ Len(y) = 4 /\ y = [i \in 1..4 |-> y[i]]
  <2>1. /\ x \in Octets /\ Len(x) = 8
        /\ y \in Octets /\ Len(y) = 4
      BY RecordFields, FieldsReadBack, SMT DEF Octets
  <2> HIDE DEF x, y
  <2>2. QED
      BY <2>1 DEF Octets
<1> HIDE DEF e, v, m, x, y, h, a
<1>5. /\ e \in Octets /\ Len(e) = 40
      /\ e[1] = v /\ e[5] = m /\ e[21] = h /\ e[25] = a
      /\ \A i \in 1..8 : e[8 + i] = x[i]
      /\ \A i \in 1..4 : e[16 + i] = y[i]
  <2>1. Lies(e, v, m, x, y, h, a)
      BY <1>1, <1>2, <1>3, <1>4, Layout, Zenon
  <2>2. QED
      BY <2>1, Zenon DEF Lies
<1>6. /\ SubSeq(e, 9, 16) = [i \in 1..8 |-> e[8 + i]]
      /\ SubSeq(e, 17, 20) = [i \in 1..4 |-> e[16 + i]]
  <2>1. Len(e) >= 40
      BY <1>5
  <2>2. QED
      BY <1>5, <2>1, NumberSlices
<1>7. SubSeq(e, 9, 16) = x /\ SubSeq(e, 17, 20) = y
    BY <1>4, <1>5, <1>6
<1>8. QED
    BY <1>5, <1>7, Zenon DEF e, v, m, x, y, h, a

\* What is read of a record's bytes is the record.
LEMMA ReadsBack ==
    ASSUME CodeWidths, NEW c \in SgpuCaps
    PROVE  DecodeCaps(EncodeCaps(c)) = c
<1> DEFINE e == EncodeCaps(c)
           d == DecodeCaps(e)
<1> DEFINE x == LittleEndian(c.vram_bytes, 8)
           y == LittleEndian(c.max_threads_per_threadgroup, 4)
<1>0. /\ e \in Octets /\ Len(e) = 40
      /\ SubSeq(e, 9, 16) = x
      /\ SubSeq(e, 17, 20) = y
    BY Encoded, Zenon
<1>1. e \in Octets /\ Len(e) >= 40
  <2> HIDE DEF e
  <2>1. QED
      BY <1>0
<1>2. d.vendor = c.vendor /\ d.metal_version = c.metal_version
    BY Encoded, Decoded, FourNames, Discriminants, RecordFields
<1>3. /\ d.vram_bytes = c.vram_bytes
      /\ d.max_threads_per_threadgroup = c.max_threads_per_threadgroup
  <2>1. d.vram_bytes = Number(x) /\ d.max_threads_per_threadgroup = Number(y)
      BY <1>0, Decoded, Zenon
  <2>2. Number(x) = c.vram_bytes
      BY RecordFields, FieldsReadBack, SMT
  <2>3. Number(y) = c.max_threads_per_threadgroup
      BY RecordFields, FieldsReadBack, SMT
  <2>4. QED
      BY <2>1, <2>2, <2>3, Zenon
<1>4. /\ d.has_compute_shaders = c.has_compute_shaders
      /\ d.software_accelerated = c.software_accelerated
  <2>1. \A b \in BOOLEAN : (Flag(b) # 0) = b
      BY DEF Flag
  <2>2. QED
      BY <2>1, Encoded, Decoded, RecordFields
<1>5. d \in SgpuCaps
    BY <1>1, DecodeTyped
<1> HIDE DEF d
<1>6. d = c
  <2>1. /\ d = [vendor |-> d.vendor, metal_version |-> d.metal_version,
                vram_bytes |-> d.vram_bytes,
                max_threads_per_threadgroup |-> d.max_threads_per_threadgroup,
                has_compute_shaders |-> d.has_compute_shaders,
                software_accelerated |-> d.software_accelerated]
        /\ c = [vendor |-> c.vendor, metal_version |-> c.metal_version,
                vram_bytes |-> c.vram_bytes,
                max_threads_per_threadgroup |-> c.max_threads_per_threadgroup,
                has_compute_shaders |-> c.has_compute_shaders,
                software_accelerated |-> c.software_accelerated]
      BY <1>5, RecordFields, SMT
  <2>2. QED
      BY <1>2, <1>3, <1>4, <2>1, Zenon
<1>7. QED
    BY <1>6 DEF d

\* Whatever happens to a message on its way, it is bytes.
CapsInv == record \in SgpuCaps /\ bytes \in Octets

\* What is left of a message that is cut.
LEMMA Cuts ==
    ASSUME NEW e \in Octets, Len(e) = 40, NEW n \in 0..39
    PROVE  SubSeq(e, 1, n) \in Octets
<1>1. /\ 0 \in Nat /\ n \in Nat /\ 0 + n <= Len(e)
      /\ 0 + 1 = 1 /\ 0 + n = n
    OBVIOUS
<1>2. SubSeq(e, 0 + 1, 0 + n) \in Octets
    BY <1>1, Slices, Zenon
<1>3. QED
    BY <1>1, <1>2, Zenon

\* What the transport and another version make of the bytes.
LEMMA Damage ==
    ASSUME NEW e \in Octets, Len(e) = 40, NEW b \in 0..255
    PROVE  /\ \A i \in 1..40 : [e EXCEPT ![i] = b] \in Octets
           /\ Append(e, b) \in Octets
<1>1. \A i \in 1..40 : [e EXCEPT ![i] = b] \in Octets
  <2>1. e \in [1..40 -> 0..255]
    <3>1. \A j \in 1..40 : e[j] \in 0..255
        BY ElementOfSeq DEF Octets
    <3>2. e = [j \in 1..40 |-> e[j]]
        BY DEF Octets
    <3>3. QED
        BY <3>1, <3>2
  <2>2. \A i \in 1..40 : [e EXCEPT ![i] = b] \in [1..40 -> 0..255]
      BY <2>1
  <2>3. \A k \in Nat : \A s \in [1..k -> 0..255] : s \in Octets
      BY DEF Octets
  <2>4. 40 \in Nat
      OBVIOUS
  <2>5. QED
      BY <2>2, <2>3, <2>4, Zenon
<1>2. Append(e, b) \in Octets
    BY DEF Octets
<1>3. QED
    BY <1>1, <1>2

\* The session writes every byte of its record.
LEMMA CapsInvInit ==
    ASSUME CodeWidths
    PROVE  CapsInit => CapsInv
<1> SUFFICES ASSUME CapsInit PROVE CapsInv
    OBVIOUS
<1>1. PICK spec \in SgpuCaps : record = QueryCaps(spec)
    BY Zenon DEF CapsInit
<1>2. record \in SgpuCaps
  <2> DEFINE V == Range(Vendors)
             M == Range(Versions)
  <2>1. SgpuCaps =
          [vendor : V, metal_version : M,
           vram_bytes : VramSize, max_threads_per_threadgroup : ThreadCount,
           has_compute_shaders : BOOLEAN, software_accelerated : BOOLEAN]
      BY Zenon DEF SgpuCaps, Vendors, Versions, CodeWidths
  <2>2. record = [spec EXCEPT !.has_compute_shaders = FALSE]
      BY <1>1, Zenon DEF QueryCaps
  <2> HIDE DEF V, M
  <2>3. QED
      BY <2>1, <2>2
<1>3. bytes = EncodeCaps(record)
    BY Zenon DEF CapsInit
<1>4. bytes \in Octets
    BY <1>2, <1>3, Encoded, Zenon
<1>5. QED
    BY <1>2, <1>4, Zenon DEF CapsInv

\* A message is damaged once: a byte changed, the end cut off, or more behind it.
LEMMA CapsInvStep ==
    ASSUME CodeWidths
    PROVE  CapsInv /\ [CapsNext]_capsVars => CapsInv'
<1> SUFFICES ASSUME CapsInv, [CapsNext]_capsVars PROVE CapsInv'
    OBVIOUS
<1>1. CASE UNCHANGED capsVars
    BY <1>1, Zenon DEF CapsInv, capsVars
<1>2. CASE CapsNext
  <2> DEFINE e == EncodeCaps(record)
  <2>1. /\ bytes = e /\ record' = record
        /\ Change \/ Cut \/ Lengthen
      BY <1>2, Zenon DEF CapsNext, Undamaged
  <2>2. record \in SgpuCaps /\ e \in Octets /\ Len(e) = 40
      BY Encoded, Zenon DEF CapsInv
  <2> HIDE DEF e
  <2>3. ASSUME bytes' \in Octets PROVE CapsInv'
      BY <2>1, <2>2, <2>3, Zenon DEF CapsInv
  <2>4. \A b \in Bytes : b \in 0..255
      BY DEF Bytes, CodeWidths
  <2>5. CASE Change
    <3>1. PICK i \in 1..40, b \in Bytes : bytes' = [e EXCEPT ![i] = b]
        BY <2>1, <2>5, Zenon DEF Change
    <3>2. QED
        BY <2>2, <2>3, <2>4, <3>1, Damage, Zenon
  <2>6. CASE Cut
    <3>1. PICK n \in 0..39 : bytes' = SubSeq(e, 1, n)
        BY <2>1, <2>6, Zenon DEF Cut
    <3>2. QED
        BY <2>2, <2>3, <3>1, Cuts, Zenon
  <2>7. CASE Lengthen
    <3>1. PICK b \in Bytes : bytes' = Append(e, b)
        BY <2>1, <2>7, Zenon DEF Lengthen
    <3>2. QED
        BY <2>2, <2>3, <2>4, <3>1, Damage, Zenon
  <2>8. QED
      BY <2>1, <2>5, <2>6, <2>7
<1>3. QED
    BY <1>1, <1>2

\* Which is enough: a field is read of its own bytes, however many of the
\* others differ.
LEMMA CapsApart ==
    ASSUME CodeWidths
    PROVE  CapsInv => FieldsApart
<1> SUFFICES ASSUME CapsInv, ~ Short(bytes)
             PROVE  LET read == DecodeCaps(bytes)
                        written == EncodeCaps(record)
                    IN  /\ \A field \in DOMAIN record :
                              (\A i \in Place[field] : bytes[i] = written[i]) =>
                                  read[field] = record[field]
                        /\ DecodeCaps(EncodeCaps(read)) = read
    BY Zenon DEF FieldsApart
<1> DEFINE read == DecodeCaps(bytes)
           written == EncodeCaps(record)
<1>1. record \in SgpuCaps /\ bytes \in Octets
    BY Zenon DEF CapsInv
<1>2. Len(bytes) >= 40
    BY <1>1 DEF Short, Octets
<1>3. read \in SgpuCaps
    BY <1>1, <1>2, DecodeTyped
<1>4. DecodeCaps(EncodeCaps(read)) = read
    BY <1>3, ReadsBack, Zenon
<1>5. written \in Octets /\ Len(written) = 40 /\ DecodeCaps(written) = record
    BY <1>1, Encoded, ReadsBack, Zenon
<1> HIDE DEF written
<1>6. /\ bytes[1] = written[1] => read.vendor = record.vendor
      /\ bytes[5] = written[5] => read.metal_version = record.metal_version
      /\ (\A i \in 9..16 : bytes[i] = written[i]) =>
            read.vram_bytes = record.vram_bytes
      /\ (\A i \in 17..20 : bytes[i] = written[i]) =>
            read.max_threads_per_threadgroup = record.max_threads_per_threadgroup
      /\ bytes[21] = written[21] =>
            read.has_compute_shaders = record.has_compute_shaders
      /\ bytes[25] = written[25] =>
            read.software_accelerated = record.software_accelerated
  <2>1. Len(written) >= 40
      BY <1>5
  <2>2. QED
      BY <1>1, <1>2, <1>5, <2>1, SameField, Zenon
<1> HIDE DEF read
<1>7. ASSUME NEW field \in DOMAIN record,
             \A i \in Place[field] : bytes[i] = written[i]
      PROVE  read[field] = record[field]
  <2>1. field \in {"vendor", "metal_version", "vram_bytes",
                   "max_threads_per_threadgroup", "has_compute_shaders",
                   "software_accelerated"}
      BY <1>1, RecordFields, SMT
  <2>2. QED
      BY <1>6, <1>7, <2>1 DEF Place
<1>8. QED
    BY <1>4, <1>7, Zenon DEF read, written

\* QUERY_CAPS answers with a record each field of which is read of bytes of its
\* own: the peer reads a field as it was written if those bytes arrived, whatever
\* became of the others; and what was read is written and read again as the
\* same record.
THEOREM CapsApartAlways ==
    ASSUME CodeWidths
    PROVE  CapsSpec => []FieldsApart
<1>1. CapsInit => CapsInv
    BY CapsInvInit
<1>2. CapsInv /\ [CapsNext]_capsVars => CapsInv'
    BY CapsInvStep
<1>3. CapsInv => FieldsApart
    BY CapsApart
<1>4. QED
    BY <1>1, <1>2, <1>3, PTL DEF CapsSpec
-----------------------------------------------------------------------------
(* The guest launch plan. A plan is encoded as six parts, one behind the   *)
(* other; decode finds each part where the one before it ends. Both ways   *)
(* are stated by what a buffer holds at a position, so that the loops over *)
(* pairs and devices need one argument: what holds of k items holds of one *)
(* more.                                                                   *)

\* Sequences of cells.
Run == Seq(Nat)

\* The cells e follow position p of b.
Holds(b, p, e) ==
    /\ p + Len(e) <= Len(b)
    /\ \A i \in 1..Len(e) : b[p + i] = e[i]

\* Sequences of cells are joined, and found in a buffer, one behind the other.
LEMMA Joined ==
    \A s, t \in Run :
        /\ s \o t \in Run
        /\ Len(s \o t) = Len(s) + Len(t)
        /\ \A i \in 1..Len(s) : (s \o t)[i] = s[i]
        /\ \A i \in 1..Len(t) : (s \o t)[Len(s) + i] = t[i]
<1> SUFFICES ASSUME NEW s \in Run, NEW t \in Run
             PROVE  /\ s \o t \in Run
                    /\ Len(s \o t) = Len(s) + Len(t)
                    /\ \A i \in 1..Len(s) : (s \o t)[i] = s[i]
                    /\ \A i \in 1..Len(t) : (s \o t)[Len(s) + i] = t[i]
    OBVIOUS
<1>1. /\ s \o t \in Run
      /\ Len(s \o t) = Len(s) + Len(t)
      /\ \A i \in 1..(Len(s) + Len(t)) :
            (s \o t)[i] = IF i <= Len(s) THEN s[i] ELSE t[i - Len(s)]
    BY ConcatProperties DEF Run
<1>2. Len(s) \in Nat /\ Len(t) \in Nat
    BY DEF Run
<1>3. ASSUME NEW i \in 1..Len(s) PROVE (s \o t)[i] = s[i]
    BY <1>1, <1>2
<1>4. ASSUME NEW i \in 1..Len(t) PROVE (s \o t)[Len(s) + i] = t[i]
  <2>1. Len(s) + i \in 1..(Len(s) + Len(t)) /\ ~ (Len(s) + i <= Len(s))
        /\ Len(s) + i - Len(s) = i
      BY <1>2
  <2>2. QED
      BY <1>1, <2>1
<1>5. QED
    BY <1>1, <1>3, <1>4

\* Two runs joined are held where the first is held with the second behind it.
LEMMA HoldsBoth ==
    \A b, s, t \in Run, p \in Nat :
        Holds(b, p, s \o t) <=> Holds(b, p, s) /\ Holds(b, p + Len(s), t)
<1> SUFFICES ASSUME NEW b \in Run, NEW s \in Run, NEW t \in Run, NEW p \in Nat
             PROVE  Holds(b, p, s \o t) <=>
                       Holds(b, p, s) /\ Holds(b, p + Len(s), t)
    OBVIOUS
<1> DEFINE e == s \o t
<1>1. /\ Len(e) = Len(s) + Len(t)
      /\ \A i \in 1..Len(s) : e[i] = s[i]
      /\ \A i \in 1..Len(t) : e[Len(s) + i] = t[i]
    BY Joined
<1>2. Len(s) \in Nat /\ Len(t) \in Nat /\ Len(b) \in Nat
    BY DEF Run
<1> HIDE DEF e
<1>3. ASSUME Holds(b, p, e) PROVE Holds(b, p, s) /\ Holds(b, p + Len(s), t)
  <2>1. p + Len(s) + Len(t) <= Len(b) /\ \A i \in 1..(Len(s) + Len(t)) : b[p + i] = e[i]
      BY <1>1, <1>2, <1>3 DEF Holds
  <2>2. \A i \in 1..Len(s) : b[p + i] = s[i]
    <3>1. \A i \in 1..Len(s) : i \in 1..(Len(s) + Len(t))
        BY <1>2
    <3>2. QED
        BY <1>1, <2>1, <3>1
  <2>3. ASSUME NEW i \in 1..Len(t) PROVE b[p + Len(s) + i] = t[i]
    <3>1. Len(s) + i \in 1..(Len(s) + Len(t)) /\ p + (Len(s) + i) = p + Len(s) + i
        BY <1>2
    <3>2. QED
        BY <1>1, <2>1, <3>1
  <2>4. p + Len(s) <= Len(b)
      BY <1>2, <2>1
  <2>5. QED
      BY <2>1, <2>2, <2>3, <2>4 DEF Holds
<1>4. ASSUME Holds(b, p, s), Holds(b, p + Len(s), t) PROVE Holds(b, p, e)
  <2>1. p + Len(e) <= Len(b)
      BY <1>1, <1>2, <1>4 DEF Holds
  <2>2. ASSUME NEW i \in 1..Len(e) PROVE b[p + i] = e[i]
    <3>1. CASE i <= Len(s)
      <4>1. i \in 1..Len(s)
          BY <1>1, <1>2, <3>1
      <4>2. QED
          BY <1>1, <1>4, <4>1 DEF Holds
    <3>2. CASE ~ (i <= Len(s))
      <4> DEFINE j == i - Len(s)
      <4>1. j \in 1..Len(t) /\ Len(s) + j = i /\ p + Len(s) + j = p + i
          BY <1>1, <1>2, <3>2
      <4> HIDE DEF j
      <4>2. b[p + Len(s) + j] = t[j] /\ e[Len(s) + j] = t[j]
          BY <1>1, <1>4, <4>1 DEF Holds
      <4>3. QED
          BY <4>1, <4>2
    <3>3. QED
        BY <3>1, <3>2
  <2>3. QED
      BY <2>1, <2>2 DEF Holds
<1>5. QED
    BY <1>3, <1>4 DEF e

\* A buffer that holds nothing else is the cells themselves.
LEMMA HoldsAll ==
    \A b, e \in Run : Holds(b, 0, e) /\ Len(b) = Len(e) => b = e
<1> SUFFICES ASSUME NEW b \in Run, NEW e \in Run, Holds(b, 0, e), Len(b) = Len(e)
             PROVE  b = e
    OBVIOUS
<1>1. \A i \in 1..Len(e) : b[i] = e[i]
  <2>1. \A i \in 1..Len(e) : 0 + i = i
      BY DEF Run
  <2>2. QED
      BY <2>1 DEF Holds
<1>2. QED
    BY <1>1 DEF Run

\* A buffer holds itself.
LEMMA HoldsItself == \A e \in Run : Holds(e, 0, e)
<1> SUFFICES ASSUME NEW e \in Run PROVE Holds(e, 0, e)
    OBVIOUS
<1>1. \A i \in 1..Len(e) : 0 + i = i
    BY DEF Run
<1>2. QED
    BY <1>1 DEF Run, Holds

\* What the function of FlattenSeq is at each element.
Chain(f, seqs) ==
    /\ f[0] = <<>>
    /\ \A i \in 1..Len(seqs) : f[i] = f[i - 1] \o seqs[i]
    /\ \A i \in 0..Len(seqs) : f[i] \in Run

IsFlat(h, seqs) ==
    h = [i \in 1..Len(seqs) |-> IF i = 1 THEN seqs[i] ELSE h[i - 1] \o seqs[i]]

\* The empty run is a run, and nothing in front of another.
LEMMA EmptyFirst == <<>> \in Run /\ \A s \in Run : <<>> \o s = s
  BY DEF Run

\* Every sequence of runs has the function of what its beginnings flatten to.
LEMMA Chains ==
    \A seqs \in Seq(Run) : \E f : Chain(f, seqs)
<1> SUFFICES ASSUME NEW seqs \in Seq(Run) PROVE \E f : Chain(f, seqs)
    OBVIOUS
<1> DEFINE k == Len(seqs)
           Item(i) == IF i \in 1..k THEN seqs[i] ELSE <<>>
           F == [q \in Nat \X Run |-> q[2] \o Item(q[1])]
<1>1. k \in Nat /\ <<>> \in Run
    BY EmptyFirst
<1>2. \A i \in 1..k : seqs[i] \in Run
    BY ElementOfSeq
<1>3. \A i \in Nat : Item(i) \in Run
    BY <1>1, <1>2
<1>4. \A i \in 1..k : Item(i) = seqs[i]
    OBVIOUS
<1> HIDE DEF k, Item
<1>5. F \in [Nat \X Run -> Run]
  <2>1. ASSUME NEW q \in Nat \X Run PROVE q[2] \o Item(q[1]) \in Run
    <3>1. q[1] \in Nat /\ q[2] \in Run
        OBVIOUS
    <3>2. Item(q[1]) \in Run
        BY <1>3, <3>1
    <3>3. QED
        BY <3>1, <3>2, Joined
  <2>2. QED
      BY <2>1
<1>6. \A i \in Nat, s \in Run : F[<<i, s>>] = s \o Item(i)
    OBVIOUS
<1> HIDE DEF F
<1>7. PICK f : Follows(f, Run, <<>>, F, k)
    BY <1>1, <1>5, Recursion
<1>8. ASSUME NEW i \in 1..k PROVE f[i] = f[i - 1] \o seqs[i]
  <2>1. i \in Nat /\ i - 1 \in 0..k
      BY <1>1
  <2>2. f[i - 1] \in Run
      BY <1>7, <2>1 DEF Follows
  <2>3. f[i] = F[<<i, f[i - 1]>>]
      BY <1>7 DEF Follows
  <2>4. QED
      BY <1>4, <1>6, <2>1, <2>2, <2>3
<1>9. Chain(f, seqs)
    BY <1>7, <1>8 DEF Chain, Follows, k
<1>10. QED
    BY <1>9

\* FlattenSeq, defined by CHOOSE, ends where that function does.
LEMMA FlatChain ==
    \A seqs \in Seq(Run) : \A f : Chain(f, seqs) =>
        FlattenSeq(seqs) = f[Len(seqs)]
<1> SUFFICES ASSUME NEW seqs \in Seq(Run), NEW f, Chain(f, seqs)
             PROVE  FlattenSeq(seqs) = f[Len(seqs)]
    OBVIOUS
<1> DEFINE k == Len(seqs)
<1>1. k \in Nat
    OBVIOUS
<1>2. CASE k = 0
  <2>1. seqs = <<>>
      BY <1>2
  <2>2. FlattenSeq(seqs) = seqs
      BY <1>2 DEF FlattenSeq
  <2>3. QED
      BY <1>2, <2>1, <2>2 DEF Chain
<1>3. CASE k # 0
  <2> DEFINE g == [i \in 1..k |-> f[i]]
             h == CHOOSE r : IsFlat(r, seqs)
  <2>1. \A i \in 1..k : seqs[i] \in Run
      BY ElementOfSeq
  <2>2. \A i \in 1..k : g[i] = IF i = 1 THEN seqs[i] ELSE g[i - 1] \o seqs[i]
    <3>1. ASSUME NEW i \in 1..k, i = 1 PROVE g[i] = seqs[i]
      <4>1. f[1] = <<>> \o seqs[1]
        <5>1. f[i] = f[i - 1] \o seqs[i] /\ f[0] = <<>>
            BY Zenon DEF Chain
        <5>2. i - 1 = 0
            BY <3>1
        <5>3. QED
            BY <3>1, <5>1, <5>2, Zenon
      <4>2. QED
          BY <2>1, <3>1, <4>1, EmptyFirst
    <3>2. ASSUME NEW i \in 1..k, i # 1 PROVE g[i] = g[i - 1] \o seqs[i]
      <4>1. i - 1 \in 1..k
          BY <1>1, <3>2
      <4>2. QED
          BY <4>1 DEF Chain
    <3>3. QED
        BY <3>1, <3>2
  <2> HIDE DEF k
  <2>3. g = [i \in 1..k |-> g[i]]
      OBVIOUS
  <2> HIDE DEF g
  <2>4. IsFlat(g, seqs)
      BY <2>2, <2>3 DEF IsFlat, k
  <2>5. IsFlat(h, seqs)
    <3> HIDE DEF IsFlat
    <3>1. QED
        BY <2>4
  <2>6. FlattenSeq(seqs) = h[k]
      BY <1>3, Zenon DEF FlattenSeq, IsFlat, k
  <2> HIDE DEF h
  <2>7. \A i \in 1..k : h[i] = IF i = 1 THEN seqs[i] ELSE h[i - 1] \o seqs[i]
      BY <2>5 DEF IsFlat, k
  <2> DEFINE P == {i \in Nat : i \in 1..k => h[i] = g[i]}
  <2>8. 0 \in P
      OBVIOUS
  <2>9. ASSUME NEW i \in 1..k, i - 1 \in P PROVE i \in P
    <3>1. CASE i = 1
        BY <2>2, <2>7, <3>1
    <3>2. CASE i # 1
      <4>1. i - 1 \in 1..k
          BY <1>1, <3>2
      <4>2. h[i - 1] = g[i - 1]
          BY <2>9, <4>1
      <4>3. QED
          BY <2>2, <2>7, <3>2, <4>2
    <3>3. QED
        BY <3>1, <3>2
  <2>10. P \in SUBSET Nat
      OBVIOUS
  <2> HIDE DEF P
  <2>11. k \in P
    <3>1. 0..k \subseteq P
        BY <1>1, <2>8, <2>9, <2>10, Onward DEF k
    <3>2. QED
        BY <1>1, <3>1 DEF k
  <2>12. h[k] = g[k]
    <3>1. k \in 1..k
        BY <1>1, <1>3 DEF k
    <3>2. QED
        BY <2>11, <3>1 DEF P
  <2>13. g[k] = f[k]
      BY <1>1, <1>3 DEF g, k
  <2>14. QED
      BY <2>6, <2>12, <2>13 DEF k
<1>4. QED
    BY <1>2, <1>3

\* Flattening, element by element.
LEMMA FlattenOneMore ==
    /\ FlattenSeq(<<>>) = <<>>
    /\ \A seqs \in Seq(Run) : FlattenSeq(seqs) \in Run
    /\ \A seqs \in Seq(Run), s \in Run :
          FlattenSeq(Append(seqs, s)) = FlattenSeq(seqs) \o s
<1>1. FlattenSeq(<<>>) = <<>>
    BY DEF FlattenSeq
<1>2. ASSUME NEW seqs \in Seq(Run) PROVE FlattenSeq(seqs) \in Run
  <2>1. PICK f : Chain(f, seqs)
      BY Chains
  <2>2. FlattenSeq(seqs) = f[Len(seqs)]
      BY <2>1, FlatChain
  <2>3. Len(seqs) \in 0..Len(seqs)
      OBVIOUS
  <2>4. QED
      BY <2>1, <2>2, <2>3 DEF Chain
<1>3. ASSUME NEW seqs \in Seq(Run), NEW s \in Run
      PROVE  FlattenSeq(Append(seqs, s)) = FlattenSeq(seqs) \o s
  <2> DEFINE more == Append(seqs, s)
             k == Len(seqs)
  <2>1. /\ more \in Seq(Run) /\ Len(more) = k + 1 /\ more[k + 1] = s
        /\ \A i \in 1..k : more[i] = seqs[i]
        /\ k \in Nat
      OBVIOUS
  <2> HIDE DEF more
  <2>2. PICK f : Chain(f, more)
      BY <2>1, Chains
  <2>3. Chain(f, seqs)
    <3>1. ASSUME NEW i \in 1..k PROVE f[i] = f[i - 1] \o seqs[i]
      <4>1. i \in 1..Len(more) /\ more[i] = seqs[i]
          BY <2>1
      <4>2. f[i] = f[i - 1] \o more[i]
          BY <2>2, <4>1, Zenon DEF Chain
      <4>3. QED
          BY <4>1, <4>2, Zenon
    <3>2. \A i \in 0..k : f[i] \in Run
        BY <2>1, <2>2 DEF Chain
    <3>3. QED
        BY <2>2, <3>1, <3>2 DEF Chain
  <2>4. FlattenSeq(more) = f[k + 1] /\ FlattenSeq(seqs) = f[k]
      BY <2>1, <2>2, <2>3, FlatChain
  <2>5. f[k + 1] = f[k] \o s
    <3>1. k + 1 \in 1..Len(more) /\ (k + 1) - 1 = k
        BY <2>1
    <3>2. QED
        BY <2>1, <2>2, <3>1 DEF Chain
  <2>6. QED
      BY <2>4, <2>5 DEF more
<1>4. QED
    BY <1>1, <1>2, <1>3

\* The readers of a value in S.
Readers(S) == [ok : BOOLEAN, p : Nat, value : S]

\* A slice of a buffer is as long as asked for, and holds its cells.
LEMMA PartOf ==
    \A b \in Run, p, n \in Nat : p + n <= Len(b) =>
        /\ SubSeq(b, p + 1, p + n) \in Run
        /\ Len(SubSeq(b, p + 1, p + n)) = n
        /\ \A i \in 1..n : SubSeq(b, p + 1, p + n)[i] = b[p + i]
<1> SUFFICES ASSUME NEW b \in Run, NEW p \in Nat, NEW n \in Nat, p + n <= Len(b)
             PROVE  /\ SubSeq(b, p + 1, p + n) \in Run
                    /\ Len(SubSeq(b, p + 1, p + n)) = n
                    /\ \A i \in 1..n : SubSeq(b, p + 1, p + n)[i] = b[p + i]
    OBVIOUS
<1> DEFINE s == SubSeq(b, p + 1, p + n)
<1>1. Len(b) \in Nat /\ \A i \in 1..Len(b) : b[i] \in Nat
    BY ElementOfSeq DEF Run
<1>2. s = [i \in 1..n |-> b[p + i]]
  <2>1. s = [i \in 1..((p + n) - (p + 1) + 1) |-> b[i + (p + 1) - 1]]
      BY DEF Run
  <2>2. QED
      BY <2>1
<1> HIDE DEF s
<1>3. \A i \in 1..n : b[p + i] \in Nat
  <2>1. \A i \in 1..n : p + i \in 1..Len(b)
      BY <1>1
  <2>2. QED
      BY <1>1, <2>1
<1>4. s \in Run /\ Len(s) = n
    BY <1>2, <1>3 DEF Run
<1>5. QED
    BY <1>2, <1>4 DEF s

\* take: the cells at p, or an error.
LEMMA CellsTaken ==
    \A b \in Run, p, n \in Nat :
        LET r == TakeCells(b, p, n) IN
        /\ r \in Readers(Run)
        /\ r.ok => Len(r.value) = n /\ r.p = p + n /\ Holds(b, p, r.value)
        /\ \A e \in Run : Holds(b, p, e) /\ Len(e) = n =>
              r = Reader(TRUE, p + n, e)
<1> SUFFICES ASSUME NEW b \in Run, NEW p \in Nat, NEW n \in Nat
             PROVE  LET r == TakeCells(b, p, n) IN
        /\ r \in Readers(Run)
        /\ r.ok => Len(r.value) = n /\ r.p = p + n /\ Holds(b, p, r.value)
        /\ \A e \in Run : Holds(b, p, e) /\ Len(e) = n =>
              r = Reader(TRUE, p + n, e)
    OBVIOUS
<1> DEFINE r == TakeCells(b, p, n)
           s == SubSeq(b, p + 1, p + n)
<1>0. Len(b) \in Nat
    BY DEF Run
<1>1. CASE p + n > Len(b)
  <2>1. r = [ok |-> FALSE, p |-> p, value |-> <<>>]
      BY <1>1 DEF TakeCells, Reader
  <2>2. \A e \in Run : ~ (Holds(b, p, e) /\ Len(e) = n)
      BY <1>0, <1>1 DEF Holds
  <2> HIDE DEF r
  <2>3. r \in Readers(Run) /\ ~ r.ok
      BY <2>1, EmptyFirst DEF Readers
  <2>4. QED
      BY <2>2, <2>3, Zenon DEF r
<1>2. CASE ~ (p + n > Len(b))
  <2>1. p + n <= Len(b)
      BY <1>0, <1>2
  <2>2. s \in Run /\ Len(s) = n /\ \A i \in 1..n : s[i] = b[p + i]
      BY <2>1, PartOf
  <2>3. r = [ok |-> TRUE, p |-> p + n, value |-> s]
      BY <1>2 DEF TakeCells, Reader
  <2> HIDE DEF r, s
  <2>4. r \in Readers(Run) /\ r.p = p + n /\ r.value = s
      BY <2>2, <2>3 DEF Readers
  <2>5. Holds(b, p, s)
      BY <2>1, <2>2 DEF Holds
  <2>6. ASSUME NEW e \in Run, Holds(b, p, e), Len(e) = n PROVE e = s
    <3>1. \A i \in 1..n : e[i] = s[i]
        BY <2>2, <2>6 DEF Holds
    <3>2. QED
        BY <2>2, <2>6, <3>1 DEF Run
  <2>7. \A e \in Run : Holds(b, p, e) /\ Len(e) = n => r = Reader(TRUE, p + n, e)
      BY <2>3, <2>6 DEF Reader
  <2>8. Len(r.value) = n /\ r.p = p + n /\ Holds(b, p, r.value)
      BY <2>2, <2>4, <2>5
  <2>9. QED
      BY <2>4, <2>7, <2>8, Zenon DEF r
<1>3. QED
    BY <1>1, <1>2

\* A string behind its length.
Text(s) == <<Len(s)>> \o s

\* A string behind its length is one cell and the string.
LEMMA TextParts ==
    \A s \in Run : /\ <<Len(s)>> \in Run /\ Len(<<Len(s)>>) = 1 /\ <<Len(s)>>[1] = Len(s)
                   /\ Text(s) \in Run /\ Len(Text(s)) = 1 + Len(s)
                   /\ \A b \in Run, p \in Nat :
                         Holds(b, p, Text(s)) <=>
                            Holds(b, p, <<Len(s)>>) /\ Holds(b, p + 1, s)
<1> SUFFICES ASSUME NEW s \in Run
             PROVE  /\ <<Len(s)>> \in Run /\ Len(<<Len(s)>>) = 1 /\ <<Len(s)>>[1] = Len(s)
                    /\ Text(s) \in Run /\ Len(Text(s)) = 1 + Len(s)
                    /\ \A b \in Run, p \in Nat :
                         Holds(b, p, Text(s)) <=>
                            Holds(b, p, <<Len(s)>>) /\ Holds(b, p + 1, s)
    OBVIOUS
<1> DEFINE c == <<Len(s)>>
<1>1. c \in Run /\ Len(c) = 1 /\ c[1] = Len(s)
    BY DEF Run
<1> HIDE DEF c
<1>2. Text(s) = c \o s
    BY DEF c, Text
<1>3. Text(s) \in Run /\ Len(Text(s)) = 1 + Len(s)
  <2>1. c \o s \in Run /\ Len(c \o s) = Len(c) + Len(s)
      BY <1>1, Joined, Zenon
  <2>2. QED
      BY <1>1, <1>2, <2>1
<1>4. ASSUME NEW b \in Run, NEW p \in Nat
      PROVE  Holds(b, p, Text(s)) <=> Holds(b, p, c) /\ Holds(b, p + 1, s)
  <2>1. Holds(b, p, c \o s) <=> Holds(b, p, c) /\ Holds(b, p + Len(c), s)
      BY <1>1, HoldsBoth
  <2>2. QED
      BY <1>1, <1>2, <2>1
<1>5. QED
    BY <1>1, <1>3, <1>4 DEF c

\* A length and as many bytes, or an error.
LEMMA StringTaken ==
    \A b \in Run, p \in Nat :
        LET r == TakeString(b, p) IN
        /\ r \in Readers(Run)
        /\ r.ok => Holds(b, p, Text(r.value)) /\ r.p = p + Len(Text(r.value))
        /\ \A s \in Run : Holds(b, p, Text(s)) =>
              r = Reader(\A i \in DOMAIN s : s[i] # NotUtf8, p + Len(Text(s)), s)
<1> SUFFICES ASSUME NEW b \in Run, NEW p \in Nat
             PROVE  LET r == TakeString(b, p) IN
        /\ r \in Readers(Run)
        /\ r.ok => Holds(b, p, Text(r.value)) /\ r.p = p + Len(Text(r.value))
        /\ \A s \in Run : Holds(b, p, Text(s)) =>
              r = Reader(\A i \in DOMAIN s : s[i] # NotUtf8, p + Len(Text(s)), s)
    OBVIOUS
<1> DEFINE size == TakeCells(b, p, 1)
           body == TakeCells(b, size.p, size.value[1])
           r == TakeString(b, p)
           Utf8(s) == \A i \in DOMAIN s : s[i] # NotUtf8
<1>1. r = IF ~size.ok \/ ~body.ok THEN Reader(FALSE, p, <<>>)
          ELSE Reader(Utf8(body.value), body.p, body.value)
    BY Zenon DEF TakeString
<1>2. /\ size \in Readers(Run)
      /\ size.ok => Len(size.value) = 1 /\ size.p = p + 1 /\ Holds(b, p, size.value)
      /\ \A e \in Run : Holds(b, p, e) /\ Len(e) = 1 => size = Reader(TRUE, p + 1, e)
  <2>1. 1 \in Nat
      OBVIOUS
  <2>2. QED
      BY <2>1, CellsTaken, Zenon
<1>3. \A n \in Nat : n = size.value[1] /\ size.ok =>
        /\ body \in Readers(Run)
        /\ body.ok => Len(body.value) = n /\ body.p = p + 1 + n /\ Holds(b, p + 1, body.value)
        /\ \A e \in Run : Holds(b, p + 1, e) /\ Len(e) = n =>
              body = Reader(TRUE, p + 1 + n, e)
  <2> SUFFICES ASSUME NEW n \in Nat, n = size.value[1], size.ok
               PROVE  /\ body \in Readers(Run)
                      /\ body.ok => Len(body.value) = n /\ body.p = p + 1 + n
                                    /\ Holds(b, p + 1, body.value)
                      /\ \A e \in Run : Holds(b, p + 1, e) /\ Len(e) = n =>
                            body = Reader(TRUE, p + 1 + n, e)
      OBVIOUS
  <2>1. body = TakeCells(b, p + 1, n)
      BY <1>2, Zenon
  <2>2. p + 1 \in Nat
      OBVIOUS
  <2> DEFINE t == TakeCells(b, p + 1, n)
  <2>3. /\ t \in Readers(Run)
        /\ t.ok => Len(t.value) = n /\ t.p = p + 1 + n /\ Holds(b, p + 1, t.value)
        /\ \A e \in Run : Holds(b, p + 1, e) /\ Len(e) = n =>
              t = Reader(TRUE, p + 1 + n, e)
      BY <2>2, CellsTaken, Zenon
  <2>4. body = t
      BY <2>1
  <2> HIDE DEF body, t
  <2>5. QED
      BY <2>3, <2>4, Zenon
<1>4. size.ok => size.value[1] \in Nat
    BY <1>2, ElementOfSeq DEF Readers, Run
<1> HIDE DEF size, body, r
<1>5. ASSUME ~size.ok \/ ~body.ok PROVE r \in Readers(Run) /\ ~ r.ok
  <2>1. r = [ok |-> FALSE, p |-> p, value |-> <<>>]
      BY <1>1, <1>5 DEF Reader
  <2>2. QED
      BY <2>1, EmptyFirst DEF Readers
<1>6. ASSUME size.ok, body.ok
      PROVE  /\ r \in Readers(Run)
             /\ Holds(b, p, Text(r.value)) /\ r.p = p + Len(Text(r.value))
  <2> DEFINE s == body.value
  <2>1. r = [ok |-> Utf8(s), p |-> body.p, value |-> s]
      BY <1>1, <1>6, Zenon DEF Reader
  <2>2. /\ body \in Readers(Run) /\ Len(s) = size.value[1]
        /\ body.p = p + 1 + Len(s) /\ Holds(b, p + 1, s)
      BY <1>3, <1>4, <1>6, Zenon
  <2>3. s \in Run /\ body.p \in Nat
      BY <2>2 DEF Readers
  <2>4. Utf8(s) \in BOOLEAN
      OBVIOUS
  <2> HIDE DEF Utf8, s
  <2>5. r \in Readers(Run) /\ r.value = s /\ r.p = body.p
      BY <2>1, <2>3, <2>4 DEF Readers
  <2>6. size.value = <<Len(s)>>
    <3>1. size.value \in Run /\ Len(size.value) = 1
        BY <1>2, <1>6 DEF Readers
    <3>2. QED
        BY <2>2, <3>1 DEF Run
  <2>7. Holds(b, p, Text(s))
      BY <1>2, <1>6, <2>2, <2>3, <2>6, TextParts, Zenon
  <2>8. p + 1 + Len(s) = p + Len(Text(s))
    <3>1. Len(Text(s)) = 1 + Len(s)
        BY <2>3, TextParts, Zenon
    <3>2. Len(s) \in Nat
        BY <2>3 DEF Run
    <3>3. QED
        BY <3>1, <3>2
  <2>9. QED
      BY <2>2, <2>5, <2>7, <2>8, Zenon
<1>7. ASSUME NEW s \in Run, Holds(b, p, Text(s))
      PROVE  r = Reader(Utf8(s), p + Len(Text(s)), s)
  <2>1. Holds(b, p, <<Len(s)>>) /\ Holds(b, p + 1, s)
      BY <1>7, TextParts
  <2>2. size = Reader(TRUE, p + 1, <<Len(s)>>)
      BY <1>2, <2>1, TextParts, Zenon
  <2>3. size.ok /\ size.value[1] = Len(s)
    <3> DEFINE c == <<Len(s)>>
    <3>1. c[1] = Len(s)
        OBVIOUS
    <3> HIDE DEF c
    <3>2. size = [ok |-> TRUE, p |-> p + 1, value |-> c]
        BY <2>2 DEF Reader, c
    <3>3. QED
        BY <3>1, <3>2
  <2>4. Len(s) \in Nat
      BY DEF Run
  <2>5. body = Reader(TRUE, p + 1 + Len(s), s)
      BY <1>3, <2>1, <2>3, <2>4, Zenon
  <2>6. body.ok /\ body.p = p + 1 + Len(s) /\ body.value = s
      BY <2>5 DEF Reader
  <2>7. p + 1 + Len(s) = p + Len(Text(s))
    <3>1. Len(Text(s)) = 1 + Len(s)
        BY TextParts
    <3>2. QED
        BY <2>4, <3>1
  <2>8. QED
      BY <1>1, <2>3, <2>6, <2>7, Zenon
<1>8. QED
    BY <1>5, <1>6, <1>7, Zenon DEF r

\* The cells of the items v, each as c writes it.
Flat(c, v) == FlattenSeq([i \in DOMAIN v |-> c[v[i]]])

\* The cells of one item more are behind those of the others.
LEMMA FlatOneMore ==
    \A S : \A c \in [S -> Run] :
        /\ Flat(c, <<>>) = <<>>
        /\ \A v \in Seq(S) : Flat(c, v) \in Run
        /\ \A v \in Seq(S), x \in S : Flat(c, Append(v, x)) = Flat(c, v) \o c[x]
<1> SUFFICES ASSUME NEW S, NEW c \in [S -> Run]
             PROVE  /\ Flat(c, <<>>) = <<>>
                    /\ \A v \in Seq(S) : Flat(c, v) \in Run
                    /\ \A v \in Seq(S), x \in S :
                          Flat(c, Append(v, x)) = Flat(c, v) \o c[x]
    OBVIOUS
<1> DEFINE Codes(v) == [i \in DOMAIN v |-> c[v[i]]]
<1>1. Flat(c, <<>>) = <<>>
  <2>1. Codes(<<>>) = <<>>
      OBVIOUS
  <2>2. QED
      BY <2>1, FlattenOneMore, Zenon DEF Flat
<1>2. ASSUME NEW v \in Seq(S)
      PROVE  Codes(v) \in Seq(Run) /\ Len(Codes(v)) = Len(v)
  <2>1. \A i \in 1..Len(v) : v[i] \in S
      BY ElementOfSeq
  <2>2. Codes(v) \in [1..Len(v) -> Run]
      BY <2>1
  <2>3. Len(v) \in Nat
      OBVIOUS
  <2> HIDE DEF Codes
  <2>4. QED
      BY <2>2, <2>3
<1>3. ASSUME NEW v \in Seq(S), NEW x \in S
      PROVE  Codes(Append(v, x)) = Append(Codes(v), c[x])
  <2> DEFINE w == Append(v, x)
             cv == Codes(v)
             cw == Codes(w)
  <2>1. /\ w \in Seq(S) /\ Len(w) = Len(v) + 1 /\ w[Len(v) + 1] = x
        /\ \A i \in 1..Len(v) : w[i] = v[i]
        /\ Len(v) \in Nat
      OBVIOUS
  <2>2. cv \in Seq(Run) /\ Len(cv) = Len(v) /\ \A i \in 1..Len(v) : cv[i] = c[v[i]]
      BY <1>2
  <2>3. cw \in Seq(Run) /\ Len(cw) = Len(w) /\ \A i \in 1..Len(w) : cw[i] = c[w[i]]
    <3> HIDE DEF w
    <3>1. cw \in Seq(Run) /\ Len(cw) = Len(w)
        BY <1>2, <2>1
    <3>2. \A i \in 1..Len(w) : cw[i] = c[w[i]]
        BY <2>1
    <3>3. QED
        BY <3>1, <3>2
  <2>4. c[x] \in Run
      OBVIOUS
  <2> HIDE DEF w, cv, cw, Codes
  <2>5. /\ Append(cv, c[x]) \in Seq(Run) /\ Len(Append(cv, c[x])) = Len(v) + 1
        /\ \A i \in 1..Len(v) : Append(cv, c[x])[i] = cv[i]
        /\ Append(cv, c[x])[Len(v) + 1] = c[x]
      BY <2>1, <2>2, <2>4
  <2>6. ASSUME NEW i \in 1..(Len(v) + 1) PROVE cw[i] = Append(cv, c[x])[i]
    <3>1. CASE i = Len(v) + 1
        BY <2>1, <2>3, <2>5, <3>1
    <3>2. CASE i # Len(v) + 1
      <4>1. i \in 1..Len(v) /\ i \in 1..Len(w)
          BY <2>1, <3>2
      <4>2. QED
          BY <2>1, <2>2, <2>3, <2>5, <4>1
    <3>3. QED
        BY <3>1, <3>2
  <2> DEFINE a == Append(cv, c[x])
  <2> HIDE DEF a
  <2>7. a \in Seq(Run) /\ Len(a) = Len(cw) /\ \A i \in 1..Len(cw) : cw[i] = a[i]
      BY <2>1, <2>3, <2>5, <2>6 DEF a
  <2>8. cw = a
      BY <2>3, <2>7
  <2>9. QED
      BY <2>8 DEF a, cw, cv, w
<1>4. ASSUME NEW v \in Seq(S) PROVE Flat(c, v) \in Run
    BY <1>2, FlattenOneMore, Zenon DEF Flat
<1>5. ASSUME NEW v \in Seq(S), NEW x \in S
      PROVE  Flat(c, Append(v, x)) = Flat(c, v) \o c[x]
  <2>1. c[x] \in Run
      OBVIOUS
  <2>2. Codes(v) \in Seq(Run)
      BY <1>2
  <2>3. FlattenSeq(Append(Codes(v), c[x])) = FlattenSeq(Codes(v)) \o c[x]
    <3> HIDE DEF Codes
    <3>1. QED
        BY <2>1, <2>2, FlattenOneMore, Zenon
  <2>4. Flat(c, Append(v, x)) = FlattenSeq(Codes(Append(v, x)))
      BY Zenon DEF Flat
  <2>5. Flat(c, v) = FlattenSeq(Codes(v))
      BY Zenon DEF Flat
  <2> HIDE DEF Codes
  <2>6. QED
      BY <1>3, <2>3, <2>4, <2>5, Zenon
<1>6. QED
    BY <1>1, <1>4, <1>5

\* g is the reader after each turn of a loop that takes items of S from p on.
Loops(g, S, p, n) ==
    /\ g[0] = Reader(TRUE, p, <<>>)
    /\ \A i \in 0..n : g[i] \in Readers(Seq(S))

\* A turn that succeeds has found one item more.
FindsOne(b, before, after, S, c) ==
    after.ok =>
        /\ before.ok
        /\ \E x \in S : /\ after.value = Append(before.value, x)
                        /\ Holds(b, before.p, c[x])
                        /\ after.p = before.p + Len(c[x])

\* What k turns that succeed have found.
Found(b, r, S, c, p, k) ==
    r.ok =>
        /\ Len(r.value) = k
        /\ Holds(b, p, Flat(c, r.value))
        /\ r.p = p + Len(Flat(c, r.value))
        /\ k <= Len(Flat(c, r.value))
        /\ \A i \in 1..k : \E q \in Nat : Holds(b, q, c[r.value[i]])

\* A turn that finds an item keeps what the turns before it found.
LEMMA OneMoreFound ==
    ASSUME NEW S, NEW c \in [S -> Run], NEW b \in Run, NEW p \in Nat, NEW k \in Nat,
           NEW r \in Readers(Seq(S)), NEW t \in Readers(Seq(S)),
           \A x \in S : Len(c[x]) >= 1,
           Found(b, r, S, c, p, k), FindsOne(b, r, t, S, c)
    PROVE  Found(b, t, S, c, p, k + 1)
<1> SUFFICES ASSUME t.ok PROVE Found(b, t, S, c, p, k + 1)
    BY Zenon DEF Found
<1> DEFINE v == r.value
<1>1. PICK x \in S : /\ t.value = Append(v, x)
                     /\ Holds(b, r.p, c[x])
                     /\ t.p = r.p + Len(c[x])
    BY Zenon DEF FindsOne
<1>2. /\ Len(v) = k /\ Holds(b, p, Flat(c, v)) /\ r.p = p + Len(Flat(c, v))
      /\ k <= Len(Flat(c, v))
      /\ \A i \in 1..k : \E q \in Nat : Holds(b, q, c[v[i]])
    BY Zenon DEF FindsOne, Found
<1>3. v \in Seq(S) /\ r.p \in Nat
    BY DEF Readers
<1> HIDE DEF v
<1>4. c[x] \in Run
    OBVIOUS
<1>5. Flat(c, v) \in Run /\ Flat(c, t.value) = Flat(c, v) \o c[x]
    BY <1>1, <1>3, FlatOneMore, Zenon
<1>6. /\ Holds(b, p, Flat(c, t.value)) /\ t.p = p + Len(Flat(c, t.value))
      /\ k + 1 <= Len(Flat(c, t.value))
  <2> DEFINE f == Flat(c, v)
             w == c[x]
  <2>1. /\ f \in Run /\ w \in Run /\ Flat(c, t.value) = f \o w
        /\ Holds(b, p, f) /\ Holds(b, p + Len(f), w)
        /\ t.p = p + Len(f) + Len(w)
        /\ k <= Len(f) /\ Len(w) >= 1
      BY <1>1, <1>2, <1>4, <1>5, Zenon
  <2> HIDE DEF f, w
  <2>2. Holds(b, p, f \o w) /\ Len(f \o w) = Len(f) + Len(w)
      BY <2>1, HoldsBoth, Joined, Zenon
  <2>3. Len(f) \in Nat /\ Len(w) \in Nat
      BY <2>1 DEF Run
  <2>4. p + Len(f) + Len(w) = p + Len(f \o w) /\ k + 1 <= Len(f \o w)
      BY <2>1, <2>2, <2>3
  <2>5. QED
      BY <2>1, <2>2, <2>4, Zenon
<1>8. /\ Len(t.value) = k + 1 /\ t.value[k + 1] = x
      /\ \A i \in 1..k : t.value[i] = v[i]
    BY <1>1, <1>2, <1>3
<1>9. ASSUME NEW i \in 1..(k + 1) PROVE \E q \in Nat : Holds(b, q, c[t.value[i]])
  <2>1. CASE i = k + 1
      BY <1>1, <1>3, <1>8, <2>1
  <2>2. CASE i # k + 1
    <3>1. i \in 1..k
        BY <2>2
    <3>2. t.value[i] = v[i]
        BY <1>8, <3>1
    <3>3. QED
        BY <1>2, <3>1, <3>2
  <2>3. QED
      BY <2>1, <2>2
<1>10. QED
    BY <1>6, <1>8, <1>9 DEF Found

\* A loop whose turns find one item each has found them all.
LEMMA LoopFinds ==
    ASSUME NEW S, NEW c \in [S -> Run], NEW b \in Run, NEW p \in Nat,
           NEW n \in Nat, NEW g, p <= Len(b), Loops(g, S, p, n),
           \A x \in S : Len(c[x]) >= 1,
           \A i \in 1..n : FindsOne(b, g[i - 1], g[i], S, c)
    PROVE  Found(b, g[n], S, c, p, n)
<1> DEFINE P == {k \in Nat : k <= n => Found(b, g[k], S, c, p, k)}
<1>1. 0 \in P
  <2>1. g[0].value = <<>> /\ g[0].p = p
      BY DEF Loops, Reader
  <2>2. Flat(c, <<>>) = <<>>
      BY FlatOneMore, Zenon
  <2>3. Holds(b, p, <<>>)
      BY DEF Holds
  <2>4. Found(b, g[0], S, c, p, 0)
    <3>1. /\ Len(g[0].value) = 0 /\ g[0].p = p + Len(Flat(c, g[0].value))
          /\ 0 <= Len(Flat(c, g[0].value))
        BY <2>1, <2>2
    <3>2. \A i \in 1..0 : \E q \in Nat : Holds(b, q, c[g[0].value[i]])
        OBVIOUS
    <3>3. Holds(b, p, Flat(c, g[0].value))
        BY <2>1, <2>2, <2>3
    <3>4. QED
        BY <3>1, <3>2, <3>3, Zenon DEF Found
  <2>5. QED
      BY <2>4
<1>2. ASSUME NEW i \in 1..n, i - 1 \in P PROVE i \in P
  <2> DEFINE k == i - 1
  <2>1. k \in Nat /\ k <= n /\ k \in 0..n /\ i \in 0..n /\ k + 1 = i /\ i \in Nat
      OBVIOUS
  <2>2. Found(b, g[k], S, c, p, k)
      BY <1>2, <2>1
  <2>3. FindsOne(b, g[k], g[i], S, c)
      OBVIOUS
  <2>4. g[k] \in Readers(Seq(S)) /\ g[i] \in Readers(Seq(S))
      BY <2>1 DEF Loops
  <2> HIDE DEF k
  <2>5. Found(b, g[i], S, c, p, k + 1)
      BY <2>1, <2>2, <2>3, <2>4, OneMoreFound
  <2>6. QED
      BY <2>1, <2>5
<1>3. P \in SUBSET Nat
    OBVIOUS
<1> HIDE DEF P
<1>4. n \in P
  <2>1. 0..n \subseteq P
      BY <1>1, <1>2, <1>3, Onward
  <2>2. QED
      BY <2>1
<1>5. QED
    BY <1>4 DEF P

\* A turn that finds the item x where it is.
Takes(b, before, after, x, c) ==
    before.ok /\ Holds(b, before.p, c[x]) =>
        after = Reader(TRUE, before.p + Len(c[x]), Append(before.value, x))

\* A loop whose turns find the items v where they are.
Finding(g, b, S, c, p, v) ==
    /\ Loops(g, S, p, Len(v))
    /\ \A i \in 1..Len(v) : Takes(b, g[i - 1], g[i], v[i], c)
    /\ Holds(b, p, Flat(c, v))

\* It ends with these items, behind them.
Ends(g, c, p, v) == g[Len(v)] = Reader(TRUE, p + Len(Flat(c, v)), v)

\* A loop that is given the cells of items comes back with these items.
LEMMA LoopTakes ==
    \A S : \A c \in [S -> Run], b \in Run, p \in Nat, v \in Seq(S) : \A g :
        Finding(g, b, S, c, p, v) => Ends(g, c, p, v)
<1> SUFFICES ASSUME NEW S, NEW c \in [S -> Run], NEW b \in Run, NEW p \in Nat,
                    NEW v \in Seq(S), NEW g, Finding(g, b, S, c, p, v)
             PROVE  Ends(g, c, p, v)
    OBVIOUS
<1>0. /\ Loops(g, S, p, Len(v))
      /\ \A i \in 1..Len(v) : Takes(b, g[i - 1], g[i], v[i], c)
      /\ Holds(b, p, Flat(c, v))
    BY DEF Finding
<1> DEFINE n == Len(v)
           u(k) == [j \in 1..k |-> v[j]]
<1>1. n \in Nat /\ \A i \in 1..n : v[i] \in S
    BY ElementOfSeq
<1>2. ASSUME NEW k \in 0..n
      PROVE  /\ u(k) \in Seq(S) /\ Len(u(k)) = k
             /\ \A j \in 1..k : u(k)[j] = v[j]
  <2>1. k \in Nat /\ \A j \in 1..k : j \in 1..n
      BY <1>1
  <2>2. u(k) \in [1..k -> S]
      BY <1>1, <2>1
  <2>3. \A j \in 1..k : u(k)[j] = v[j]
      OBVIOUS
  <2> HIDE DEF u, n
  <2>4. QED
      BY <2>1, <2>2, <2>3
<1> HIDE DEF n
<1>3. u(0) = <<>> /\ u(n) = v
    BY <1>1 DEF n
<1> HIDE DEF u
<1>4. ASSUME NEW i \in 1..n PROVE u(i) = Append(u(i - 1), v[i])
  <2>1. i - 1 \in 0..n /\ i \in 0..n /\ i \in Nat /\ (i - 1) + 1 = i
      BY <1>1
  <2> DEFINE s == u(i - 1)
             t == u(i)
             x == v[i]
  <2>2. /\ s \in Seq(S) /\ Len(s) = i - 1 /\ \A j \in 1..(i - 1) : s[j] = v[j]
        /\ t \in Seq(S) /\ Len(t) = i /\ \A j \in 1..i : t[j] = v[j]
      BY <1>2, <2>1
  <2>3. x \in S
      BY <1>1
  <2> HIDE DEF s, t
  <2>4. t[i] = x
      BY <2>1, <2>2
  <2> HIDE DEF x
  <2>5. /\ Append(s, x) \in Seq(S) /\ Len(Append(s, x)) = i
        /\ \A j \in 1..(i - 1) : Append(s, x)[j] = s[j]
        /\ Append(s, x)[i] = x
      BY <2>1, <2>2, <2>3
  <2>6. ASSUME NEW j \in 1..i PROVE t[j] = Append(s, x)[j]
    <3>1. CASE j = i
        BY <2>4, <2>5, <3>1
    <3>2. CASE j # i
      <4>1. j \in 1..(i - 1)
          BY <2>1, <3>2
      <4>2. QED
          BY <2>2, <2>5, <4>1
    <3>3. QED
        BY <3>1, <3>2
  <2> DEFINE a == Append(s, x)
  <2> HIDE DEF a
  <2>7. a \in Seq(S) /\ Len(a) = Len(t) /\ \A j \in 1..Len(t) : t[j] = a[j]
      BY <2>2, <2>5, <2>6 DEF a
  <2>8. t = a
      BY <2>2, <2>7
  <2>9. QED
      BY <2>8 DEF t, a, s, x
<1>5. ASSUME NEW i \in 1..n
      PROVE  /\ Flat(c, u(i)) = Flat(c, u(i - 1)) \o c[v[i]]
             /\ Flat(c, u(i - 1)) \in Run /\ c[v[i]] \in Run
  <2>1. i - 1 \in 0..n
      BY <1>1
  <2>2. u(i - 1) \in Seq(S) /\ v[i] \in S
      BY <1>1, <1>2, <2>1
  <2>3. c[v[i]] \in Run
      BY <2>2
  <2>4. QED
      BY <1>4, <2>2, <2>3, FlatOneMore, Zenon
<1> DEFINE Q == {k \in Nat : k <= n => Holds(b, p, Flat(c, u(n - k)))}
<1>6. n \in 0..n /\ 0..n \subseteq Q
  <2>1. 0 \in Q
      BY <1>0, <1>1, <1>3
  <2>2. ASSUME NEW k \in 1..n, k - 1 \in Q PROVE k \in Q
    <3> DEFINE i == n - (k - 1)
    <3>1. i \in 1..n /\ i - 1 = n - k /\ k \in Nat /\ k - 1 <= n
        BY <1>1
    <3>2. Holds(b, p, Flat(c, u(i)))
        BY <2>2, <3>1
    <3> HIDE DEF i
    <3>3. Holds(b, p, Flat(c, u(i - 1)))
      <4> DEFINE f == Flat(c, u(i - 1))
                 w == c[v[i]]
      <4>1. f \in Run /\ w \in Run /\ Holds(b, p, f \o w)
          BY <1>5, <3>1, <3>2
      <4> HIDE DEF f, w
      <4>2. Holds(b, p, f)
          BY <4>1, HoldsBoth, Zenon
      <4>3. QED
          BY <4>2 DEF f
    <3>4. QED
        BY <3>1, <3>3
  <2>3. Q \in SUBSET Nat
      OBVIOUS
  <2> HIDE DEF Q
  <2>4. 0..n \subseteq Q
      BY <1>1, <2>1, <2>2, <2>3, Onward
  <2>5. QED
      BY <1>1, <2>4
<1>7. ASSUME NEW k \in 0..n PROVE Holds(b, p, Flat(c, u(k)))
  <2>1. n - k \in 0..n /\ n - (n - k) = k /\ n - k <= n
      BY <1>1
  <2>2. n - k \in Q
      BY <1>6, <2>1
  <2>3. QED
      BY <2>1, <2>2
<1> HIDE DEF Q
<1> DEFINE P == {k \in Nat : k <= n =>
                    g[k] = Reader(TRUE, p + Len(Flat(c, u(k))), u(k))}
<1>8. 0 \in P
  <2>1. Flat(c, <<>>) = <<>> /\ p + Len(<<>>) = p
      BY FlatOneMore
  <2>2. g[0] = Reader(TRUE, p, <<>>)
      BY <1>0 DEF Loops
  <2>3. g[0] = Reader(TRUE, p + Len(Flat(c, u(0))), u(0))
      BY <1>3, <2>1, <2>2, Zenon
  <2>4. QED
      BY <2>3
<1>9. ASSUME NEW i \in 1..n, i - 1 \in P PROVE i \in P
  <2> DEFINE k == i - 1
             f == Flat(c, u(k))
             x == v[i]
  <2>1. k \in Nat /\ k <= n /\ k \in 0..n /\ i \in 0..n /\ i \in Nat
      BY <1>1
  <2>2. g[k] = Reader(TRUE, p + Len(f), u(k))
      BY <1>9, <2>1
  <2>3. f \in Run /\ c[x] \in Run /\ Flat(c, u(i)) = f \o c[x]
      BY <1>5
  <2>4. u(i) = Append(u(k), x)
      BY <1>4
  <2>5. Holds(b, p, f \o c[x])
      BY <1>7, <2>1, <2>3
  <2>6. Takes(b, g[k], g[i], x, c)
      BY <1>0 DEF n
  <2> HIDE DEF k, f, x
  <2>7. Holds(b, p + Len(f), c[x])
      BY <2>3, <2>5, HoldsBoth, Zenon
  <2>8. g[k].ok /\ g[k].p = p + Len(f) /\ g[k].value = u(k)
      BY <2>2 DEF Reader
  <2>9. g[i] = Reader(TRUE, p + Len(f) + Len(c[x]), u(i))
      BY <2>4, <2>6, <2>7, <2>8, Zenon DEF Takes
  <2>10. p + Len(f) + Len(c[x]) = p + Len(Flat(c, u(i)))
    <3>1. Len(f \o c[x]) = Len(f) + Len(c[x])
        BY <2>3, Joined, Zenon
    <3>2. Len(f) \in Nat /\ Len(c[x]) \in Nat
        BY <2>3 DEF Run
    <3>3. p + Len(f) + Len(c[x]) = p + Len(f \o c[x])
      <4>1. \A m, l \in Nat : p + m + l = p + (m + l)
          OBVIOUS
      <4>2. QED
          BY <3>1, <3>2, <4>1, Zenon
    <3>4. QED
        BY <2>3, <3>3, Zenon
  <2>11. QED
      BY <2>1, <2>9, <2>10
<1>10. P \in SUBSET Nat
    OBVIOUS
<1> HIDE DEF P
<1>11. n \in P
  <2>1. 0..n \subseteq P
      BY <1>1, <1>8, <1>9, <1>10, Onward
  <2>2. QED
      BY <1>1, <2>1
<1>12. g[n] = Reader(TRUE, p + Len(Flat(c, u(n))), u(n))
  <2>1. n <= n
      BY <1>1
  <2>2. QED
      BY <1>11, <2>1, Zenon DEF P
<1>13. QED
    BY <1>3, <1>12 DEF n, Ends

Pair == [key : Run, value : Run]
PairCode == [x \in Pair |-> Text(x.key) \o Text(x.value)]
Device == {d \in Run : Len(d) = 3}
DeviceCode == [d \in Device |-> d]

Utf8(s) == \A i \in DOMAIN s : s[i] # NotUtf8

\* Pairs and devices are written as runs, and have the fields they are made of.
LEMMA CodesTyped ==
    /\ PairCode \in [Pair -> Run]
    /\ DeviceCode \in [Device -> Run]
    /\ \A x \in Pair : /\ x.key \in Run /\ x.value \in Run
                       /\ PairCode[x] = Text(x.key) \o Text(x.value)
                       /\ x = [key |-> x.key, value |-> x.value]
    /\ \A d \in Device : d \in Run /\ Len(d) = 3 /\ DeviceCode[d] = d
<1>1. ASSUME NEW x \in Pair
      PROVE  /\ x.key \in Run /\ x.value \in Run
             /\ x = [key |-> x.key, value |-> x.value]
    BY DEF Pair
<1>2. ASSUME NEW x \in Pair PROVE Text(x.key) \o Text(x.value) \in Run
  <2>1. Text(x.key) \in Run /\ Text(x.value) \in Run
      BY <1>1, TextParts
  <2>2. QED
      BY <2>1, Joined, Zenon
<1>3. PairCode \in [Pair -> Run]
    BY <1>2, Zenon DEF PairCode
<1>4. \A x \in Pair : PairCode[x] = Text(x.key) \o Text(x.value)
    BY Zenon DEF PairCode
<1>5. DeviceCode \in [Device -> Run] /\ \A d \in Device : DeviceCode[d] = d
    BY DEF DeviceCode, Device
<1>6. QED
    BY <1>1, <1>3, <1>4, <1>5 DEF Device

\* A pair is held where its key is, with its value behind it.
LEMMA PairHeld ==
    \A b \in Run, p \in Nat, x \in Pair :
        /\ Holds(b, p, PairCode[x]) <=>
              Holds(b, p, Text(x.key)) /\ Holds(b, p + Len(Text(x.key)), Text(x.value))
        /\ Len(PairCode[x]) = Len(Text(x.key)) + Len(Text(x.value))
        /\ Len(Text(x.key)) \in Nat /\ Len(Text(x.value)) \in Nat
<1> TAKE b \in Run, p \in Nat, x \in Pair
<1> DEFINE k == Text(x.key)
           v == Text(x.value)
<1>1. k \in Run /\ v \in Run /\ PairCode[x] = k \o v
    BY CodesTyped, TextParts, Zenon
<1> HIDE DEF k, v
<1>2. /\ Holds(b, p, k \o v) <=> Holds(b, p, k) /\ Holds(b, p + Len(k), v)
      /\ Len(k \o v) = Len(k) + Len(v)
    BY <1>1, HoldsBoth, Joined, Zenon
<1>3. Len(k) \in Nat /\ Len(v) \in Nat
    BY <1>1 DEF Run
<1>4. QED
    BY <1>1, <1>2, <1>3, Zenon DEF k, v

\* One pair more, or an error.
LEMMA PairTurn ==
    ASSUME NEW b \in Run, NEW r \in Readers(Seq(Pair)),
           NEW t, t = TakePair(b, r)
    PROVE  /\ t \in Readers(Seq(Pair))
           /\ FindsOne(b, r, t, Pair, PairCode)
           /\ \A x \in Pair : Utf8(x.key) /\ Utf8(x.value) =>
                 Takes(b, r, t, x, PairCode)
<1> DEFINE key == TakeString(b, r.p)
           value == TakeString(b, key.p)
<1>1. r.p \in Nat /\ r.value \in Seq(Pair) /\ r.ok \in BOOLEAN
    BY DEF Readers
<1>2. t = IF ~r.ok \/ ~key.ok \/ ~value.ok THEN Reader(FALSE, r.p, <<>>)
          ELSE Reader(TRUE, value.p,
                   Append(r.value, [key |-> key.value, value |-> value.value]))
    BY Zenon DEF TakePair
<1>3. /\ key \in Readers(Run)
      /\ key.ok => /\ Holds(b, r.p, Text(key.value))
                   /\ key.p = r.p + Len(Text(key.value))
      /\ \A s \in Run : Holds(b, r.p, Text(s)) =>
            key = Reader(Utf8(s), r.p + Len(Text(s)), s)
    BY <1>1, StringTaken, Zenon DEF Utf8
<1> HIDE DEF key
<1>4. key.p \in Nat /\ key.value \in Run
    BY <1>3 DEF Readers
<1>5. /\ value \in Readers(Run)
      /\ value.ok => /\ Holds(b, key.p, Text(value.value))
                     /\ value.p = key.p + Len(Text(value.value))
      /\ \A s \in Run : Holds(b, key.p, Text(s)) =>
            value = Reader(Utf8(s), key.p + Len(Text(s)), s)
    BY <1>4, StringTaken, Zenon DEF Utf8
<1> HIDE DEF value
<1>6. value.p \in Nat /\ value.value \in Run
    BY <1>5 DEF Readers
<1>7. ASSUME ~r.ok \/ ~key.ok \/ ~value.ok
      PROVE  t \in Readers(Seq(Pair)) /\ ~ t.ok
  <2>1. t = [ok |-> FALSE, p |-> r.p, value |-> <<>>]
      BY <1>2, <1>7, Zenon DEF Reader
  <2>2. <<>> \in Seq(Pair)
      OBVIOUS
  <2>3. QED
      BY <1>1, <2>1, <2>2 DEF Readers
<1>8. ASSUME r.ok, key.ok, value.ok
      PROVE  t \in Readers(Seq(Pair)) /\ FindsOne(b, r, t, Pair, PairCode)
  <2> DEFINE x == [key |-> key.value, value |-> value.value]
  <2>1. x \in Pair /\ x.key = key.value /\ x.value = value.value
      BY <1>4, <1>6 DEF Pair
  <2>2. t = [ok |-> TRUE, p |-> value.p, value |-> Append(r.value, x)]
      BY <1>2, <1>8, Zenon DEF Reader
  <2> HIDE DEF x
  <2>3. Append(r.value, x) \in Seq(Pair)
      BY <1>1, <2>1
  <2>4. /\ t \in Readers(Seq(Pair))
        /\ t.value = Append(r.value, x) /\ t.p = value.p
      BY <1>6, <2>2, <2>3 DEF Readers
  <2>5. /\ Holds(b, r.p, Text(x.key)) /\ Holds(b, r.p + Len(Text(x.key)), Text(x.value))
        /\ value.p = r.p + Len(Text(x.key)) + Len(Text(x.value))
      BY <1>3, <1>5, <1>8, <2>1, Zenon
  <2>6. Holds(b, r.p, PairCode[x])
      BY <1>1, <2>1, <2>5, PairHeld, Zenon
  <2>7. value.p = r.p + Len(PairCode[x])
    <3>1. /\ Len(PairCode[x]) = Len(Text(x.key)) + Len(Text(x.value))
          /\ Len(Text(x.key)) \in Nat /\ Len(Text(x.value)) \in Nat
        BY <1>1, <2>1, PairHeld, Zenon
    <3>2. \A m, l \in Nat : r.p + m + l = r.p + (m + l)
        BY <1>1
    <3>3. QED
        BY <2>5, <3>1, <3>2, Zenon
  <2>8. QED
      BY <1>8, <2>1, <2>4, <2>6, <2>7, Zenon DEF FindsOne
<1>9. ASSUME NEW x \in Pair, Utf8(x.key), Utf8(x.value), r.ok,
             Holds(b, r.p, PairCode[x])
      PROVE  t = Reader(TRUE, r.p + Len(PairCode[x]), Append(r.value, x))
  <2>1. x.key \in Run /\ x.value \in Run /\ x = [key |-> x.key, value |-> x.value]
      BY CodesTyped, Zenon
  <2>2. Holds(b, r.p, Text(x.key)) /\ Holds(b, r.p + Len(Text(x.key)), Text(x.value))
      BY <1>1, <1>9, PairHeld, Zenon
  <2>3. key = Reader(TRUE, r.p + Len(Text(x.key)), x.key)
    <3>1. key = Reader(Utf8(x.key), r.p + Len(Text(x.key)), x.key)
        BY <1>3, <2>1, <2>2, Zenon
    <3>2. Utf8(x.key) = TRUE
        BY <1>9
    <3>3. QED
        BY <3>1, <3>2, Zenon
  <2>4. key.ok /\ key.p = r.p + Len(Text(x.key)) /\ key.value = x.key
      BY <2>3 DEF Reader
  <2>5. value = Reader(TRUE, key.p + Len(Text(x.value)), x.value)
    <3>1. value = Reader(Utf8(x.value), key.p + Len(Text(x.value)), x.value)
        BY <1>5, <2>1, <2>2, <2>4, Zenon
    <3>2. Utf8(x.value) = TRUE
        BY <1>9
    <3>3. QED
        BY <3>1, <3>2, Zenon
  <2>6. /\ value.ok /\ value.value = x.value
        /\ value.p = r.p + Len(Text(x.key)) + Len(Text(x.value))
      BY <2>4, <2>5 DEF Reader
  <2>7. value.p = r.p + Len(PairCode[x])
    <3>1. /\ Len(PairCode[x]) = Len(Text(x.key)) + Len(Text(x.value))
          /\ Len(Text(x.key)) \in Nat /\ Len(Text(x.value)) \in Nat
        BY <1>1, PairHeld, Zenon
    <3>2. \A m, l \in Nat : r.p + m + l = r.p + (m + l)
        BY <1>1
    <3>3. QED
        BY <2>6, <3>1, <3>2, Zenon
  <2>8. QED
      BY <1>2, <1>9, <2>1, <2>4, <2>6, <2>7, Zenon
<1>10. FindsOne(b, r, t, Pair, PairCode) /\ t \in Readers(Seq(Pair))
    BY <1>7, <1>8, Zenon DEF FindsOne
<1>11. QED
    BY <1>9, <1>10, Zenon DEF Takes

\* One device more, or an error.
LEMMA DeviceTurn ==
    ASSUME NEW b \in Run, NEW r \in Readers(Seq(Device)),
           NEW t, t = TakeDevice(b, r)
    PROVE  /\ t \in Readers(Seq(Device))
           /\ FindsOne(b, r, t, Device, DeviceCode)
           /\ \A x \in Device : Takes(b, r, t, x, DeviceCode)
<1> DEFINE d == TakeCells(b, r.p, 3)
<1>1. r.p \in Nat /\ r.value \in Seq(Device) /\ r.ok \in BOOLEAN
    BY DEF Readers
<1>2. t = IF ~r.ok \/ ~d.ok THEN Reader(FALSE, r.p, <<>>)
          ELSE Reader(TRUE, d.p, Append(r.value, d.value))
    BY Zenon DEF TakeDevice
<1>3. /\ d \in Readers(Run)
      /\ d.ok => Len(d.value) = 3 /\ d.p = r.p + 3 /\ Holds(b, r.p, d.value)
      /\ \A e \in Run : Holds(b, r.p, e) /\ Len(e) = 3 =>
            d = Reader(TRUE, r.p + 3, e)
  <2>1. 3 \in Nat
      OBVIOUS
  <2>2. QED
      BY <1>1, <2>1, CellsTaken, Zenon
<1> HIDE DEF d
<1>4. d.p \in Nat /\ d.value \in Run
    BY <1>3 DEF Readers
<1>5. ASSUME ~r.ok \/ ~d.ok PROVE t \in Readers(Seq(Device)) /\ ~ t.ok
  <2>1. t = [ok |-> FALSE, p |-> r.p, value |-> <<>>]
      BY <1>2, <1>5, Zenon DEF Reader
  <2>2. <<>> \in Seq(Device)
      OBVIOUS
  <2>3. QED
      BY <1>1, <2>1, <2>2 DEF Readers
<1>6. ASSUME r.ok, d.ok
      PROVE  t \in Readers(Seq(Device)) /\ FindsOne(b, r, t, Device, DeviceCode)
  <2> DEFINE x == d.value
  <2>1. x \in Device /\ DeviceCode[x] = x /\ Len(x) = 3
      BY <1>3, <1>4, <1>6, CodesTyped DEF Device
  <2>2. t = [ok |-> TRUE, p |-> d.p, value |-> Append(r.value, x)]
      BY <1>2, <1>6, Zenon DEF Reader
  <2> HIDE DEF x
  <2>3. Append(r.value, x) \in Seq(Device)
      BY <1>1, <2>1
  <2>4. /\ t \in Readers(Seq(Device))
        /\ t.value = Append(r.value, x) /\ t.p = d.p
      BY <1>4, <2>2, <2>3 DEF Readers
  <2>5. Holds(b, r.p, DeviceCode[x]) /\ d.p = r.p + Len(DeviceCode[x])
      BY <1>3, <1>6, <2>1, Zenon DEF x
  <2>6. QED
      BY <1>6, <2>1, <2>4, <2>5, Zenon DEF FindsOne
<1>7. ASSUME NEW x \in Device, r.ok, Holds(b, r.p, DeviceCode[x])
      PROVE  t = Reader(TRUE, r.p + Len(DeviceCode[x]), Append(r.value, x))
  <2>1. x \in Run /\ Len(x) = 3 /\ DeviceCode[x] = x
      BY CodesTyped, Zenon
  <2>2. d = Reader(TRUE, r.p + 3, x)
      BY <1>3, <1>7, <2>1, Zenon
  <2>3. d.ok /\ d.p = r.p + 3 /\ d.value = x
      BY <2>2 DEF Reader
  <2>4. QED
      BY <1>2, <1>7, <2>1, <2>3, Zenon
<1>8. QED
    BY <1>5, <1>6, <1>7, Zenon DEF FindsOne, Takes
(* The loops of decode are such loops.                                     *)

IsPairsRun(g, b, p, n) ==
    g = [k \in 0..n |-> IF k = 0 THEN Reader(TRUE, p, <<>>)
                        ELSE TakePair(b, g[k - 1])]

TakesPairs(g, b, p, n, r) ==
    /\ r = g[n]
    /\ Loops(g, Pair, p, n)
    /\ \A i \in 1..n : g[i] = TakePair(b, g[i - 1])

\* TakePairs, defined by CHOOSE, is the last of n turns of TakePair.
LEMMA PairsLoop ==
    \A b \in Run, p, n \in Nat : \E g : TakesPairs(g, b, p, n, TakePairs(b, p, n))
<1> SUFFICES ASSUME NEW b \in Run, NEW p \in Nat, NEW n \in Nat
             PROVE  \E g : TakesPairs(g, b, p, n, TakePairs(b, p, n))
    OBVIOUS
<1> DEFINE R == Readers(Seq(Pair))
           x == Reader(TRUE, p, <<>>)
           F == [q \in Nat \X R |-> TakePair(b, q[2])]
<1>1. x \in R
    BY DEF Readers, Reader
<1>2. \A r \in R : TakePair(b, r) \in R
    BY PairTurn
<1> HIDE DEF R, x
<1>3. F \in [Nat \X R -> R]
    BY <1>2
<1>4. \A i \in Nat, r \in R : F[<<i, r>>] = TakePair(b, r)
    OBVIOUS
<1> HIDE DEF F
<1>5. PICK f : Follows(f, R, x, F, n)
    BY <1>1, <1>3, Recursion, Zenon
<1>6. ASSUME NEW i \in 1..n PROVE f[i] = TakePair(b, f[i - 1])
  <2>1. i \in Nat /\ i - 1 \in 0..n
      OBVIOUS
  <2>2. f[i - 1] \in R
      BY <1>5, <2>1 DEF Follows
  <2>3. f[i] = F[<<i, f[i - 1]>>]
      BY <1>5, Zenon DEF Follows
  <2>4. QED
      BY <1>4, <2>1, <2>2, <2>3, Zenon
<1>7. f[0] = x /\ f = [i \in 0..n |-> f[i]] /\ \A i \in 0..n : f[i] \in R
    BY <1>5 DEF Follows
<1>8. IsPairsRun(f, b, p, n)
  <2>1. ASSUME NEW k \in 0..n
        PROVE  f[k] = IF k = 0 THEN x ELSE TakePair(b, f[k - 1])
    <3>1. CASE k = 0
        BY <1>7, <3>1
    <3>2. CASE k # 0
      <4>1. k \in 1..n
          BY <3>2
      <4>2. QED
          BY <1>6, <3>2, <4>1
    <3>3. QED
        BY <3>1, <3>2
  <2>2. QED
      BY <1>7, <2>1 DEF IsPairsRun, x
<1> DEFINE g == CHOOSE h : IsPairsRun(h, b, p, n)
<1>9. TakePairs(b, p, n) = g[n]
    BY Zenon DEF TakePairs, IsPairsRun
<1>10. IsPairsRun(g, b, p, n)
  <2> HIDE DEF IsPairsRun
  <2>1. QED
      BY <1>8
<1> HIDE DEF g
<1>11. \A k \in 0..n : g[k] = IF k = 0 THEN x ELSE TakePair(b, g[k - 1])
    BY <1>10, Zenon DEF IsPairsRun, x
<1>12. g[0] = x /\ \A i \in 1..n : g[i] = TakePair(b, g[i - 1])
  <2>1. 0 \in 0..n /\ \A i \in 1..n : i \in 0..n /\ i # 0
      OBVIOUS
  <2>2. QED
      BY <1>11, <2>1, Zenon
<1> DEFINE P == {i \in Nat : i <= n => g[i] \in R}
<1>13. 0 \in P
    BY <1>1, <1>12
<1>14. ASSUME NEW i \in 1..n, i - 1 \in P PROVE i \in P
  <2>1. g[i - 1] \in R /\ i \in Nat
      BY <1>14
  <2>2. g[i] \in R
      BY <1>2, <1>12, <2>1
  <2>3. QED
      BY <2>1, <2>2
<1>15. P \in SUBSET Nat
    OBVIOUS
<1> HIDE DEF P
<1>16. 0..n \subseteq P
    BY <1>13, <1>14, <1>15, Onward
<1>17. \A i \in 0..n : g[i] \in R
    BY <1>16 DEF P
<1>18. TakesPairs(g, b, p, n, TakePairs(b, p, n))
    BY <1>9, <1>12, <1>17, Zenon DEF TakesPairs, Loops, R, x
<1>19. QED
    BY <1>18

IsDevicesRun(g, b, p, n) ==
    g = [k \in 0..n |-> IF k = 0 THEN Reader(TRUE, p, <<>>)
                        ELSE TakeDevice(b, g[k - 1])]

TakesDevices(g, b, p, n, r) ==
    /\ r = g[n]
    /\ Loops(g, Device, p, n)
    /\ \A i \in 1..n : g[i] = TakeDevice(b, g[i - 1])

\* TakeDevices, defined by CHOOSE, is the last of n turns of TakeDevice.
LEMMA DevicesLoop ==
    \A b \in Run, p, n \in Nat : \E g : TakesDevices(g, b, p, n, TakeDevices(b, p, n))
<1> SUFFICES ASSUME NEW b \in Run, NEW p \in Nat, NEW n \in Nat
             PROVE  \E g : TakesDevices(g, b, p, n, TakeDevices(b, p, n))
    OBVIOUS
<1> DEFINE R == Readers(Seq(Device))
           x == Reader(TRUE, p, <<>>)
           F == [q \in Nat \X R |-> TakeDevice(b, q[2])]
<1>1. x \in R
    BY DEF Readers, Reader
<1>2. \A r \in R : TakeDevice(b, r) \in R
    BY DeviceTurn
<1> HIDE DEF R, x
<1>3. F \in [Nat \X R -> R]
    BY <1>2
<1>4. \A i \in Nat, r \in R : F[<<i, r>>] = TakeDevice(b, r)
    OBVIOUS
<1> HIDE DEF F
<1>5. PICK f : Follows(f, R, x, F, n)
    BY <1>1, <1>3, Recursion, Zenon
<1>6. ASSUME NEW i \in 1..n PROVE f[i] = TakeDevice(b, f[i - 1])
  <2>1. i \in Nat /\ i - 1 \in 0..n
      OBVIOUS
  <2>2. f[i - 1] \in R
      BY <1>5, <2>1 DEF Follows
  <2>3. f[i] = F[<<i, f[i - 1]>>]
      BY <1>5, Zenon DEF Follows
  <2>4. QED
      BY <1>4, <2>1, <2>2, <2>3, Zenon
<1>7. f[0] = x /\ f = [i \in 0..n |-> f[i]] /\ \A i \in 0..n : f[i] \in R
    BY <1>5 DEF Follows
<1>8. IsDevicesRun(f, b, p, n)
  <2>1. ASSUME NEW k \in 0..n
        PROVE  f[k] = IF k = 0 THEN x ELSE TakeDevice(b, f[k - 1])
    <3>1. CASE k = 0
        BY <1>7, <3>1
    <3>2. CASE k # 0
      <4>1. k \in 1..n
          BY <3>2
      <4>2. QED
          BY <1>6, <3>2, <4>1
    <3>3. QED
        BY <3>1, <3>2
  <2>2. QED
      BY <1>7, <2>1 DEF IsDevicesRun, x
<1> DEFINE g == CHOOSE h : IsDevicesRun(h, b, p, n)
<1>9. TakeDevices(b, p, n) = g[n]
    BY Zenon DEF TakeDevices, IsDevicesRun
<1>10. IsDevicesRun(g, b, p, n)
  <2> HIDE DEF IsDevicesRun
  <2>1. QED
      BY <1>8
<1> HIDE DEF g
<1>11. \A k \in 0..n : g[k] = IF k = 0 THEN x ELSE TakeDevice(b, g[k - 1])
    BY <1>10, Zenon DEF IsDevicesRun, x
<1>12. g[0] = x /\ \A i \in 1..n : g[i] = TakeDevice(b, g[i - 1])
  <2>1. 0 \in 0..n /\ \A i \in 1..n : i \in 0..n /\ i # 0
      OBVIOUS
  <2>2. QED
      BY <1>11, <2>1, Zenon
<1> DEFINE P == {i \in Nat : i <= n => g[i] \in R}
<1>13. 0 \in P
    BY <1>1, <1>12
<1>14. ASSUME NEW i \in 1..n, i - 1 \in P PROVE i \in P
  <2>1. g[i - 1] \in R /\ i \in Nat
      BY <1>14
  <2>2. g[i] \in R
      BY <1>2, <1>12, <2>1
  <2>3. QED
      BY <2>1, <2>2
<1>15. P \in SUBSET Nat
    OBVIOUS
<1> HIDE DEF P
<1>16. 0..n \subseteq P
    BY <1>13, <1>14, <1>15, Onward
<1>17. \A i \in 0..n : g[i] \in R
    BY <1>16 DEF P
<1>18. TakesDevices(g, b, p, n, TakeDevices(b, p, n))
    BY <1>9, <1>12, <1>17, Zenon DEF TakesDevices, Loops, R, x
<1>19. QED
    BY <1>18

\* No item is written as nothing.
LEMMA CodesLong ==
    /\ \A x \in Pair : Len(PairCode[x]) >= 1
    /\ \A x \in Device : Len(DeviceCode[x]) >= 1
<1>1. ASSUME NEW x \in Pair PROVE Len(PairCode[x]) >= 1
  <2>1. x.key \in Run /\ x.value \in Run
      BY CodesTyped, Zenon
  <2>2. Len(Text(x.key)) = 1 + Len(x.key)
      BY <2>1, TextParts, Zenon
  <2>3. /\ Len(PairCode[x]) = Len(Text(x.key)) + Len(Text(x.value))
        /\ Len(Text(x.value)) \in Nat
    <3>1. 0 \in Nat /\ <<>> \in Run
        BY EmptyFirst
    <3>2. QED
        BY <3>1, PairHeld, Zenon
  <2>4. Len(x.key) \in Nat
      BY <2>1 DEF Run
  <2>5. \A m, l \in Nat : 1 + m + l >= 1
      OBVIOUS
  <2>6. Len(Text(x.key)) + Len(Text(x.value)) >= 1
      BY <2>2, <2>3, <2>4, <2>5, Zenon
  <2>7. QED
      BY <2>3, <2>6, Zenon
<1>2. ASSUME NEW x \in Device PROVE Len(DeviceCode[x]) >= 1
  <2>1. Len(x) = 3 /\ DeviceCode[x] = x
      BY CodesTyped, Zenon
  <2>2. 3 >= 1
      OBVIOUS
  <2>3. QED
      BY <2>1, <2>2, Zenon
<1>3. QED
    BY <1>1, <1>2, Zenon

\* What the loop over the pairs finds, and that it finds what is there.
LEMMA PairsTaken ==
    ASSUME NEW b \in Run, NEW p \in Nat, NEW n \in Nat
    PROVE  LET r == TakePairs(b, p, n) IN
           /\ r \in Readers(Seq(Pair))
           /\ p <= Len(b) => Found(b, r, Pair, PairCode, p, n)
           /\ \A v \in Seq(Pair) :
                 /\ \A i \in 1..Len(v) : Utf8(v[i].key) /\ Utf8(v[i].value)
                 /\ Len(v) = n /\ Holds(b, p, Flat(PairCode, v))
                 => r = Reader(TRUE, p + Len(Flat(PairCode, v)), v)
<1> DEFINE r == TakePairs(b, p, n)
<1>1. PICK g : TakesPairs(g, b, p, n, r)
    BY PairsLoop
<1> HIDE DEF r
<1>2. /\ r = g[n] /\ Loops(g, Pair, p, n)
      /\ \A i \in 1..n : g[i] = TakePair(b, g[i - 1])
    BY <1>1, Zenon DEF TakesPairs
<1>3. PairCode \in [Pair -> Run]
    BY CodesTyped
<1>4. \A i \in 0..n : g[i] \in Readers(Seq(Pair))
    BY <1>2, Zenon DEF Loops
<1>5. ASSUME NEW i \in 1..n
      PROVE  /\ FindsOne(b, g[i - 1], g[i], Pair, PairCode)
             /\ \A x \in Pair : Utf8(x.key) /\ Utf8(x.value) =>
                   Takes(b, g[i - 1], g[i], x, PairCode)
  <2>1. i - 1 \in 0..n
      OBVIOUS
  <2>2. g[i - 1] \in Readers(Seq(Pair)) /\ g[i] = TakePair(b, g[i - 1])
      BY <1>2, <1>4, <2>1
  <2>3. QED
      BY <2>2, PairTurn, Zenon
<1>6. r \in Readers(Seq(Pair))
    BY <1>2, <1>4
<1>7. ASSUME p <= Len(b) PROVE Found(b, r, Pair, PairCode, p, n)
  <2>0. \A x \in Pair : Len(PairCode[x]) >= 1
      BY CodesLong
  <2>1. Found(b, g[n], Pair, PairCode, p, n)
      BY <1>2, <1>3, <1>5, <1>7, <2>0, LoopFinds, Zenon
  <2>2. QED
      BY <1>2, <2>1
<1>8. ASSUME NEW v \in Seq(Pair),
             \A i \in 1..Len(v) : Utf8(v[i].key) /\ Utf8(v[i].value),
             Len(v) = n, Holds(b, p, Flat(PairCode, v))
      PROVE  r = Reader(TRUE, p + Len(Flat(PairCode, v)), v)
  <2>0. Holds(b, p, Flat(PairCode, v))
      BY <1>8, Zenon
  <2>1. \A i \in 1..Len(v) : v[i] \in Pair
      BY ElementOfSeq
  <2>2. \A i \in 1..Len(v) : Takes(b, g[i - 1], g[i], v[i], PairCode)
      BY <1>5, <1>8, <2>1, Zenon
  <2>3. Loops(g, Pair, p, Len(v))
      BY <1>2, <1>8
  <2>4. Finding(g, b, Pair, PairCode, p, v)
      BY <2>0, <2>2, <2>3, Zenon DEF Finding
  <2>5. Ends(g, PairCode, p, v)
      BY <1>3, <2>4, LoopTakes, Zenon
  <2>6. QED
      BY <1>2, <1>8, <2>5, Zenon DEF Ends
<1>9. QED
    BY <1>6, <1>7, <1>8, Zenon DEF r

\* The same of the loop over the devices.
LEMMA DevicesTaken ==
    ASSUME NEW b \in Run, NEW p \in Nat, NEW n \in Nat
    PROVE  LET r == TakeDevices(b, p, n) IN
           /\ r \in Readers(Seq(Device))
           /\ p <= Len(b) => Found(b, r, Device, DeviceCode, p, n)
           /\ \A v \in Seq(Device) :
                 Len(v) = n /\ Holds(b, p, Flat(DeviceCode, v))
                 => r = Reader(TRUE, p + Len(Flat(DeviceCode, v)), v)
<1> DEFINE r == TakeDevices(b, p, n)
<1>1. PICK g : TakesDevices(g, b, p, n, r)
    BY DevicesLoop
<1> HIDE DEF r
<1>2. /\ r = g[n] /\ Loops(g, Device, p, n)
      /\ \A i \in 1..n : g[i] = TakeDevice(b, g[i - 1])
    BY <1>1, Zenon DEF TakesDevices
<1>3. DeviceCode \in [Device -> Run]
    BY CodesTyped
<1>4. \A i \in 0..n : g[i] \in Readers(Seq(Device))
    BY <1>2, Zenon DEF Loops
<1>5. ASSUME NEW i \in 1..n
      PROVE  /\ FindsOne(b, g[i - 1], g[i], Device, DeviceCode)
             /\ \A x \in Device : Takes(b, g[i - 1], g[i], x, DeviceCode)
  <2>1. i - 1 \in 0..n
      OBVIOUS
  <2>2. g[i - 1] \in Readers(Seq(Device)) /\ g[i] = TakeDevice(b, g[i - 1])
      BY <1>2, <1>4, <2>1
  <2>3. QED
      BY <2>2, DeviceTurn, Zenon
<1>6. r \in Readers(Seq(Device))
    BY <1>2, <1>4
<1>7. ASSUME p <= Len(b) PROVE Found(b, r, Device, DeviceCode, p, n)
  <2>0. \A x \in Device : Len(DeviceCode[x]) >= 1
      BY CodesLong
  <2>1. Found(b, g[n], Device, DeviceCode, p, n)
      BY <1>2, <1>3, <1>5, <1>7, <2>0, LoopFinds, Zenon
  <2>2. QED
      BY <1>2, <2>1
<1>8. ASSUME NEW v \in Seq(Device), Len(v) = n, Holds(b, p, Flat(DeviceCode, v))
      PROVE  r = Reader(TRUE, p + Len(Flat(DeviceCode, v)), v)
  <2>0. Holds(b, p, Flat(DeviceCode, v))
      BY <1>8, Zenon
  <2>1. \A i \in 1..Len(v) : v[i] \in Device
      BY ElementOfSeq
  <2>2. \A i \in 1..Len(v) : Takes(b, g[i - 1], g[i], v[i], DeviceCode)
      BY <1>5, <1>8, <2>1, Zenon
  <2>3. Loops(g, Device, p, Len(v))
      BY <1>2, <1>8
  <2>4. Finding(g, b, Device, DeviceCode, p, v)
      BY <2>0, <2>2, <2>3, Zenon DEF Finding
  <2>5. Ends(g, DeviceCode, p, v)
      BY <1>3, <2>4, LoopTakes, Zenon
  <2>6. QED
      BY <1>2, <1>8, <2>5, Zenon DEF Ends
<1>9. QED
    BY <1>6, <1>7, <1>8, Zenon DEF r

Whole(s, t, u, v, w, x) == s \o t \o u \o v \o w \o x

\* Six parts of a buffer, one behind the other.
Behind(b, s, t, u, v, w, x) ==
    /\ Holds(b, 0, s)
    /\ Holds(b, Len(s), t)
    /\ Holds(b, Len(s) + Len(t), u)
    /\ Holds(b, Len(s) + Len(t) + Len(u), v)
    /\ Holds(b, Len(s) + Len(t) + Len(u) + Len(v), w)
    /\ Holds(b, Len(s) + Len(t) + Len(u) + Len(v) + Len(w), x)

WholeLen(s, t, u, v, w, x) ==
    Len(s) + Len(t) + Len(u) + Len(v) + Len(w) + Len(x)

\* A run that is held from the start grows by what is held behind it.
LEMMA Longer ==
    \A b, e, t \in Run, n \in Nat : n = Len(e) =>
        /\ e \o t \in Run
        /\ n + Len(t) = Len(e \o t)
        /\ n + Len(t) \in Nat
        /\ Holds(b, 0, e \o t) <=> Holds(b, 0, e) /\ Holds(b, n, t)
<1> TAKE b, e, t \in Run, n \in Nat
<1> HAVE n = Len(e)
<1>1. e \o t \in Run /\ Len(e \o t) = Len(e) + Len(t)
    BY Joined, Zenon
<1>2. Len(t) \in Nat /\ Len(e) \in Nat
    BY DEF Run
<1>3. Holds(b, 0, e \o t) <=> Holds(b, 0, e) /\ Holds(b, 0 + Len(e), t)
  <2>1. 0 \in Nat
      OBVIOUS
  <2>2. QED
      BY <2>1, HoldsBoth, Zenon
<1>4. 0 + Len(e) = Len(e)
    BY <1>2
<1>5. Holds(b, 0, e \o t) <=> Holds(b, 0, e) /\ Holds(b, n, t)
    BY <1>3, <1>4, Zenon
<1>6. n + Len(t) = Len(e \o t) /\ n + Len(t) \in Nat
    BY <1>1, <1>2
<1>7. QED
    BY <1>1, <1>5, <1>6

\* Six parts joined are held where each is held behind the others.
LEMMA WholeHeld ==
    \A b, s, t, u, v, w, x \in Run :
        /\ Whole(s, t, u, v, w, x) \in Run
        /\ Len(Whole(s, t, u, v, w, x)) = WholeLen(s, t, u, v, w, x)
        /\ Holds(b, 0, Whole(s, t, u, v, w, x)) <=> Behind(b, s, t, u, v, w, x)
<1> TAKE b, s, t, u, v, w, x \in Run
<1> DEFINE e2 == s \o t
           e3 == e2 \o u
           e4 == e3 \o v
           e5 == e4 \o w
           e6 == e5 \o x
           n1 == Len(s)
           n2 == n1 + Len(t)
           n3 == n2 + Len(u)
           n4 == n3 + Len(v)
           n5 == n4 + Len(w)
           n6 == n5 + Len(x)
<1>0. n1 \in Nat /\ n1 = Len(s)
    BY DEF Run
<1> HIDE DEF n1
<1>2. /\ e2 \in Run /\ n2 = Len(e2) /\ n2 \in Nat
      /\ Holds(b, 0, e2) <=> Holds(b, 0, s) /\ Holds(b, n1, t)
    BY <1>0, Longer, Zenon
<1> HIDE DEF e2, n2
<1>3. /\ e3 \in Run /\ n3 = Len(e3) /\ n3 \in Nat
      /\ Holds(b, 0, e3) <=> Holds(b, 0, e2) /\ Holds(b, n2, u)
    BY <1>2, Longer, Zenon
<1> HIDE DEF e3, n3
<1>4. /\ e4 \in Run /\ n4 = Len(e4) /\ n4 \in Nat
      /\ Holds(b, 0, e4) <=> Holds(b, 0, e3) /\ Holds(b, n3, v)
    BY <1>3, Longer, Zenon
<1> HIDE DEF e4, n4
<1>5. /\ e5 \in Run /\ n5 = Len(e5) /\ n5 \in Nat
      /\ Holds(b, 0, e5) <=> Holds(b, 0, e4) /\ Holds(b, n4, w)
    BY <1>4, Longer, Zenon
<1> HIDE DEF e5, n5
<1>6. /\ e6 \in Run /\ n6 = Len(e6) /\ n6 \in Nat
      /\ Holds(b, 0, e6) <=> Holds(b, 0, e5) /\ Holds(b, n5, x)
    BY <1>5, Longer, Zenon
<1> HIDE DEF e6, n6
<1>7. Whole(s, t, u, v, w, x) = e6 /\ WholeLen(s, t, u, v, w, x) = n6
    BY Zenon DEF Whole, WholeLen, e2, e3, e4, e5, e6, n1, n2, n3, n4, n5, n6
<1>8. Behind(b, s, t, u, v, w, x) <=>
        /\ Holds(b, 0, s) /\ Holds(b, n1, t) /\ Holds(b, n2, u)
        /\ Holds(b, n3, v) /\ Holds(b, n4, w) /\ Holds(b, n5, x)
    BY Zenon DEF Behind, n1, n2, n3, n4, n5
<1>9. QED
    BY <1>2, <1>3, <1>4, <1>5, <1>6, <1>7, <1>8, Zenon

\* Plans as they are in memory, whatever they hold.
Plans ==
    [cpu_count : Nat, memory_bytes : Nat, boot_disk : Run,
     smbios_override : Seq(Pair), device_map : Seq(Device)]

\* What encode writes of a plan whose lengths the cast keeps.
Spec2(q) == <<q.cpu_count, q.memory_bytes>>
Count1(n) == <<n>>
PlanCells(q) ==
    Whole(Spec2(q), Text(q.boot_disk),
          Count1(Len(q.smbios_override)), Flat(PairCode, q.smbios_override),
          Count1(Len(q.device_map)), Flat(DeviceCode, q.device_map))

\* The fields of a plan.
LEMMA PlanFields ==
    \A q \in Plans :
        /\ q.cpu_count \in Nat /\ q.memory_bytes \in Nat
        /\ q.boot_disk \in Run
        /\ q.smbios_override \in Seq(Pair) /\ Len(q.smbios_override) \in Nat
        /\ q.device_map \in Seq(Device) /\ Len(q.device_map) \in Nat
        /\ q = [cpu_count |-> q.cpu_count, memory_bytes |-> q.memory_bytes,
                boot_disk |-> q.boot_disk, smbios_override |-> q.smbios_override,
                device_map |-> q.device_map]
  BY DEF Plans

\* The six parts of an encoded plan are runs.
LEMMA PartsTyped ==
    \A q \in Plans :
        /\ Spec2(q) \in Run /\ Len(Spec2(q)) = 2
        /\ Spec2(q)[1] = q.cpu_count /\ Spec2(q)[2] = q.memory_bytes
        /\ Text(q.boot_disk) \in Run
        /\ \A n \in Nat : Count1(n) \in Run /\ Len(Count1(n)) = 1 /\ Count1(n)[1] = n
        /\ Flat(PairCode, q.smbios_override) \in Run
        /\ Flat(DeviceCode, q.device_map) \in Run
<1> TAKE q \in Plans
<1>1. /\ q.cpu_count \in Nat /\ q.memory_bytes \in Nat /\ q.boot_disk \in Run
      /\ q.smbios_override \in Seq(Pair) /\ q.device_map \in Seq(Device)
    BY PlanFields
<1>2. /\ Spec2(q) \in Run /\ Len(Spec2(q)) = 2
      /\ Spec2(q)[1] = q.cpu_count /\ Spec2(q)[2] = q.memory_bytes
    BY <1>1 DEF Spec2, Run
<1>3. \A n \in Nat : Count1(n) \in Run /\ Len(Count1(n)) = 1 /\ Count1(n)[1] = n
    BY DEF Count1, Run
<1>4. Text(q.boot_disk) \in Run
    BY <1>1, TextParts, Zenon
<1>5. Flat(PairCode, q.smbios_override) \in Run /\ Flat(DeviceCode, q.device_map) \in Run
    BY <1>1, CodesTyped, FlatOneMore, Zenon
<1>6. QED
    BY <1>2, <1>3, <1>4, <1>5, Zenon

\* The cast to u32 keeps a length that is below its span.
LEMMA CastKeeps ==
    ASSUME LenSpan \in Nat \ {0}
    PROVE  \A s : Len(s) \in Nat /\ Len(s) < LenSpan =>
               /\ Count(s) = Len(s)
               /\ EncodeString(s) = Text(s)
<1> SUFFICES ASSUME NEW s, Len(s) \in Nat, Len(s) < LenSpan
             PROVE  Count(s) = Len(s) /\ EncodeString(s) = Text(s)
    OBVIOUS
<1>1. \A n, m \in Nat : n < m => n % m = n
    OBVIOUS
<1>2. LenSpan \in Nat
    OBVIOUS
<1>3. Count(s) = Len(s)
    BY <1>1, <1>2, Zenon DEF Count
<1>4. QED
    BY <1>3, Zenon DEF EncodeString, Text

\* encode writes these cells.
LEMMA EncodeCells ==
    ASSUME LenSpan \in Nat \ {0}, NEW q \in Plans, Fits(q)
    PROVE  EncodePlan(q) = PlanCells(q)
<1>1. /\ q.boot_disk \in Run /\ q.smbios_override \in Seq(Pair)
      /\ q.device_map \in Seq(Device)
      /\ Len(q.boot_disk) \in Nat /\ Len(q.smbios_override) \in Nat
      /\ Len(q.device_map) \in Nat
    BY PlanFields DEF Run
<1>2. /\ Len(q.boot_disk) < LenSpan
      /\ Len(q.smbios_override) < LenSpan /\ Len(q.device_map) < LenSpan
      /\ \A i \in DOMAIN q.smbios_override :
            /\ Len(q.smbios_override[i].key) < LenSpan
            /\ Len(q.smbios_override[i].value) < LenSpan
    BY Zenon DEF Fits
<1>3. /\ EncodeString(q.boot_disk) = Text(q.boot_disk)
      /\ Count(q.smbios_override) = Len(q.smbios_override)
      /\ Count(q.device_map) = Len(q.device_map)
    BY <1>1, <1>2, CastKeeps, Zenon
<1>4. EncodePairs(q.smbios_override) = Flat(PairCode, q.smbios_override)
  <2> DEFINE v == q.smbios_override
  <2>1. v \in Seq(Pair) /\ DOMAIN v = 1..Len(v)
      BY <1>1
  <2>2. \A i \in DOMAIN v : v[i] \in Pair
      BY <2>1, ElementOfSeq
  <2>3. ASSUME NEW i \in DOMAIN v PROVE EncodePair(v[i]) = PairCode[v[i]]
    <3>1. v[i].key \in Run /\ v[i].value \in Run
        BY <2>2, CodesTyped, Zenon
    <3>2. Len(v[i].key) \in Nat /\ Len(v[i].value) \in Nat
        BY <3>1 DEF Run
    <3>3. Len(v[i].key) < LenSpan /\ Len(v[i].value) < LenSpan
        BY <1>2, Zenon
    <3>4. /\ EncodeString(v[i].key) = Text(v[i].key)
          /\ EncodeString(v[i].value) = Text(v[i].value)
        BY <3>2, <3>3, CastKeeps, Zenon
    <3>5. PairCode[v[i]] = Text(v[i].key) \o Text(v[i].value)
        BY <2>2, CodesTyped, Zenon
    <3>6. QED
        BY <3>4, <3>5, Zenon DEF EncodePair
  <2> HIDE DEF v
  <2>4. [i \in DOMAIN v |-> EncodePair(v[i])] = [i \in DOMAIN v |-> PairCode[v[i]]]
      BY <2>3
  <2>5. QED
      BY <2>4, Zenon DEF EncodePairs, Flat, v
<1>5. FlattenSeq(q.device_map) = Flat(DeviceCode, q.device_map)
  <2> DEFINE v == q.device_map
  <2>1. v \in Seq(Device) /\ DOMAIN v = 1..Len(v)
      BY <1>1
  <2>2. \A i \in DOMAIN v : DeviceCode[v[i]] = v[i]
      BY <2>1, ElementOfSeq, CodesTyped
  <2> HIDE DEF v
  <2>3. v = [i \in DOMAIN v |-> v[i]]
      BY <2>1
  <2>4. [i \in DOMAIN v |-> DeviceCode[v[i]]] = [i \in DOMAIN v |-> v[i]]
      BY <2>2
  <2>5. [i \in DOMAIN v |-> DeviceCode[v[i]]] = v
      BY <2>3, <2>4
  <2>6. QED
      BY <2>5, Zenon DEF Flat, v
<1>6. EncodePlan(q) =
        <<q.cpu_count, q.memory_bytes>> \o EncodeString(q.boot_disk)
        \o <<Count(q.smbios_override)>> \o EncodePairs(q.smbios_override)
        \o <<Count(q.device_map)>> \o FlattenSeq(q.device_map)
    BY Zenon DEF EncodePlan
<1>7. QED
    BY <1>3, <1>4, <1>5, <1>6, Zenon DEF PlanCells, Whole, Spec2, Count1

\* The readers of decode, in its order, and what it makes of them.
Reading(b, spec, disk, pairs, smbios, maps, devices) ==
    /\ spec = TakeCells(b, 0, 2)
    /\ disk = TakeString(b, spec.p)
    /\ pairs = TakeCells(b, disk.p, 1)
    /\ smbios = Counted(pairs, TakePairs(b, pairs.p, pairs.value[1]))
    /\ maps = TakeCells(b, smbios.p, 1)
    /\ devices = Counted(maps, TakeDevices(b, maps.p, maps.value[1]))

Valid(b, spec, disk, smbios, devices) ==
    /\ spec.ok
    /\ ~SpecError(spec.value[1], spec.value[2])
    /\ disk.ok /\ disk.value # <<>>
    /\ smbios.ok
    /\ devices.ok
    /\ Complete(b, devices.p)

Made(spec, disk, smbios, devices) ==
    [cpu_count |-> spec.value[1], memory_bytes |-> spec.value[2],
     boot_disk |-> disk.value, smbios_override |-> smbios.value,
     device_map |-> devices.value]

\* decode is what its readers and its checks make of them.
LEMMA Readings ==
    \A b : \E spec, disk, pairs, smbios, maps, devices :
        /\ Reading(b, spec, disk, pairs, smbios, maps, devices)
        /\ DecodePlan(b).ok <=> Valid(b, spec, disk, smbios, devices)
        /\ DecodePlan(b).ok => DecodePlan(b).plan = Made(spec, disk, smbios, devices)
<1> TAKE b
<1> DEFINE spec == TakeCells(b, 0, 2)
           disk == TakeString(b, spec.p)
           pairs == TakeCells(b, disk.p, 1)
           smbios == Counted(pairs, TakePairs(b, pairs.p, pairs.value[1]))
           maps == TakeCells(b, smbios.p, 1)
           devices == Counted(maps, TakeDevices(b, maps.p, maps.value[1]))
           V == Valid(b, spec, disk, smbios, devices)
           M == Made(spec, disk, smbios, devices)
<1>1. Reading(b, spec, disk, pairs, smbios, maps, devices)
    BY Zenon DEF Reading
<1>2. DecodePlan(b) = [ok |-> V, plan |-> IF ~V THEN [boot_disk |-> <<>>] ELSE M]
    BY Zenon DEF DecodePlan, Valid, Made
<1> HIDE DEF spec, disk, pairs, smbios, maps, devices, V, M
<1>3. V \in BOOLEAN
    BY Zenon DEF V, Valid
<1>4. DecodePlan(b).ok = V /\ (V => DecodePlan(b).plan = M)
    BY <1>2
<1>5. /\ DecodePlan(b).ok <=> V
      /\ DecodePlan(b).ok => DecodePlan(b).plan = M
    BY <1>3, <1>4, Zenon
<1>6. QED
    BY <1>1, <1>5, Zenon DEF V, M

\* Nothing that the buffer announces in a cell reaches the cast.
Limits(b) == (\A i \in 1..Len(b) : b[i] < LenSpan) \/ Len(b) < LenSpan

\* A count in a buffer is the one cell where it stands.
LEMMA Counts ==
    \A b, c \in Run, p \in Nat : Holds(b, p, c) /\ Len(c) = 1 =>
        /\ c = Count1(c[1]) /\ c[1] \in Nat
        /\ p + 1 \in 1..Len(b) /\ b[p + 1] = c[1]
<1> TAKE b, c \in Run, p \in Nat
<1> HAVE Holds(b, p, c) /\ Len(c) = 1
<1>1. 1 \in 1..Len(c) /\ Len(b) \in Nat
    BY DEF Run
<1>2. c[1] \in Nat
    BY <1>1, ElementOfSeq DEF Run
<1>3. p + 1 <= Len(b) /\ b[p + 1] = c[1]
    BY <1>1 DEF Holds
<1>4. c = <<c[1]>>
    BY DEF Run
<1>5. QED
    BY <1>1, <1>2, <1>3, <1>4 DEF Count1

\* A string that the buffer holds keeps its length in the cast.
LEMMA Limited ==
    ASSUME LenSpan \in Nat
    PROVE  \A b, s \in Run, p \in Nat :
               Limits(b) /\ Holds(b, p, Text(s)) => Len(s) < LenSpan
<1> TAKE b, s \in Run, p \in Nat
<1> HAVE Limits(b) /\ Holds(b, p, Text(s))
<1> DEFINE c == <<Len(s)>>
<1>1. /\ c \in Run /\ Len(c) = 1 /\ c[1] = Len(s)
      /\ Holds(b, p, c) /\ Holds(b, p + 1, s)
    BY TextParts, Zenon
<1> HIDE DEF c
<1>2. p + 1 \in 1..Len(b) /\ b[p + 1] = Len(s)
  <2>1. p + 1 \in 1..Len(b) /\ b[p + 1] = c[1]
      BY <1>1, Counts, Zenon
  <2>2. QED
      BY <1>1, <2>1, Zenon
<1>3. Len(s) \in Nat /\ Len(b) \in Nat
    BY DEF Run
<1>4. CASE \A i \in 1..Len(b) : b[i] < LenSpan
  <2>1. b[p + 1] < LenSpan
      BY <1>2, <1>4, Zenon
  <2>2. QED
      BY <1>2, <2>1, Zenon
<1>5. CASE Len(b) < LenSpan
  <2>1. p + 1 + Len(s) <= Len(b)
      BY <1>1, Zenon DEF Holds
  <2>2. Len(s) <= Len(b)
      BY <1>3, <2>1
  <2>3. QED
      BY <1>3, <1>5, <2>2
<1>6. QED
    BY <1>4, <1>5, Zenon DEF Limits

\* A count that is read is held where it was read.
LEMMA CountRead ==
    \A b \in Run, p \in Nat : \A r : r = TakeCells(b, p, 1) /\ r.ok =>
        /\ r.value \in Run /\ r.p \in Nat
        /\ Len(r.value) = 1 /\ r.p = p + 1 /\ Holds(b, p, r.value)
<1> TAKE b \in Run, p \in Nat
<1> TAKE r
<1> HAVE r = TakeCells(b, p, 1) /\ r.ok
<1>1. 1 \in Nat
    OBVIOUS
<1>2. /\ r \in Readers(Run)
      /\ Len(r.value) = 1 /\ r.p = p + 1 /\ Holds(b, p, r.value)
    BY <1>1, CellsTaken, Zenon
<1>3. QED
    BY <1>2 DEF Readers

\* What a plan holds that was read from the cells b.
Read(b, q) ==
    /\ q \in Plans
    /\ PlanCells(q) = b
    /\ ~SpecError(q.cpu_count, q.memory_bytes)
    /\ q.boot_disk # <<>>

\* A buffer that decodes is the cells of its plan, whose lengths all fit the cast.
LEMMA DecodeForward ==
    ASSUME NEW b \in Run,
           NEW spec, NEW disk, NEW pairs, NEW smbios, NEW maps, NEW devices,
           Reading(b, spec, disk, pairs, smbios, maps, devices),
           Valid(b, spec, disk, smbios, devices)
    PROVE  /\ Read(b, Made(spec, disk, smbios, devices))
           /\ LenSpan \in Nat /\ Limits(b) =>
                 Fits(Made(spec, disk, smbios, devices))
<1>1. /\ spec.ok /\ disk.ok /\ smbios.ok /\ devices.ok
      /\ ~SpecError(spec.value[1], spec.value[2])
      /\ disk.value # <<>> /\ devices.p = Len(b)
    BY Zenon DEF Valid, Complete
<1>2. /\ spec = TakeCells(b, 0, 2)
      /\ disk = TakeString(b, spec.p)
      /\ pairs = TakeCells(b, disk.p, 1)
      /\ smbios = Counted(pairs, TakePairs(b, pairs.p, pairs.value[1]))
      /\ maps = TakeCells(b, smbios.p, 1)
      /\ devices = Counted(maps, TakeDevices(b, maps.p, maps.value[1]))
    BY Zenon DEF Reading
<1>3. pairs.ok /\ smbios = TakePairs(b, pairs.p, pairs.value[1])
    BY <1>1, <1>2, Zenon DEF Counted
<1>4. maps.ok /\ devices = TakeDevices(b, maps.p, maps.value[1])
    BY <1>1, <1>2, Zenon DEF Counted
<1>5. /\ spec.value \in Run /\ spec.p \in Nat
      /\ Len(spec.value) = 2 /\ spec.p = 0 + 2 /\ Holds(b, 0, spec.value)
  <2>1. 0 \in Nat /\ 2 \in Nat
      OBVIOUS
  <2>2. /\ spec \in Readers(Run)
        /\ Len(spec.value) = 2 /\ spec.p = 0 + 2 /\ Holds(b, 0, spec.value)
      BY <1>1, <1>2, <2>1, CellsTaken, Zenon
  <2>3. QED
      BY <2>2 DEF Readers
<1>6. /\ disk.value \in Run /\ disk.p \in Nat
      /\ Holds(b, spec.p, Text(disk.value)) /\ disk.p = spec.p + Len(Text(disk.value))
  <2>1. /\ disk \in Readers(Run)
        /\ Holds(b, spec.p, Text(disk.value)) /\ disk.p = spec.p + Len(Text(disk.value))
      BY <1>1, <1>2, <1>5, StringTaken, Zenon
  <2>2. QED
      BY <2>1 DEF Readers
<1>7. /\ pairs.value \in Run /\ pairs.p \in Nat
      /\ Len(pairs.value) = 1 /\ pairs.p = disk.p + 1 /\ Holds(b, disk.p, pairs.value)
    BY <1>2, <1>3, <1>6, CountRead, Zenon
<1> DEFINE n == pairs.value[1]
<1>8. /\ pairs.value = Count1(n) /\ n \in Nat
      /\ disk.p + 1 \in 1..Len(b) /\ b[disk.p + 1] = n
    BY <1>6, <1>7, Counts, Zenon
<1> HIDE DEF n
<1>9. Len(b) \in Nat /\ pairs.p <= Len(b)
    BY <1>7, <1>8 DEF Run
<1>10. /\ smbios \in Readers(Seq(Pair))
       /\ Found(b, smbios, Pair, PairCode, pairs.p, n)
    BY <1>3, <1>7, <1>8, <1>9, PairsTaken, Zenon DEF n
<1>11. /\ smbios.value \in Seq(Pair) /\ smbios.p \in Nat
       /\ Len(smbios.value) = n
       /\ Holds(b, pairs.p, Flat(PairCode, smbios.value))
       /\ smbios.p = pairs.p + Len(Flat(PairCode, smbios.value))
       /\ n <= Len(Flat(PairCode, smbios.value))
       /\ \A i \in 1..n : \E k \in Nat : Holds(b, k, PairCode[smbios.value[i]])
  <2>1. smbios.value \in Seq(Pair) /\ smbios.p \in Nat
      BY <1>10 DEF Readers
  <2>2. QED
      BY <1>1, <1>10, <2>1, Zenon DEF Found
<1>12. /\ maps.value \in Run /\ maps.p \in Nat
       /\ Len(maps.value) = 1 /\ maps.p = smbios.p + 1 /\ Holds(b, smbios.p, maps.value)
  <2>1. maps = TakeCells(b, smbios.p, 1) /\ maps.ok /\ smbios.p \in Nat
      BY <1>2, <1>4, <1>11, Zenon
  <2>2. QED
      BY <2>1, CountRead, Zenon
<1> DEFINE m == maps.value[1]
<1>13. /\ maps.value = Count1(m) /\ m \in Nat
       /\ smbios.p + 1 \in 1..Len(b) /\ b[smbios.p + 1] = m
    BY <1>11, <1>12, Counts, Zenon
<1> HIDE DEF m
<1>14. maps.p <= Len(b)
    BY <1>9, <1>12, <1>13
<1>15. /\ devices \in Readers(Seq(Device))
       /\ Found(b, devices, Device, DeviceCode, maps.p, m)
    BY <1>4, <1>12, <1>13, <1>14, DevicesTaken, Zenon DEF m
<1>16. /\ devices.value \in Seq(Device) /\ devices.p \in Nat
       /\ Len(devices.value) = m
       /\ Holds(b, maps.p, Flat(DeviceCode, devices.value))
       /\ devices.p = maps.p + Len(Flat(DeviceCode, devices.value))
       /\ m <= Len(Flat(DeviceCode, devices.value))
  <2>1. devices.value \in Seq(Device) /\ devices.p \in Nat
      BY <1>15 DEF Readers
  <2>2. QED
      BY <1>1, <1>15, <2>1, Zenon DEF Found
<1> DEFINE q == Made(spec, disk, smbios, devices)
<1>17. spec.value[1] \in Nat /\ spec.value[2] \in Nat
       /\ spec.value = <<spec.value[1], spec.value[2]>>
  <2>1. 1 \in 1..Len(spec.value) /\ 2 \in 1..Len(spec.value)
      BY <1>5
  <2>2. spec.value[1] \in Nat /\ spec.value[2] \in Nat
      BY <1>5, <2>1, ElementOfSeq DEF Run
  <2>3. QED
      BY <1>5, <2>2 DEF Run
<1>18. /\ q.cpu_count = spec.value[1] /\ q.memory_bytes = spec.value[2]
       /\ q.boot_disk = disk.value /\ q.smbios_override = smbios.value
       /\ q.device_map = devices.value
    BY DEF Made
<1>19. q \in Plans
    BY <1>6, <1>11, <1>16, <1>17, Zenon DEF Made, Plans
<1> HIDE DEF q
<1> DEFINE t == Text(q.boot_disk)
           v == Flat(PairCode, q.smbios_override)
           x == Flat(DeviceCode, q.device_map)
           cn == Count1(Len(q.smbios_override))
           cm == Count1(Len(q.device_map))
<1>20. /\ Spec2(q) = spec.value
       /\ cn = pairs.value /\ Len(q.smbios_override) = n
       /\ cm = maps.value /\ Len(q.device_map) = m
    BY <1>8, <1>11, <1>13, <1>16, <1>17, <1>18, Zenon DEF Spec2
<1>21. t \in Run /\ v \in Run /\ x \in Run /\ cn \in Run /\ cm \in Run /\ Spec2(q) \in Run
       /\ Len(Spec2(q)) = 2 /\ Len(cn) = 1 /\ Len(cm) = 1
    BY <1>5, <1>7, <1>12, <1>19, <1>20, PartsTyped, Zenon
<1>22. Len(t) \in Nat /\ Len(v) \in Nat /\ Len(x) \in Nat
    BY <1>21 DEF Run
<1>23. /\ Holds(b, 0, Spec2(q)) /\ Holds(b, spec.p, t) /\ Holds(b, disk.p, cn)
       /\ Holds(b, pairs.p, v) /\ Holds(b, smbios.p, cm) /\ Holds(b, maps.p, x)
       /\ disk.p = spec.p + Len(t) /\ smbios.p = pairs.p + Len(v)
       /\ devices.p = maps.p + Len(x)
       /\ n <= Len(v) /\ m <= Len(x)
    BY <1>5, <1>6, <1>7, <1>11, <1>12, <1>16, <1>18, <1>20, Zenon
<1> HIDE DEF t, v, x, cn, cm
<1>24. /\ spec.p = Len(Spec2(q))
       /\ disk.p = Len(Spec2(q)) + Len(t)
       /\ pairs.p = Len(Spec2(q)) + Len(t) + Len(cn)
       /\ smbios.p = Len(Spec2(q)) + Len(t) + Len(cn) + Len(v)
       /\ maps.p = Len(Spec2(q)) + Len(t) + Len(cn) + Len(v) + Len(cm)
       /\ devices.p = WholeLen(Spec2(q), t, cn, v, cm, x)
    BY <1>5, <1>7, <1>12, <1>21, <1>22, <1>23 DEF WholeLen
<1>25. Behind(b, Spec2(q), t, cn, v, cm, x)
    BY <1>23, <1>24, Zenon DEF Behind
<1> DEFINE w == Whole(Spec2(q), t, cn, v, cm, x)
<1>26. w \in Run /\ Len(w) = Len(b) /\ Holds(b, 0, w)
  <2> DEFINE s == Spec2(q)
  <2>1. /\ s \in Run /\ t \in Run /\ cn \in Run /\ v \in Run /\ cm \in Run /\ x \in Run
        /\ Behind(b, s, t, cn, v, cm, x)
        /\ WholeLen(s, t, cn, v, cm, x) = Len(b)
      BY <1>1, <1>21, <1>24, <1>25, Zenon
  <2> HIDE DEF s
  <2>2. /\ Whole(s, t, cn, v, cm, x) \in Run
        /\ Len(Whole(s, t, cn, v, cm, x)) = WholeLen(s, t, cn, v, cm, x)
        /\ Holds(b, 0, Whole(s, t, cn, v, cm, x)) <=> Behind(b, s, t, cn, v, cm, x)
      BY <2>1, WholeHeld, Zenon
  <2>3. QED
      BY <2>1, <2>2, Zenon DEF s
<1>27. w = PlanCells(q)
    BY Zenon DEF PlanCells, t, cn, v, cm, x
<1> HIDE DEF w
<1>28. PlanCells(q) = b
    BY <1>26, <1>27, HoldsAll, Zenon
<1>29. Read(b, q)
    BY <1>1, <1>18, <1>19, <1>28, Zenon DEF Read
<1>30. ASSUME LenSpan \in Nat, Limits(b) PROVE Fits(q)
  <2>1. Len(q.boot_disk) < LenSpan
      BY <1>5, <1>6, <1>18, <1>30, Limited, Zenon
  <2>2. n < LenSpan /\ m < LenSpan
    <3>1. CASE \A i \in 1..Len(b) : b[i] < LenSpan
        BY <1>8, <1>13, <3>1, Zenon
    <3>2. CASE Len(b) < LenSpan
      <4>1. n < LenSpan
        <5>1. pairs.p + Len(v) <= Len(b)
            BY <1>23, Zenon DEF Holds
        <5>2. QED
            BY <1>7, <1>8, <1>9, <1>22, <1>23, <1>30, <3>2, <5>1
      <4>2. m < LenSpan
        <5>1. maps.p + Len(x) <= Len(b)
            BY <1>23, Zenon DEF Holds
        <5>2. QED
            BY <1>9, <1>12, <1>13, <1>22, <1>23, <1>30, <3>2, <5>1
      <4>3. QED
          BY <4>1, <4>2
    <3>3. QED
        BY <1>30, <3>1, <3>2, Zenon DEF Limits
  <2>3. ASSUME NEW i \in DOMAIN q.smbios_override
        PROVE  /\ Len(q.smbios_override[i].key) < LenSpan
               /\ Len(q.smbios_override[i].value) < LenSpan
    <3> DEFINE y == smbios.value[i]
    <3>1. i \in 1..n /\ i \in 1..Len(smbios.value)
        BY <1>11, <1>18
    <3>2. y \in Pair
        BY <1>11, <3>1, ElementOfSeq
    <3>3. PICK k \in Nat : Holds(b, k, PairCode[y])
        BY <1>11, <3>1, Zenon
    <3> HIDE DEF y
    <3>4. y.key \in Run /\ y.value \in Run
        BY <3>2, CodesTyped, Zenon
    <3>5. /\ Holds(b, k, Text(y.key)) /\ Holds(b, k + Len(Text(y.key)), Text(y.value))
          /\ Len(Text(y.key)) \in Nat
        BY <3>2, <3>3, PairHeld, Zenon
    <3>6. k + Len(Text(y.key)) \in Nat
        BY <3>5
    <3>7. Len(y.key) < LenSpan /\ Len(y.value) < LenSpan
        BY <1>30, <3>4, <3>5, <3>6, Limited, Zenon
    <3>8. QED
        BY <1>18, <3>7, Zenon DEF y
  <2>4. QED
      BY <1>20, <2>1, <2>2, <2>3, Zenon DEF Fits
<1>31. QED
    BY <1>29, <1>30, Zenon DEF q

\* A plan whose strings are strings, with a disk.
Sound(q) ==
    /\ q \in Plans
    /\ Utf8(q.boot_disk) /\ q.boot_disk # <<>>
    /\ \A i \in 1..Len(q.smbios_override) :
          Utf8(q.smbios_override[i].key) /\ Utf8(q.smbios_override[i].value)

\* The reader r has got v and stands at p.
Gets(r, p, v) == r.ok /\ r.p = p /\ r.value = v

\* The reader of a value has got it.
LEMMA ReaderGets == \A p, v : Gets(Reader(TRUE, p, v), p, v)
  BY DEF Gets, Reader

\* take finds the cells that are there.
LEMMA CellsFound ==
    \A b \in Run, p, n \in Nat, e \in Run :
        Holds(b, p, e) /\ Len(e) = n => Gets(TakeCells(b, p, n), p + n, e)
<1> SUFFICES ASSUME NEW b \in Run, NEW p \in Nat, NEW n \in Nat, NEW e \in Run,
                    Holds(b, p, e), Len(e) = n
             PROVE  Gets(TakeCells(b, p, n), p + n, e)
    OBVIOUS
<1> DEFINE s == SubSeq(b, p + 1, p + n)
<1>1. p + n <= Len(b) /\ ~ (p + n > Len(b))
    BY DEF Holds, Run
<1>2. s \in Run /\ Len(s) = n /\ \A i \in 1..n : s[i] = b[p + i]
    BY <1>1, PartOf
<1>3. TakeCells(b, p, n) = Reader(TRUE, p + n, s)
    BY <1>1, Zenon DEF TakeCells
<1> HIDE DEF s
<1>4. e = s
  <2>1. \A i \in 1..n : e[i] = s[i]
      BY <1>2 DEF Holds
  <2>2. QED
      BY <1>2, <2>1 DEF Run
<1>5. QED
    BY <1>3, <1>4, ReaderGets, Zenon

\* A string that is there is read.
LEMMA StringFound ==
    \A b \in Run, p \in Nat, s \in Run :
        Holds(b, p, Text(s)) /\ Utf8(s)
            => Gets(TakeString(b, p), p + Len(Text(s)), s)
<1> SUFFICES ASSUME NEW b \in Run, NEW p \in Nat, NEW s \in Run,
                    Holds(b, p, Text(s)), Utf8(s)
             PROVE  Gets(TakeString(b, p), p + Len(Text(s)), s)
    BY Zenon
<1>1. TakeString(b, p) = Reader(Utf8(s), p + Len(Text(s)), s)
    BY StringTaken, Zenon DEF Utf8
<1>2. Utf8(s) = TRUE
    OBVIOUS
<1>3. QED
    BY <1>1, <1>2, ReaderGets, Zenon

\* The pairs that are there are read, in their order.
LEMMA PairsFound ==
    \A b \in Run, p \in Nat, v \in Seq(Pair) :
        /\ Holds(b, p, Flat(PairCode, v))
        /\ \A i \in 1..Len(v) : Utf8(v[i].key) /\ Utf8(v[i].value)
        => Gets(TakePairs(b, p, Len(v)), p + Len(Flat(PairCode, v)), v)
<1> SUFFICES ASSUME NEW b \in Run, NEW p \in Nat, NEW v \in Seq(Pair),
                    Holds(b, p, Flat(PairCode, v)),
                    \A i \in 1..Len(v) : Utf8(v[i].key) /\ Utf8(v[i].value)
             PROVE  Gets(TakePairs(b, p, Len(v)), p + Len(Flat(PairCode, v)), v)
    BY Zenon
<1> DEFINE n == Len(v)
<1>1. n \in Nat /\ Len(v) = n
    OBVIOUS
<1> HIDE DEF n
<1>2. TakePairs(b, p, n) = Reader(TRUE, p + Len(Flat(PairCode, v)), v)
    BY <1>1, PairsTaken, Zenon
<1>3. QED
    BY <1>1, <1>2, ReaderGets, Zenon

\* The devices that are there are read, in their order.
LEMMA DevicesFound ==
    \A b \in Run, p \in Nat, v \in Seq(Device) :
        Holds(b, p, Flat(DeviceCode, v))
        => Gets(TakeDevices(b, p, Len(v)), p + Len(Flat(DeviceCode, v)), v)
<1> SUFFICES ASSUME NEW b \in Run, NEW p \in Nat, NEW v \in Seq(Device),
                    Holds(b, p, Flat(DeviceCode, v))
             PROVE  Gets(TakeDevices(b, p, Len(v)), p + Len(Flat(DeviceCode, v)), v)
    BY Zenon
<1> DEFINE n == Len(v)
<1>1. n \in Nat /\ Len(v) = n
    OBVIOUS
<1> HIDE DEF n
<1>2. TakeDevices(b, p, n) = Reader(TRUE, p + Len(Flat(DeviceCode, v)), v)
    BY <1>1, DevicesTaken, Zenon
<1>3. QED
    BY <1>1, <1>2, ReaderGets, Zenon

\* What was read is q, and is valid as the spec of q is.
Returned(b, spec, disk, smbios, devices, q) ==
    /\ Valid(b, spec, disk, smbios, devices) <=>
          ~SpecError(q.cpu_count, q.memory_bytes)
    /\ Made(spec, disk, smbios, devices) = q

\* The readers find its cells again, up to the end.
LEMMA DecodeBack ==
    ASSUME NEW q, Sound(q), NEW b, PlanCells(q) = b,
           NEW spec, NEW disk, NEW pairs, NEW smbios, NEW maps, NEW devices,
           Reading(b, spec, disk, pairs, smbios, maps, devices)
    PROVE  Returned(b, spec, disk, smbios, devices, q)
<1>1. /\ q \in Plans /\ Utf8(q.boot_disk) /\ q.boot_disk # <<>>
      /\ \A i \in 1..Len(q.smbios_override) :
            Utf8(q.smbios_override[i].key) /\ Utf8(q.smbios_override[i].value)
    BY Zenon DEF Sound
<1>2. /\ spec = TakeCells(b, 0, 2)
      /\ disk = TakeString(b, spec.p)
      /\ pairs = TakeCells(b, disk.p, 1)
      /\ smbios = Counted(pairs, TakePairs(b, pairs.p, pairs.value[1]))
      /\ maps = TakeCells(b, smbios.p, 1)
      /\ devices = Counted(maps, TakeDevices(b, maps.p, maps.value[1]))
    BY Zenon DEF Reading
<1> DEFINE s == Spec2(q)
           t == Text(q.boot_disk)
           n == Len(q.smbios_override)
           cn == Count1(n)
           v == Flat(PairCode, q.smbios_override)
           m == Len(q.device_map)
           cm == Count1(m)
           x == Flat(DeviceCode, q.device_map)
           d == q.boot_disk
           ps == q.smbios_override
           ds == q.device_map
<1>3. /\ d \in Run /\ ps \in Seq(Pair) /\ ds \in Seq(Device) /\ n \in Nat /\ m \in Nat
      /\ n = Len(ps) /\ m = Len(ds)
    BY <1>1, PlanFields, Zenon
<1>4. /\ s \in Run /\ t \in Run /\ cn \in Run /\ v \in Run /\ cm \in Run /\ x \in Run
      /\ Len(s) = 2 /\ s[1] = q.cpu_count /\ s[2] = q.memory_bytes
      /\ Len(cn) = 1 /\ cn[1] = n /\ Len(cm) = 1 /\ cm[1] = m
    BY <1>1, <1>3, PartsTyped, Zenon
<1>5. /\ t = Text(d) /\ v = Flat(PairCode, ps) /\ x = Flat(DeviceCode, ds)
      /\ b = Whole(s, t, cn, v, cm, x)
    BY Zenon DEF PlanCells
<1> HIDE DEF s, t, cn, v, cm, x, n, m, d, ps, ds
<1>6. b \in Run /\ Len(b) = WholeLen(s, t, cn, v, cm, x) /\ Behind(b, s, t, cn, v, cm, x)
  <2>1. b \in Run /\ Len(b) = WholeLen(s, t, cn, v, cm, x)
    <3> DEFINE w == Whole(s, t, cn, v, cm, x)
    <3>1. w \in Run /\ Len(w) = WholeLen(s, t, cn, v, cm, x)
      <4>1. /\ s \in Run /\ t \in Run /\ cn \in Run
            /\ v \in Run /\ cm \in Run /\ x \in Run
          BY <1>4, Zenon
      <4>2. QED
          BY <4>1, WholeHeld, SMT
    <3>2. b = w
        BY <1>5, Zenon
    <3> HIDE DEF w
    <3>3. QED
        BY <3>1, <3>2
  <2>2. Holds(b, 0, b)
      BY <2>1, HoldsItself, Zenon
  <2>3. QED
      BY <1>4, <1>5, <2>1, <2>2, WholeHeld, Zenon
<1>7. Len(t) \in Nat /\ Len(v) \in Nat /\ Len(x) \in Nat
    BY <1>4 DEF Run
<1> DEFINE p2 == 2 + Len(t)
           p3 == p2 + 1
           p4 == p3 + Len(v)
           p5 == p4 + 1
           p6 == p5 + Len(x)
<1>8. /\ p2 = Len(s) + Len(t) /\ p2 \in Nat
      /\ p3 = Len(s) + Len(t) + Len(cn) /\ p3 \in Nat
      /\ p4 = Len(s) + Len(t) + Len(cn) + Len(v) /\ p4 \in Nat
      /\ p5 = Len(s) + Len(t) + Len(cn) + Len(v) + Len(cm) /\ p5 \in Nat
      /\ p6 = WholeLen(s, t, cn, v, cm, x) /\ p6 \in Nat
      /\ 2 = Len(s) /\ 0 + 2 = 2
    BY <1>4, <1>7 DEF WholeLen
<1>9. /\ p2 = 2 + Len(t) /\ p3 = p2 + 1 /\ p4 = p3 + Len(v)
      /\ p5 = p4 + 1 /\ p6 = p5 + Len(x)
    OBVIOUS
<1> HIDE DEF p2, p3, p4, p5, p6
<1>10. /\ Holds(b, 0, s) /\ Holds(b, 2, t) /\ Holds(b, p2, cn)
       /\ Holds(b, p3, v) /\ Holds(b, p4, cm) /\ Holds(b, p5, x)
       /\ Len(b) = p6
    BY <1>6, <1>8, Zenon DEF Behind
<1>11. spec.ok /\ spec.p = 2 /\ spec.value = s
  <2>1. 0 \in Nat /\ 2 \in Nat
      OBVIOUS
  <2>2. Gets(spec, 0 + 2, s)
      BY <1>2, <1>4, <1>6, <1>10, <2>1, CellsFound, Zenon
  <2>3. QED
      BY <1>8, <2>2, Zenon DEF Gets
<1>12. disk.ok /\ disk.p = p2 /\ disk.value = d
  <2>1. 2 \in Nat
      OBVIOUS
  <2>2. disk = TakeString(b, 2)
      BY <1>2, <1>11, Zenon
  <2>3. Gets(disk, 2 + Len(Text(d)), d)
      BY <1>1, <1>3, <1>5, <1>6, <1>10, <2>1, <2>2, StringFound, Zenon DEF d
  <2>4. QED
      BY <1>5, <1>9, <2>3, Zenon DEF Gets
<1>13. pairs.ok /\ pairs.p = p3 /\ pairs.value = cn
  <2>1. 1 \in Nat
      OBVIOUS
  <2>2. pairs = TakeCells(b, p2, 1)
      BY <1>2, <1>12, Zenon
  <2>3. Gets(pairs, p2 + 1, cn)
      BY <1>4, <1>6, <1>8, <1>10, <2>1, <2>2, CellsFound, Zenon
  <2>4. QED
      BY <1>9, <2>3, Zenon DEF Gets
<1>14. smbios.ok /\ smbios.p = p4 /\ smbios.value = ps
  <2>1. smbios = TakePairs(b, p3, Len(ps))
      BY <1>2, <1>3, <1>4, <1>13, Zenon DEF Counted
  <2>2. \A i \in 1..Len(ps) : Utf8(ps[i].key) /\ Utf8(ps[i].value)
      BY <1>1, Zenon DEF ps
  <2>3. Holds(b, p3, Flat(PairCode, ps))
      BY <1>5, <1>10, Zenon
  <2>4. Gets(smbios, p3 + Len(Flat(PairCode, ps)), ps)
      BY <1>3, <1>6, <1>8, <2>1, <2>2, <2>3, PairsFound, Zenon
  <2>5. QED
      BY <1>5, <1>9, <2>4, Zenon DEF Gets
<1>15. maps.ok /\ maps.p = p5 /\ maps.value = cm
  <2>1. 1 \in Nat
      OBVIOUS
  <2>2. maps = TakeCells(b, p4, 1)
      BY <1>2, <1>14, Zenon
  <2>3. Gets(maps, p4 + 1, cm)
      BY <1>4, <1>6, <1>8, <1>10, <2>1, <2>2, CellsFound, Zenon
  <2>4. QED
      BY <1>9, <2>3, Zenon DEF Gets
<1>16. devices.ok /\ devices.p = p6 /\ devices.value = ds
  <2>1. devices = TakeDevices(b, p5, Len(ds))
      BY <1>2, <1>3, <1>4, <1>15, Zenon DEF Counted
  <2>2. Holds(b, p5, Flat(DeviceCode, ds))
      BY <1>5, <1>10, Zenon
  <2>3. Gets(devices, p5 + Len(Flat(DeviceCode, ds)), ds)
      BY <1>3, <1>6, <1>8, <2>1, <2>2, DevicesFound, Zenon
  <2>4. QED
      BY <1>5, <1>9, <2>3, Zenon DEF Gets
<1>17. Valid(b, spec, disk, smbios, devices) <=>
          ~SpecError(q.cpu_count, q.memory_bytes)
  <2>1. d # <<>> /\ devices.p = Len(b)
      BY <1>1, <1>10, <1>16, Zenon DEF d
  <2>2. spec.value[1] = q.cpu_count /\ spec.value[2] = q.memory_bytes
      BY <1>4, <1>11, Zenon
  <2>3. QED
      BY <1>11, <1>12, <1>14, <1>16, <2>1, <2>2, Zenon DEF Valid, Complete
<1>18. Made(spec, disk, smbios, devices) = q
  <2>1. q = [cpu_count |-> q.cpu_count, memory_bytes |-> q.memory_bytes,
             boot_disk |-> d, smbios_override |-> ps, device_map |-> ds]
      BY <1>1, PlanFields, Zenon DEF d, ps, ds
  <2>2. QED
      BY <1>4, <1>11, <1>12, <1>14, <1>16, <2>1, Zenon DEF Made
<1>19. QED
    BY <1>17, <1>18, Zenon DEF Returned

\* What the buffer and the plan are in every state.
BufferInv == buf \in Seq(Cell) /\ Len(buf) <= MaxCells
BuiltInv == plan = NoPlan \/ Sound(plan)

\* What the constants of a plan say.
LEMMA StringsSound ==
    ASSUME PlanConstants
    PROVE  /\ Cell \subseteq Nat
           /\ LenSpan \in Nat \ {0} /\ LenSpan \in Nat
           /\ CpuMax \in Nat /\ MemoryMin \in Nat /\ MaxCells \in Nat
           /\ (\A c \in Cell : c < LenSpan) \/ MaxCells < LenSpan
           /\ \A s \in Strings : s \in Run /\ Utf8(s)
<1>1. /\ Cell \subseteq Nat
      /\ LenSpan \in Nat \ {0} /\ LenSpan \in Nat
      /\ CpuMax \in Nat /\ MemoryMin \in Nat /\ MaxCells \in Nat
      /\ (\A c \in Cell : c < LenSpan) \/ MaxCells < LenSpan
      /\ Strings \subseteq Seq(Cell \ {NotUtf8})
    BY DEF PlanConstants
<1>2. ASSUME NEW s \in Strings PROVE s \in Run /\ Utf8(s)
  <2>1. s \in Seq(Cell \ {NotUtf8})
      BY <1>1
  <2>2. \A i \in 1..Len(s) : s[i] \in Cell \ {NotUtf8}
      BY <2>1, ElementOfSeq
  <2>3. DOMAIN s = 1..Len(s) /\ s = [i \in 1..Len(s) |-> s[i]] /\ Len(s) \in Nat
      BY <2>1
  <2>4. s \in Run
      BY <1>1, <2>2, <2>3 DEF Run
  <2>5. QED
      BY <2>2, <2>3, <2>4 DEF Utf8
<1>3. QED
    BY <1>1, <1>2

\* A buffer grows by cells, up to its bound.
LEMMA BufferStep ==
    ASSUME PlanConstants, BufferInv, [PlanNext]_planVars
    PROVE  BufferInv'
<1>1. MaxCells \in Nat
    BY StringsSound
<1>2. CASE ReceiveCell
    BY <1>1, <1>2 DEF ReceiveCell, BufferInv
<1>3. CASE buf' = buf
    BY <1>3 DEF BufferInv
<1>4. QED
    BY <1>2, <1>3 DEF PlanNext, planVars, New, SetSpec, AddSmbios,
       MapDevice

\* So no count in it reaches the cast.
LEMMA BufferLimits ==
    ASSUME PlanConstants, BufferInv
    PROVE  buf \in Run /\ Limits(buf)
<1>1. /\ Cell \subseteq Nat /\ MaxCells \in Nat /\ LenSpan \in Nat
      /\ (\A c \in Cell : c < LenSpan) \/ MaxCells < LenSpan
    BY StringsSound
<1>2. buf \in Seq(Cell) /\ Len(buf) <= MaxCells /\ Len(buf) \in Nat
    BY DEF BufferInv
<1>3. \A i \in 1..Len(buf) : buf[i] \in Cell
    BY <1>2, ElementOfSeq
<1>4. buf \in Run
  <2>1. buf = [i \in 1..Len(buf) |-> buf[i]]
      BY <1>2
  <2>2. QED
      BY <1>1, <1>2, <1>3, <2>1 DEF Run
<1>5. Limits(buf)
  <2>1. CASE \A c \in Cell : c < LenSpan
      BY <1>3, <2>1, Zenon DEF Limits
  <2>2. CASE MaxCells < LenSpan
    <3>1. Len(buf) < LenSpan
        BY <1>1, <1>2, <2>2
    <3>2. QED
        BY <3>1, Zenon DEF Limits
  <2>3. QED
      BY <1>1, <2>1, <2>2
<1>6. QED
    BY <1>4, <1>5

\* A buffer that decodes is the encoding of its plan.
LEMMA BufferCanonical ==
    ASSUME PlanConstants, BufferInv
    PROVE  Canonical
<1> SUFFICES ASSUME DecodePlan(buf).ok
             PROVE  EncodePlan(DecodePlan(buf).plan) = buf
    BY Zenon DEF Canonical
<1>1. buf \in Run /\ Limits(buf) /\ LenSpan \in Nat \ {0} /\ LenSpan \in Nat
    BY BufferLimits, StringsSound
<1>2. PICK spec, disk, pairs, smbios, maps, devices :
        /\ Reading(buf, spec, disk, pairs, smbios, maps, devices)
        /\ DecodePlan(buf).ok <=> Valid(buf, spec, disk, smbios, devices)
        /\ DecodePlan(buf).ok => DecodePlan(buf).plan = Made(spec, disk, smbios, devices)
    BY Readings, Zenon
<1> DEFINE q == Made(spec, disk, smbios, devices)
<1>3. DecodePlan(buf).plan = q /\ Valid(buf, spec, disk, smbios, devices)
    BY <1>2, Zenon
<1>4. Read(buf, q) /\ Fits(q)
    BY <1>1, <1>2, <1>3, DecodeForward, Zenon
<1> HIDE DEF q
<1>5. q \in Plans /\ PlanCells(q) = buf
    BY <1>4, Zenon DEF Read
<1>6. EncodePlan(q) = PlanCells(q)
    BY <1>1, <1>4, <1>5, EncodeCells, Zenon
<1>7. QED
    BY <1>3, <1>5, <1>6, Zenon

\* Whatever the buffer is, if GuestLaunchPlan::decode accepts it then encode
\* writes the plan back as this buffer: for every cell, length and count.
THEOREM CanonicalAlways == PlanSpec => []Canonical
<1>1. PlanInit => BufferInv
  <2>1. MaxCells \in Nat
      BY StringsSound, PlanAssumption
  <2>2. QED
      BY <2>1 DEF PlanInit, BufferInv
<1>2. BufferInv /\ [PlanNext]_planVars => BufferInv'
    BY BufferStep, PlanAssumption
<1>3. BufferInv => Canonical
    BY BufferCanonical, PlanAssumption
<1>4. QED
    BY <1>1, <1>2, <1>3, PTL DEF PlanSpec

\* Every step of the builder keeps a plan a plan.
LEMMA BuiltStep ==
    ASSUME PlanConstants, BuiltInv, [PlanNext]_planVars
    PROVE  BuiltInv'
<1>1. Cell \subseteq Nat /\ \A s \in Strings : s \in Run /\ Utf8(s)
    BY StringsSound
<1>2. CASE plan' = plan
    BY <1>2, Zenon DEF BuiltInv
<1>3. ASSUME NEW cpu \in Cell, NEW memory \in Cell, NEW disk \in Strings,
             New(cpu, memory, disk)
      PROVE  BuiltInv'
  <2>1. /\ disk # <<>>
        /\ plan' = [cpu_count |-> cpu, memory_bytes |-> memory, boot_disk |-> disk,
                    smbios_override |-> <<>>, device_map |-> <<>>]
      BY <1>3, Zenon DEF New
  <2>2. disk \in Run /\ Utf8(disk) /\ cpu \in Nat /\ memory \in Nat
      BY <1>1
  <2>3. <<>> \in Seq(Pair) /\ <<>> \in Seq(Device) /\ Len(<<>>) = 0
      OBVIOUS
  <2>4. /\ plan' \in Plans /\ plan'.boot_disk = disk /\ plan'.smbios_override = <<>>
      BY <2>1, <2>2, <2>3 DEF Plans
  <2>5. \A i \in 1..Len(plan'.smbios_override) :
            Utf8(plan'.smbios_override[i].key) /\ Utf8(plan'.smbios_override[i].value)
    <3>1. \A i \in 1..Len(plan'.smbios_override) : FALSE
        BY <2>3, <2>4
    <3>2. QED
        BY <3>1, Zenon
  <2>6. QED
      BY <2>1, <2>2, <2>4, <2>5, Zenon DEF BuiltInv, Sound
<1>4. ASSUME NEW cpu \in Cell, NEW memory \in Cell, SetSpec(cpu, memory)
      PROVE  BuiltInv'
  <2>1. /\ plan # NoPlan
        /\ plan' = [plan EXCEPT !.cpu_count = cpu, !.memory_bytes = memory]
      BY <1>4, Zenon DEF SetSpec
  <2>2. Sound(plan) /\ plan \in Plans /\ cpu \in Nat /\ memory \in Nat
      BY <1>1, <2>1, Zenon DEF BuiltInv, Sound
  <2>3. /\ plan' \in Plans /\ plan'.boot_disk = plan.boot_disk
        /\ plan'.smbios_override = plan.smbios_override
      BY <2>1, <2>2 DEF Plans
  <2>4. QED
      BY <2>2, <2>3, Zenon DEF BuiltInv, Sound
<1>5. ASSUME NEW k \in Strings, NEW v \in Strings, AddSmbios(k, v)
      PROVE  BuiltInv'
  <2> DEFINE ps == plan.smbios_override
             x == [key |-> k, value |-> v]
             more == Append(ps, x)
  <2>1. plan # NoPlan /\ plan' = [plan EXCEPT !.smbios_override = more]
      BY <1>5 DEF AddSmbios
  <2>2. /\ Sound(plan) /\ plan \in Plans
        /\ \A i \in 1..Len(ps) : Utf8(ps[i].key) /\ Utf8(ps[i].value)
      BY <2>1, Zenon DEF BuiltInv, Sound
  <2>3. ps \in Seq(Pair)
      BY <2>2, PlanFields, Zenon
  <2>4. x \in Pair /\ x.key = k /\ x.value = v /\ Utf8(k) /\ Utf8(v)
      BY <1>1 DEF Pair
  <2> HIDE DEF ps, x
  <2>5. /\ more \in Seq(Pair) /\ Len(more) = Len(ps) + 1 /\ more[Len(ps) + 1] = x
        /\ \A i \in 1..Len(ps) : more[i] = ps[i]
        /\ Len(ps) \in Nat
      BY <2>3, <2>4
  <2> HIDE DEF more
  <2>6. /\ plan' \in Plans /\ plan'.boot_disk = plan.boot_disk
        /\ plan'.smbios_override = more
      BY <2>1, <2>2, <2>5 DEF Plans
  <2>7. ASSUME NEW i \in 1..Len(more) PROVE Utf8(more[i].key) /\ Utf8(more[i].value)
    <3>1. CASE i = Len(ps) + 1
        BY <2>4, <2>5, <3>1, Zenon
    <3>2. CASE i # Len(ps) + 1
      <4>1. i \in 1..Len(ps)
          BY <2>5, <3>2
      <4>2. QED
          BY <2>2, <2>5, <4>1, Zenon
    <3>3. QED
        BY <3>1, <3>2
  <2>8. QED
      BY <2>2, <2>6, <2>7, Zenon DEF BuiltInv, Sound
<1>6. ASSUME NEW len \in Cell, MapDevice(1, 2, len)
      PROVE  BuiltInv'
  <2> DEFINE ds == plan.device_map
             more == Append(ds, <<1, 2, len>>)
  <2>1. plan # NoPlan /\ plan' = [plan EXCEPT !.device_map = more]
      BY <1>6 DEF MapDevice
  <2>2. Sound(plan) /\ plan \in Plans /\ len \in Nat
      BY <1>1, <2>1, Zenon DEF BuiltInv, Sound
  <2>3. ds \in Seq(Device)
      BY <2>2, PlanFields, Zenon
  <2>4. <<1, 2, len>> \in Device
      BY <2>2 DEF Device, Run
  <2>5. more \in Seq(Device)
      BY <2>3, <2>4
  <2> HIDE DEF more
  <2>6. /\ plan' \in Plans /\ plan'.boot_disk = plan.boot_disk
        /\ plan'.smbios_override = plan.smbios_override
      BY <2>1, <2>2, <2>5 DEF Plans
  <2>7. QED
      BY <2>2, <2>6, Zenon DEF BuiltInv, Sound
<1>7. CASE PlanNext
    BY <1>2, <1>3, <1>4, <1>5, <1>6, <1>7, Zenon DEF PlanNext, ReceiveCell
<1>8. CASE UNCHANGED planVars
    BY <1>2, <1>8 DEF planVars
<1>9. QED
    BY <1>7, <1>8

\* What the builder makes comes back from its cells.
LEMMA BuiltDecodes ==
    ASSUME PlanConstants, BuiltInv
    PROVE  BuiltPlanDecodes
<1> DEFINE back == DecodePlan(EncodePlan(plan))
<1> SUFFICES ASSUME plan # NoPlan, Fits(plan)
             PROVE  /\ back.ok <=> plan.cpu_count \in 1..CpuMax
                                   /\ plan.memory_bytes >= MemoryMin
                    /\ back.ok => back.plan = plan
    BY Zenon DEF BuiltPlanDecodes
<1>1. LenSpan \in Nat \ {0} /\ CpuMax \in Nat /\ MemoryMin \in Nat
    BY StringsSound
<1>2. Sound(plan) /\ plan \in Plans
    BY Zenon DEF BuiltInv, Sound
<1> DEFINE b == PlanCells(plan)
<1>3. EncodePlan(plan) = b /\ PlanCells(plan) = b
    BY <1>1, <1>2, EncodeCells, Zenon
<1> HIDE DEF b
<1>4. PICK spec, disk, pairs, smbios, maps, devices :
        /\ Reading(b, spec, disk, pairs, smbios, maps, devices)
        /\ DecodePlan(b).ok <=> Valid(b, spec, disk, smbios, devices)
        /\ DecodePlan(b).ok => DecodePlan(b).plan = Made(spec, disk, smbios, devices)
    BY Readings, Zenon
<1>5. /\ Valid(b, spec, disk, smbios, devices) <=>
            ~SpecError(plan.cpu_count, plan.memory_bytes)
      /\ Made(spec, disk, smbios, devices) = plan
  <2>1. Reading(b, spec, disk, pairs, smbios, maps, devices)
      BY <1>4, Zenon
  <2>2. Sound(plan) /\ PlanCells(plan) = b
      BY <1>2, <1>3, Zenon
  <2>3. Returned(b, spec, disk, smbios, devices, plan)
      BY <2>1, <2>2, DecodeBack, Zenon
  <2>4. QED
      BY <2>3, Zenon DEF Returned
<1>6. /\ back.ok <=> ~SpecError(plan.cpu_count, plan.memory_bytes)
      /\ back.ok => back.plan = plan
    BY <1>3, <1>4, <1>5, Zenon
<1>7. ~SpecError(plan.cpu_count, plan.memory_bytes) <=>
          plan.cpu_count \in 1..CpuMax /\ plan.memory_bytes >= MemoryMin
  <2>1. plan.cpu_count \in Nat /\ plan.memory_bytes \in Nat
      BY <1>2, PlanFields, Zenon
  <2>2. QED
      BY <1>1, <2>1 DEF SpecError
<1>8. QED
    BY <1>6, <1>7, Zenon

\* Every plan that new, smbios and map_device can build, of any length that fits
\* the cast, comes back from its encoding as it was; it is refused exactly if
\* its public spec was written over with values that new refuses.
THEOREM BuiltPlanAlwaysDecodes == PlanSpec => []BuiltPlanDecodes
<1>1. PlanInit => BuiltInv
    BY DEF PlanInit, BuiltInv
<1>2. BuiltInv /\ [PlanNext]_planVars => BuiltInv'
    BY BuiltStep, PlanAssumption
<1>3. BuiltInv => BuiltPlanDecodes
    BY BuiltDecodes, PlanAssumption
<1>4. QED
    BY <1>1, <1>2, <1>3, PTL DEF PlanSpec
=============================================================================
