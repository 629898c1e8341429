------------------------------- MODULE VfFrame -------------------------------
(***************************************************************************)
(* The 64-byte VSK message envelope (src/vf_abi.rs) and the bounded inline *)
(* SGPU frame built on it (src/sgpu.rs, SgpuFrame and frame_layout).       *)
(*                                                                         *)
(* The wire is a sequence of cells.  A header field occupies one cell, so  *)
(* the header is MsgBytes = 13 cells instead of 64 bytes; a body cell is   *)
(* one unit of payload.  Every length below is counted in cells.  The      *)
(* integer widths are constants: an addition the code checks is compared   *)
(* with the maximum of its type.                                           *)
(***************************************************************************)
EXTENDS Integers, Sequences

CONSTANTS
    PayloadMax,  \* VF_PAYLOAD_MAX, the largest payload
    U32Max,      \* the largest value of a u32 field
    U64Max,      \* the largest value of a u64 field
    UsizeMax     \* the largest index of the host

\* The code's constants satisfy 64 + VF_PAYLOAD_MAX < 2^32 <= 2^64.  Nothing
\* is assumed of usize: the code converts with try_from.
ASSUME WidthAssumption ==
    /\ PayloadMax \in Nat
    /\ U32Max \in Nat
    /\ U64Max \in Nat
    /\ UsizeMax \in Nat
    /\ 13 + PayloadMax <= U32Max
    /\ U32Max <= U64Max

MsgBytes == 13
VF_MSG_MAGIC == 1
VF_ABI_MAJOR == 1
Families == {1, 2, 3}
VF_FAMILY_SGPU == 3

-----------------------------------------------------------------------------
(* Cells, headers and frames.                                              *)

Word(n) == <<n>>       \* n.to_le_bytes()
Num(cell) == cell[1]   \* from_le_bytes(cell)
Zero == Word(0)
U32 == 0..U32Max
U64 == 0..U64Max

VfMsgHeader ==
    [magic : U32, abi_major : U32, header_bytes : U32, message_bytes : U32,
     family : U32, opcode : U32, request_id : U64, object : U64,
     payload_grant : U64, payload_offset : U64, payload_bytes : U32,
     flags : U32, reserved0 : U64]

\* VfMsgHeader::new: the default header with a family and an opcode.
NewHeader(family, opcode) ==
    [magic |-> VF_MSG_MAGIC, abi_major |-> VF_ABI_MAJOR,
     header_bytes |-> MsgBytes, message_bytes |-> MsgBytes,
     family |-> family, opcode |-> opcode, request_id |-> 0, object |-> 0,
     payload_grant |-> 0, payload_offset |-> 0, payload_bytes |-> 0,
     flags |-> 0, reserved0 |-> 0]

Encode(h) ==
    <<Word(h.magic), Word(h.abi_major), Word(h.header_bytes),
      Word(h.message_bytes), Word(h.family), Word(h.opcode),
      Word(h.request_id), Word(h.object), Word(h.payload_grant),
      Word(h.payload_offset), Word(h.payload_bytes), Word(h.flags),
      Word(h.reserved0)>>

Decode(w) ==
    [magic |-> Num(w[1]), abi_major |-> Num(w[2]), header_bytes |-> Num(w[3]),
     message_bytes |-> Num(w[4]), family |-> Num(w[5]), opcode |-> Num(w[6]),
     request_id |-> Num(w[7]), object |-> Num(w[8]),
     payload_grant |-> Num(w[9]), payload_offset |-> Num(w[10]),
     payload_bytes |-> Num(w[11]), flags |-> Num(w[12]),
     reserved0 |-> Num(w[13])]

-----------------------------------------------------------------------------
(* Validation, in the order of the code's early returns.                   *)

\* VfMsgHeader::validate_shape; flags and reserved0 are not looked at.
ShapeError(h) ==
    IF \/ h.magic # VF_MSG_MAGIC
       \/ h.abi_major # VF_ABI_MAJOR
       \/ h.header_bytes # MsgBytes
       \/ h.message_bytes < MsgBytes
    THEN "Eabi"
    ELSE IF h.payload_bytes > PayloadMax THEN "Erange"
    ELSE IF h.family \notin Families THEN "Eabi"
    ELSE "ok"

\* VfMsgHeader::payload_end: the checked addition, then the declared bound.
PayloadEnd(h) == h.payload_offset + h.payload_bytes
PayloadEndError(h) ==
    IF PayloadEnd(h) > U64Max THEN "Erange"
    ELSE IF h.message_bytes < MsgBytes THEN "Eabi"
    ELSE IF PayloadEnd(h) > h.message_bytes - MsgBytes THEN "Erange"
    ELSE "ok"

\* frame_layout: the body occupies the cells FrameStart+1 .. FrameEnd of a
\* transfer of message_bytes cells.
FrameStart(h) == MsgBytes + h.payload_offset
FrameEnd(h) == MsgBytes + PayloadEnd(h)
IndexError(h) ==
    IF \/ FrameStart(h) > U64Max
       \/ FrameEnd(h) > U64Max
       \/ \E n \in {h.message_bytes, FrameStart(h), FrameEnd(h)} : n > UsizeMax
    THEN "Erange"
    ELSE IF FrameEnd(h) > h.message_bytes THEN "Payload"
    ELSE "ok"
FrameLayoutError(h) ==
    IF ShapeError(h) # "ok" THEN ShapeError(h)
    ELSE IF h.family # VF_FAMILY_SGPU THEN "Eabi"
    ELSE IF h.message_bytes > MsgBytes + PayloadMax THEN "Erange"
    ELSE IF PayloadEndError(h) # "ok" THEN PayloadEndError(h)
    ELSE IndexError(h)

\* Mutants of ValidateError: the payload's end instead of its length; a
\* payload longer than declared passes and would be cut.
ValidateErrorEndForLength(f) ==
    IF FrameLayoutError(f.header) # "ok" THEN FrameLayoutError(f.header)
    ELSE IF Len(f.payload) # PayloadEnd(f.header) THEN "Payload"
    ELSE "ok"
ValidateErrorCutsPayload(f) ==
    IF FrameLayoutError(f.header) # "ok" THEN FrameLayoutError(f.header)
    ELSE IF Len(f.payload) < FrameEnd(f.header) - FrameStart(f.header)
    THEN "Payload"
    ELSE "ok"

\* SgpuFrame::validate, for a decoded and for a caller-constructed frame.
ValidateError(f) ==
    IF FrameLayoutError(f.header) # "ok" THEN FrameLayoutError(f.header)
    ELSE IF Len(f.payload) # FrameEnd(f.header) - FrameStart(f.header)
    THEN "Payload"
    ELSE "ok"

-----------------------------------------------------------------------------
(* Encoding and decoding a transfer.                                       *)

\* Mutant of ToWire: the payload goes right behind the header whatever its
\* offset.
ToWireIgnoresOffset(f) ==
    LET h == f.header
    IN  [i \in 1..h.message_bytes |->
            IF i <= MsgBytes THEN Encode(h)[i]
            ELSE IF i - MsgBytes <= Len(f.payload)
                 THEN f.payload[i - MsgBytes]
                 ELSE Zero]

\* SgpuFrame::try_to_wire of a frame that validates: the header, the payload
\* at its offset, and zero padding before and behind it.
ToWire(f) ==
    LET h == f.header
    IN  [i \in 1..h.message_bytes |->
            IF i <= MsgBytes THEN Encode(h)[i]
            ELSE IF i \in (FrameStart(h) + 1)..FrameEnd(h)
                 THEN f.payload[i - FrameStart(h)]
                 ELSE Zero]

\* Mutant of FromWireError: bytes behind the declared transfer are ignored.
FromWireErrorIgnoresTail(w) ==
    IF Len(w) < MsgBytes THEN "Payload"
    ELSE IF FrameLayoutError(Decode(w)) # "ok" THEN FrameLayoutError(Decode(w))
    ELSE IF Len(w) < Decode(w).message_bytes THEN "Payload"
    ELSE "ok"

\* SgpuFrame::from_wire: what it refuses, and the frame it returns otherwise.
FromWireError(w) ==
    IF Len(w) < MsgBytes THEN "Payload"
    ELSE IF FrameLayoutError(Decode(w)) # "ok" THEN FrameLayoutError(Decode(w))
    ELSE IF Len(w) # Decode(w).message_bytes THEN "Payload"
    ELSE "ok"
FromWire(w) ==
    LET h == Decode(w)
    IN  [header |-> h,
         payload |-> [i \in 1..(FrameEnd(h) - FrameStart(h)) |->
                         w[FrameStart(h) + i]]]

-----------------------------------------------------------------------------
(* What a reader of the checks above may rely on.                          *)

\* The headers frame_layout accepts, stated without intermediate results:
\* nothing in the sequence of checks wraps, and the two that come last
\* (u64 start and end, end against total) are implied by the ones before.
GoodLayout(h) ==
    /\ h.magic = VF_MSG_MAGIC
    /\ h.abi_major = VF_ABI_MAJOR
    /\ h.header_bytes = MsgBytes
    /\ h.family = VF_FAMILY_SGPU
    /\ h.message_bytes \in MsgBytes..(MsgBytes + PayloadMax)
    /\ h.message_bytes <= UsizeMax
    /\ MsgBytes + h.payload_offset + h.payload_bytes <= h.message_bytes
=============================================================================
