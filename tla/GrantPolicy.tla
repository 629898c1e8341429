---------------------------- MODULE GrantPolicy ----------------------------
(***************************************************************************)
(* The policy half of the grant transport (src/sgpu_grant.rs): the header  *)
(* profile of granted messages, the check of a message against the root's  *)
(* capability table, the window it selects in a snapshot, and the two      *)
(* conversions between inline frames and granted messages.                 *)
(*                                                                         *)
(* A handle is generation * SlotSpan + slot: the code's generation << 32 | *)
(* slot.  Rights are sets: the bits of VF_RIGHT_ALL are AllRights, READ    *)
(* and WRITE among them, and any other element is a reserved bit.          *)
(***************************************************************************)
EXTENDS VfFrame

CONSTANTS
    SlotSpan,   \* 2^32, the slots a handle can name
    Align,      \* payload offsets are multiples of 8 bytes
    TableMax,   \* VF_POLICY_TABLE_MAX
    NoObject    \* object_id 0

ASSUME PolicyAssumption ==
    /\ SlotSpan \in Nat \ {0, 1}
    /\ Align \in Nat \ {0}
    /\ TableMax \in Nat

VF_FAMILY_ROOT == 1
VF_FAMILY_BLOCK == 2
VF_SGPU_SUBMIT_COMMAND_LIST == 5
VF_OBJECT_GRANT == 1
VF_CAP_LIVE == 1
VF_GRANT_LIVE == 1
AllRights == {"read", "write", "map"}

Handle(generation, slot) == generation * SlotSpan + slot
SlotOf(handle) == handle % SlotSpan          \* handle as u32
GenerationOf(handle) == handle \div SlotSpan \* handle >> 32

-----------------------------------------------------------------------------
(* validate_grant_header.                                                  *)

\* Mutant of GrantHeaderError: the payload limit of the inline profile is
\* thought to be enough.
GrantHeaderErrorNoLimit(h) ==
    IF \/ h.magic # VF_MSG_MAGIC
       \/ h.abi_major # VF_ABI_MAJOR
       \/ h.header_bytes # MsgBytes
       \/ h.message_bytes # MsgBytes
       \/ h.reserved0 # 0
    THEN "Eabi"
    ELSE IF h.flags # 0 \/ h.payload_offset % Align # 0 THEN "Einval"
    ELSE "ok"

\* VfMsgHeader::decode has checked the length: a granted message is exactly
\* the header, and its payload lies in the grant it names.
GrantHeaderError(h) ==
    IF \/ h.magic # VF_MSG_MAGIC
       \/ h.abi_major # VF_ABI_MAJOR
       \/ h.header_bytes # MsgBytes
       \/ h.message_bytes # MsgBytes
       \/ h.reserved0 # 0
    THEN "Eabi"
    ELSE IF h.flags # 0 THEN "Einval"
    ELSE IF ~ \/ h.family = VF_FAMILY_ROOT /\ h.opcode \in 1..9
              \/ h.family = VF_FAMILY_BLOCK /\ h.opcode \in 1..3
              \/ h.family = VF_FAMILY_SGPU /\ h.opcode \in 1..7
    THEN "Enotsup"
    ELSE IF h.payload_bytes = 0
    THEN IF h.payload_grant = 0 /\ h.payload_offset = 0 THEN "ok" ELSE "Einval"
    ELSE IF h.payload_grant = 0 \/ h.payload_offset % Align # 0 THEN "Einval"
    ELSE IF \/ h.payload_bytes > PayloadMax
            \/ h.payload_offset + h.payload_bytes > U64Max
    THEN "Erange"
    ELSE "ok"

-----------------------------------------------------------------------------
(* validate_payload_grant.  A table is a sequence of snapshots             *)
(* [entry, snapshot_offset, data]; an entry is [cap, bytes, owner_cell,    *)
(* state].                                                                 *)

\* The places of the table the caller's handle may mean.
Matches(h, table, caller) ==
    {i \in 1..Len(table) :
        /\ table[i].entry.cap.holder_cell = caller
        /\ table[i].entry.cap.slot = SlotOf(h.payload_grant)}

\* Mutants of EntryError: a capability is still good at its expiry; the slot
\* alone identifies it.
EntryErrorLateExpiry(h, entry, required, now) ==
    LET cap == entry.cap IN
    IF \/ Handle(cap.generation, cap.slot) # h.payload_grant
       \/ cap.state # VF_CAP_LIVE
       \/ now < cap.valid_from
       \/ now > cap.expires_at
    THEN "Estale"
    ELSE IF ~(required \subseteq cap.rights) THEN "Eperm"
    ELSE IF entry.state # VF_GRANT_LIVE THEN "Estale"
    ELSE IF h.payload_bytes > entry.bytes - h.payload_offset THEN "Erange"
    ELSE "ok"
EntryErrorSlotOnly(h, entry, required, now) ==
    LET cap == entry.cap IN
    IF \/ cap.slot # SlotOf(h.payload_grant)
       \/ cap.state # VF_CAP_LIVE
       \/ now < cap.valid_from
       \/ now >= cap.expires_at
    THEN "Estale"
    ELSE IF ~(required \subseteq cap.rights) THEN "Eperm"
    ELSE IF entry.state # VF_GRANT_LIVE THEN "Estale"
    ELSE IF h.payload_bytes > entry.bytes - h.payload_offset THEN "Erange"
    ELSE "ok"

\* The checks of the one matching entry, in the code's order.
EntryError(h, entry, required, now) ==
    LET cap == entry.cap IN
    IF \/ cap.slot = 0
       \/ cap.generation = 0
       \/ Handle(cap.generation, cap.slot) # h.payload_grant
       \/ cap.state # VF_CAP_LIVE
       \/ cap.valid_from >= cap.expires_at
       \/ now < cap.valid_from
       \/ now >= cap.expires_at
    THEN "Estale"
    ELSE IF \/ cap.object_id = NoObject
            \/ cap.object_type # VF_OBJECT_GRANT
            \/ ~(cap.rights \subseteq AllRights)
            \/ ~(required \subseteq cap.rights)
    THEN "Eperm"
    ELSE IF entry.state # VF_GRANT_LIVE \/ entry.owner_cell = 0 THEN "Estale"
    ELSE IF \/ h.payload_offset > entry.bytes
            \/ h.payload_bytes > entry.bytes - h.payload_offset
    THEN "Erange"
    ELSE "ok"

\* A message without payload passes without looking at the table.
PayloadGrantError(h, table, caller, required, now) ==
    IF \/ Len(table) > TableMax
       \/ caller = 0
       \/ required = {}
       \/ ~(required \subseteq {"read", "write"})
    THEN "Einval"
    ELSE IF GrantHeaderError(h) # "ok" THEN GrantHeaderError(h)
    ELSE IF h.payload_bytes = 0 THEN "ok"
    ELSE LET found == Matches(h, table, caller) IN
         IF \E i, j \in found : i # j THEN "Eambig"
         ELSE IF found = {} THEN "Estale"
         ELSE EntryError(h, table[CHOOSE i \in found : TRUE].entry,
                         required, now)

\* The snapshot the check returns for a message with payload.
Granted(h, table, caller) == table[CHOOSE i \in Matches(h, table, caller) : TRUE]

-----------------------------------------------------------------------------
(* payload_window: the payload inside the snapshot's window.               *)

WindowStart(h, snapshot) == h.payload_offset - snapshot.snapshot_offset
WindowEnd(h, snapshot) == WindowStart(h, snapshot) + h.payload_bytes
WindowError(h, snapshot) ==
    IF \/ snapshot.snapshot_offset + Len(snapshot.data) > snapshot.entry.bytes
       \/ h.payload_offset < snapshot.snapshot_offset
       \/ WindowEnd(h, snapshot) > UsizeMax
       \/ WindowEnd(h, snapshot) > Len(snapshot.data)
    THEN "Erange"
    ELSE "ok"
\* Mutant of Window: the bytes from the start of the window.
WindowFromStart(h, snapshot) == SubSeq(snapshot.data, 1, h.payload_bytes)

Window(h, snapshot) ==
    SubSeq(snapshot.data, WindowStart(h, snapshot) + 1, WindowEnd(h, snapshot))

-----------------------------------------------------------------------------
(* inline_to_grant, and the header to_inline gives an authorized payload.  *)

GrantHeader(f, handle, offset) ==
    [f.header EXCEPT !.message_bytes = MsgBytes,
                     !.payload_grant = handle,
                     !.payload_offset = offset]
InlineToGrantError(f, handle, offset) ==
    IF ValidateError(f) # "ok" THEN ValidateError(f)
    ELSE GrantHeaderError(GrantHeader(f, handle, offset))

\* Mutants of InlineFrame: the header is rebuilt and the request lost; the
\* payload keeps its offset in the grant.
InlineFrameRebuilt(h, payload) ==
    [header |-> [NewHeader(h.family, h.opcode) EXCEPT
                    !.payload_bytes = h.payload_bytes,
                    !.message_bytes = MsgBytes + h.payload_bytes],
     payload |-> payload]
InlineFrameKeepsOffset(h, payload) ==
    [header |-> [h EXCEPT !.message_bytes = MsgBytes + h.payload_bytes,
                          !.payload_grant = 0],
     payload |-> payload]

InlineFrame(h, payload) ==
    [header |-> [h EXCEPT !.message_bytes = MsgBytes + h.payload_bytes,
                          !.payload_grant = 0,
                          !.payload_offset = 0],
     payload |-> payload]

-----------------------------------------------------------------------------
(* A session [caller_cell, endpoint_handle], and what it authorizes.       *)

\* SgpuGrantSession::new.
NewError(binding) ==
    IF \/ binding.caller_cell = 0
       \/ SlotOf(binding.endpoint_handle) = 0
       \/ GenerationOf(binding.endpoint_handle) = 0
    THEN "Einval"
    ELSE "ok"

\* authorize: the caller cell is the root's word, not the message's.
AuthorizeError(session, h, snapshots, caller, now) ==
    IF GrantHeaderError(h) # "ok" THEN GrantHeaderError(h)
    ELSE IF \/ h.family # VF_FAMILY_SGPU
            \/ h.opcode # VF_SGPU_SUBMIT_COMMAND_LIST
    THEN "Enotsup"
    ELSE IF caller # session.caller_cell \/ h.object # session.endpoint_handle
    THEN "Eperm"
    ELSE LET policy == PayloadGrantError(h, snapshots, caller, {"read"}, now) IN
         IF policy # "ok" THEN policy
         ELSE IF h.payload_bytes = 0 THEN "ok"
         ELSE WindowError(h, Granted(h, snapshots, caller))
AuthorizedPayload(h, snapshots, caller) ==
    IF h.payload_bytes = 0 THEN <<>>
    ELSE Window(h, Granted(h, snapshots, caller))
=============================================================================
