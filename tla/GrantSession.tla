---------------------------- MODULE GrantSession ----------------------------
(***************************************************************************)
(* The grant adapter (src/sgpu_grant.rs, SgpuGrantSession) between guest   *)
(* cells and a trusted root.                                               *)
(*                                                                         *)
(* Adapter: a session bound to one cell and one endpoint authorizes a      *)
(* message against the root's table and submits the granted bytes to the   *)
(* compute executor, or converts them to an inline frame.                  *)
(*                                                                         *)
(* Root and cells are outside the repository.  They do what the contract   *)
(* (SGPU_GRANT_TRANSPORT.md) and the tests have them do: the root creates, *)
(* duplicates and revokes grants and reuses slots under a new generation,  *)
(* holds its table lock around a call, and hands in a copy of the granted  *)
(* bytes and the time; cells keep handles too long, write their memory at  *)
(* any time, and send a message late, twice, or with a guessed handle.     *)
(***************************************************************************)
EXTENDS GrantPolicy, FiniteSets

CONSTANTS
    CellIds,         \* the guest cells, numbers above 0
    Objects,         \* the grant objects
    ObjectBytes,     \* the size of every object
    Bindings,        \* [caller_cell, endpoint_handle] offered to new
    InlineFrames,    \* the frames cells turn into granted messages
    Terms,           \* [rights, valid_from, expires_at] the root grants
    Forged,          \* [cell, header] messages cells make up
    GenerationMax,   \* bound: generations of one slot
    MaxTable,        \* bound: entries in the root's table
    MaxClock         \* bound: the root's time

Slot == 1   \* every capability of a cell goes to this slot: reuse is the rule

ASSUME RootAssumption ==
    /\ CellIds \subseteq Nat \ {0}
    /\ NoObject \notin Objects
    /\ ObjectBytes \in Nat
    /\ ObjectBytes <= UsizeMax   \* the root copies objects into memory
    /\ \A t \in Terms : t.valid_from \in Nat /\ t.expires_at \in Nat
    /\ Forged \subseteq [cell : CellIds, header : VfMsgHeader]
    /\ \A f \in InlineFrames :
          /\ f = [header |-> f.header, payload |-> f.payload]
          /\ f.header \in VfMsgHeader
          /\ f.payload = [i \in 1..Len(f.payload) |-> f.payload[i]]

VARIABLES
    table,        \* the root's canonical grant entries
    generation,   \* the last generation of each cell's slot
    contents,     \* what the objects' memory holds now
    clock,        \* the root's time
    message,      \* the message under way, if any
    call          \* the adapter call under way, with what it was given

rootVars == <<table, generation>>
vars == <<table, generation, contents, clock, message, call>>

NoFrame == [header |-> NewHeader(0, 0), payload |-> <<>>]
NoMessage ==
    [cell |-> 0, header |-> NewHeader(0, 0), object |-> NoObject,
     frame |-> NoFrame]
NoCall ==
    [phase |-> "idle", session |-> [caller_cell |-> 0, endpoint_handle |-> 0],
     snapshots |-> <<>>, now |-> 0, err |-> "none", payload |-> <<>>,
     frame |-> NoFrame]

Locked == call.phase # "idle"

-----------------------------------------------------------------------------
(* The root (external).                                                    *)

Entry(holder, object, terms) ==
    [cap |-> [slot |-> Slot, generation |-> generation[holder] + 1,
              holder_cell |-> holder, object_type |-> VF_OBJECT_GRANT,
              rights |-> terms.rights, state |-> VF_CAP_LIVE,
              object_id |-> object, valid_from |-> terms.valid_from,
              expires_at |-> terms.expires_at],
     bytes |-> ObjectBytes, owner_cell |-> holder, state |-> VF_GRANT_LIVE]

\* A new capability, for a new grant or as a duplicate of one, in a slot whose
\* earlier capability is dead; the dead entry may still be in the table.
RootGrant(holder, object, terms) ==
    /\ ~Locked
    /\ Len(table) < MaxTable
    /\ generation[holder] < GenerationMax
    /\ \A i \in 1..Len(table) :
          table[i].cap.holder_cell = holder => table[i].cap.state # VF_CAP_LIVE
    /\ table' = Append(table, Entry(holder, object, terms))
    /\ generation' = [generation EXCEPT ![holder] = @ + 1]
    /\ UNCHANGED <<contents, clock, message, call>>

\* One capability dies.
RootRevokeCap(i) ==
    /\ ~Locked
    /\ table[i].cap.state = VF_CAP_LIVE
    /\ table' = [table EXCEPT ![i].cap.state = 0]
    /\ UNCHANGED <<generation, contents, clock, message, call>>

\* A grant dies: duplicated capabilities share its lifecycle.
RootRevokeGrant(object) ==
    /\ ~Locked
    /\ \E i \in 1..Len(table) : /\ table[i].cap.object_id = object
                                /\ table[i].state = VF_GRANT_LIVE
    /\ table' = [i \in 1..Len(table) |->
                    IF table[i].cap.object_id = object
                    THEN [table[i] EXCEPT !.state = 0] ELSE table[i]]
    /\ UNCHANGED <<generation, contents, clock, message, call>>

\* A dead entry leaves the table.
RootReap(i) ==
    /\ ~Locked
    /\ table[i].cap.state # VF_CAP_LIVE
    /\ table' = SubSeq(table, 1, i - 1) \o SubSeq(table, i + 1, Len(table))
    /\ UNCHANGED <<generation, contents, clock, message, call>>

Tick ==
    /\ clock < MaxClock
    /\ clock' = clock + 1
    /\ UNCHANGED <<table, generation, contents, message, call>>

-----------------------------------------------------------------------------
(* The cells (external).                                                   *)

\* What memory holds that no message under way refers to: anything but a
\* payload. It is one value here, and memory returns to it with the message.
Scribbled == [i \in 1..ObjectBytes |-> Word(9)]
Idle == [o \in Objects |-> Scribbled]

\* A cell's memory with a payload published at an offset.
Published(payload, offset) ==
    [i \in 1..ObjectBytes |->
        IF i - offset \in 1..Len(payload) THEN payload[i - offset] ELSE Zero]

\* A cell converts an inline frame (inline_to_grant), publishes its payload in
\* the object its capability names, and sends the header.
CellSend(i, f, offset) ==
    LET cell == table[i].cap.holder_cell
        object == table[i].cap.object_id
        handle == Handle(table[i].cap.generation, table[i].cap.slot)
    IN  /\ message = NoMessage
        /\ InlineToGrantError(f, handle, offset) = "ok"
        /\ offset + Len(f.payload) <= ObjectBytes
        /\ message' = [cell |-> cell, object |-> object, frame |-> f,
                       header |-> GrantHeader(f, handle, offset)]
        /\ contents' = [Idle EXCEPT ![object] = Published(f.payload, offset)]
        /\ UNCHANGED <<table, generation, clock, call>>

\* A cell sends a header of its own invention: a guessed handle, another
\* cell's endpoint, an operation without payload.
CellForge(forged) ==
    /\ message = NoMessage
    /\ message' = [NoMessage EXCEPT !.cell = forged.cell,
                                   !.header = forged.header]
    /\ UNCHANGED <<table, generation, contents, clock, call>>

\* Cells write shared memory whenever they like, also during a call; only
\* writes behind a message that is under way can make a difference.
CellScribble(object) ==
    /\ object = message.object
    /\ contents[object] # Scribbled
    /\ contents' = [contents EXCEPT ![object] = Scribbled]
    /\ UNCHANGED <<table, generation, clock, message, call>>

\* The message is lost, or the cell stops retrying it.
Drop ==
    /\ ~Locked
    /\ message # NoMessage
    /\ message' = NoMessage
    /\ contents' = Idle
    /\ UNCHANGED <<table, generation, clock, call>>

-----------------------------------------------------------------------------
(* The adapter.                                                            *)

\* The sessions new makes.
Sessions == {b \in Bindings : NewError(b) = "ok"}

\* The root locks its table, copies the bytes of every object from an offset
\* on, reads its clock, and calls a session. The message stays under way: it
\* may be delivered again.
RootCall(session, offset) ==
    /\ ~Locked
    /\ message # NoMessage
    /\ call' = [NoCall EXCEPT
                   !.phase = "called",
                   !.session = session,
                   !.now = clock,
                   !.snapshots =
                      [i \in 1..Len(table) |->
                         [entry |-> table[i],
                          snapshot_offset |-> offset,
                          data |-> SubSeq(contents[table[i].cap.object_id],
                                          offset + 1, ObjectBytes)]]]
    /\ UNCHANGED <<table, generation, contents, clock, message>>

CallError ==
    AuthorizeError(call.session, message.header, call.snapshots,
                   message.cell, call.now)
CallPayload == AuthorizedPayload(message.header, call.snapshots, message.cell)

Refused ==
    /\ CallError # "ok"
    /\ call' = [call EXCEPT !.phase = "returned", !.err = CallError]

\* submit: the authorized bytes go to the shared executor, which may refuse
\* them or fail part way; it cannot accept an empty list encoding.
Submit ==
    /\ call.phase = "called"
    /\ \/ Refused
       \/ /\ CallError = "ok"
          /\ \E err \in IF CallPayload = <<>> THEN {"Submission"}
                        ELSE {"ok", "Submission"} :
                call' = [call EXCEPT !.phase = "submitted", !.err = err,
                                     !.payload = CallPayload]
    /\ UNCHANGED <<table, generation, contents, clock, message>>

\* to_inline: the same authorization, then a validated inline frame.
ToInline ==
    /\ call.phase = "called"
    /\ \/ Refused
       \/ /\ CallError = "ok"
          /\ LET f == InlineFrame(message.header, CallPayload) IN
             call' = IF ValidateError(f) = "ok"
                     THEN [call EXCEPT !.phase = "converted", !.err = "ok",
                                       !.frame = f]
                     ELSE [call EXCEPT !.phase = "returned",
                                       !.err = ValidateError(f)]
    /\ UNCHANGED <<table, generation, contents, clock, message>>

\* The synchronous call is over: the root drops its lock (external).
RootUnlock ==
    /\ call.phase \in {"returned", "submitted", "converted"}
    /\ call' = NoCall
    /\ UNCHANGED <<table, generation, contents, clock, message>>

-----------------------------------------------------------------------------

Init ==
    /\ table = <<>>
    /\ generation = [c \in CellIds |-> 0]
    /\ contents = Idle
    /\ clock = 0
    /\ message = NoMessage
    /\ call = NoCall

Offsets == 0..ObjectBytes

Next ==
    \/ \E c \in CellIds, o \in Objects, t \in Terms : RootGrant(c, o, t)
    \/ \E i \in 1..Len(table) : RootRevokeCap(i) \/ RootReap(i)
    \/ \E o \in Objects : RootRevokeGrant(o)
    \/ Tick
    \/ \E i \in 1..Len(table), f \in InlineFrames, o \in Offsets :
          CellSend(i, f, o)
    \/ \E forged \in Forged : CellForge(forged)
    \/ \E o \in Objects : CellScribble(o)
    \/ Drop
    \/ \E s \in Sessions, o \in {0, Align} : RootCall(s, o)
    \/ Submit
    \/ ToInline
    \/ RootUnlock

Spec == Init /\ [][Next]_vars

-----------------------------------------------------------------------------
(* Safety.                                                                 *)

TypeOK ==
    /\ Len(table) <= MaxTable
    /\ \A i \in 1..Len(table) :
          /\ table[i].cap.holder_cell \in CellIds
          /\ table[i].cap.object_id \in Objects
          /\ table[i].cap.generation \in 1..GenerationMax
    /\ generation \in [CellIds -> 0..GenerationMax]
    /\ \A o \in Objects : DOMAIN contents[o] = 1..ObjectBytes
    /\ clock \in 0..MaxClock
    /\ message.header \in VfMsgHeader
    /\ call.phase \in {"idle", "called", "returned", "submitted", "converted"}
    /\ call.frame.header \in VfMsgHeader
    /\ Len(call.payload) <= PayloadMax

\* Granted bytes have left the adapter: to the executor, or as a frame.
Delivered ==
    CASE call.phase = "submitted" -> call.payload
      [] call.phase = "converted" -> call.frame.payload
      [] OTHER -> <<>>

\* The entries of the root's table, as it is now, that the handle may name.
Named ==
    {i \in 1..Len(table) :
        /\ table[i].cap.holder_cell = message.cell
        /\ table[i].cap.slot = SlotOf(message.header.payload_grant)}

\* No byte leaves the adapter without authority that is in force in the root's
\* own table at that moment: the sending cell holds exactly one capability in
\* that slot, of that generation, live, readable, in its validity window, of
\* a live grant, and the session is that cell's (authorize).
OnlyCurrentAuthority ==
    Delivered # <<>> =>
        /\ Cardinality(Named) = 1
        /\ \A i \in Named :
              LET cap == table[i].cap IN
              /\ Handle(cap.generation, cap.slot)
                    = message.header.payload_grant
              /\ cap.state = VF_CAP_LIVE /\ table[i].state = VF_GRANT_LIVE
              /\ "read" \in cap.rights /\ cap.rights \subseteq AllRights
              /\ call.now \in cap.valid_from..(cap.expires_at - 1)
        /\ call.session.caller_cell = message.cell
        /\ call.session.endpoint_handle = message.header.object
        /\ message.header.opcode = VF_SGPU_SUBMIT_COMMAND_LIST

\* A message that was delayed or repeated across a revocation and a reuse of
\* its slot never reaches the object the slot names now: what is delivered
\* comes from the object the cell meant when it sent the message.
NoStaleHandle ==
    Delivered # <<>> /\ message.object # NoObject =>
        \A i \in Named : table[i].cap.object_id = message.object

\* The bytes delivered are the declared ones of the snapshot, whichever part
\* of the object the root copied, and no more than the payload limit
\* (validate_grant_header, payload_window).
DeliveredBytes ==
    Delivered # <<>> =>
        /\ Len(Delivered) = message.header.payload_bytes
        /\ Len(Delivered) <= PayloadMax
        /\ \A i \in Named, k \in 1..Len(Delivered) :
              Delivered[k] =
                 call.snapshots[i].data[message.header.payload_offset + k
                                        - call.snapshots[i].snapshot_offset]

\* A converted frame is a valid inline frame. If the cell made the message
\* with inline_to_grant, it is the cell's request again: the same operation and
\* request id, and, unless the memory was written in between, the same bytes.
\* It is a data container without authority: sent back as a granted message it
\* gets no bytes for anyone (to_inline, inline_to_grant, authorize).
ConversionKeepsRequest ==
    call.phase = "converted" =>
        LET sent == message.frame
            back == call.frame
        IN  /\ ValidateError(back) = "ok"
            /\ \A s \in Sessions, c \in CellIds :
                  \/ AuthorizeError(s, back.header, call.snapshots, c, call.now)
                        # "ok"
                  \/ AuthorizedPayload(back.header, call.snapshots, c) = <<>>
            /\ message.object # NoObject =>
                  /\ \A field \in {"family", "opcode", "request_id", "object"} :
                        back.header[field] = sent.header[field]
                  /\ \/ back.payload = sent.payload
                     \/ \E i \in Named :
                           call.snapshots[i].data #
                              SubSeq(Published(sent.payload,
                                               message.header.payload_offset),
                                     call.snapshots[i].snapshot_offset + 1,
                                     ObjectBytes)

\* No false refusals: a message whose capability is still the one it was sent
\* under, alone in its slot, in force and readable, is served if the session
\* is the right one, the table is not over its limit, and the root's copy
\* covers the payload.
LiveMessageServed ==
    /\ call.phase = "returned"
    /\ message.object # NoObject
    /\ Len(table) <= TableMax
    /\ call.session.caller_cell = message.cell
    /\ call.session.endpoint_handle = message.header.object
    /\ message.header.opcode = VF_SGPU_SUBMIT_COMMAND_LIST
    /\ Cardinality(Named) = 1
    => \E i \in Named :
          LET cap == table[i].cap IN
          \/ Handle(cap.generation, cap.slot) # message.header.payload_grant
          \/ cap.state # VF_CAP_LIVE \/ table[i].state # VF_GRANT_LIVE
          \/ "read" \notin cap.rights \/ ~(cap.rights \subseteq AllRights)
          \/ call.now \notin cap.valid_from..(cap.expires_at - 1)
          \/ call.snapshots[i].snapshot_offset > message.header.payload_offset
=============================================================================
