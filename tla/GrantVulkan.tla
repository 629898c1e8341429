----------------------------- MODULE GrantVulkan -----------------------------
(***************************************************************************)
(* The validation program examples/sgpu_grant_vulkan.rs: the grant adapter *)
(* composed with a compute device.  It sends one granted list (a copy and  *)
(* two dispatches) twice over new input, reads the results back, sends     *)
(* nine altered messages that must be refused, and prints a receipt.       *)
(*                                                                         *)
(* The device is outside the repository.  It may report a command as       *)
(* failed, after a prefix that stays in force (the contract in             *)
(* SGPU_GRANT_TRANSPORT.md), and, since the receipt is there to find out,  *)
(* may also do a command in part, or not at all, and count it as complete. *)
(* A buffer has a guard, one word for each workgroup, and a guard.         *)
(***************************************************************************)
EXTENDS GrantPolicy

CONSTANTS
    Groups,     \* the workgroups of a dispatch
    WordSpan    \* 2^32, the values of a word

\* The message of the program fits the profile, a usize and the table; a word
\* wraps at a multiple of 64.
ASSUME VulkanAssumption ==
    /\ Groups \in Nat
    /\ WordSpan \in Nat \ {0} /\ WordSpan % 64 = 0
    /\ PayloadMax >= 7 /\ UsizeMax >= 20
    /\ SlotSpan > 7 /\ 16 % Align = 0
    /\ TableMax >= 1
    /\ NoObject # "object"

VARIABLES
    pc,          \* where the program stands
    run,         \* which of the two runs
    rejected,    \* how many altered messages were refused
    todo,        \* the commands of the list in execution
    source, destination,   \* the device's two buffers
    completed,   \* completed_command_count
    builds,      \* vulkan_pipeline_build_count
    before,      \* the destination behind the second run
    failure,     \* the error the program ends with
    copied, dispatched,    \* history: what the device did to each word
    honest       \* history: the device did all it was asked for

deviceVars == <<source, destination, completed, builds>>
historyVars == <<copied, dispatched, honest>>
vulkanVars == <<pc, run, rejected, todo, deviceVars, before, failure, historyVars>>

Words == 1..Groups
Cells == 0..(Groups + 1)   \* a buffer, its guards at both ends

-----------------------------------------------------------------------------
(* The message, the grant and the root's view of it.                       *)

CELL == 42
ENDPOINT == Handle(2, 5)
GRANT == Handle(3, 7)
Session == [caller_cell |-> CELL, endpoint_handle |-> ENDPOINT]

CopyTag == 1
DispatchTag == 3
Payload == <<Word(3), Word(CopyTag), Word(DispatchTag), Word(DispatchTag)>>

Inline ==
    [header |-> [NewHeader(VF_FAMILY_SGPU, VF_SGPU_SUBMIT_COMMAND_LIST) EXCEPT
                    !.request_id = 6,
                    !.object = ENDPOINT,
                    !.payload_bytes = Len(Payload),
                    !.payload_offset = 3,
                    !.message_bytes = MsgBytes + 3 + Len(Payload)],
     payload |-> Payload]

Wire == GrantHeader(FromWire(ToWire(Inline)), GRANT, 16)

Grant ==
    [cap |-> [slot |-> 7, generation |-> 3, holder_cell |-> CELL,
              object_type |-> VF_OBJECT_GRANT, rights |-> {"read"},
              state |-> VF_CAP_LIVE, object_id |-> "object",
              valid_from |-> 10, expires_at |-> 20],
     bytes |-> 16 + Len(Payload) + 8, owner_cell |-> 11,
     state |-> VF_GRANT_LIVE]

\* The grant from byte 8 on: eight bytes, the payload, eight bytes.
Snapshot ==
    [i \in 1..8 |-> Word(9)] \o Payload \o [i \in 1..8 |-> Word(5)]

Views(entry, data) ==
    <<[entry |-> entry, snapshot_offset |-> 8, data |-> data]>>

Kinds == <<"generation", "revoke", "owner", "read-right", "grant-range",
           "expiry", "route", "snapshot-range", "unsupported-opcode">>

AlteredGrant(kind) ==
    CASE kind = "generation" -> [Grant EXCEPT !.cap.generation = @ + 1]
      [] kind = "revoke" -> [Grant EXCEPT !.state = 2, !.cap.state = 2]
      [] kind = "owner" -> [Grant EXCEPT !.owner_cell = 0]
      [] kind = "read-right" -> [Grant EXCEPT !.cap.rights = {"write"}]
      [] kind = "grant-range" -> [Grant EXCEPT !.bytes = 16 + Len(Payload) - 1]
      [] OTHER -> Grant
AlteredHeader(kind) ==
    CASE kind = "route" -> [Wire EXCEPT !.object = @ + 1]
      [] kind = "unsupported-opcode" -> [Wire EXCEPT !.opcode = 7]
      [] OTHER -> Wire
AlteredData(kind) ==
    IF kind = "snapshot-range" THEN SubSeq(Snapshot, 1, 7) ELSE Snapshot

\* What the session answers to the message of a kind; "" is the one that is
\* not altered.
Authorization(kind) ==
    AuthorizeError(Session, AlteredHeader(kind),
                   Views(AlteredGrant(kind), AlteredData(kind)), CELL,
                   IF kind = "expiry" THEN 20 ELSE 15)

-----------------------------------------------------------------------------
(* The data.                                                               *)

\* x ^ 0xff00: the second byte of x becomes its complement.
Flipped(x) == x + 256 * (255 - 2 * ((x \div 256) % 256))

\* Mutant of Input: the second run is given the data of the first.
InputOnce(r, w) == Flipped((w - 1) * 64 * 123 + 71) % WordSpan

\* The first word of each workgroup's part, in the runs 0 and 1.
Input(r, w) == Flipped((w - 1) * 64 * (123 + r * 14) + 71 + r) % WordSpan

Upload(r) ==
    [c \in Cells |-> IF c = 0 THEN 60
                     ELSE IF c = Groups + 1 THEN 195
                     ELSE Input(r, c)]

Kernel(x) == (x * 3 + 7) % WordSpan   \* sgpu_grant.comp

-----------------------------------------------------------------------------

VulkanInit ==
    /\ pc = "setup"
    /\ run = 0
    /\ rejected = 0
    /\ todo = <<>>
    /\ source = [c \in Cells |-> 0]
    /\ destination = [c \in Cells |-> 0]
    /\ completed = 0
    /\ builds = 0
    /\ before = [c \in Cells |-> 0]
    /\ failure = "none"
    /\ copied = [w \in Words |-> 0]
    /\ dispatched = [w \in Words |-> 0]
    /\ honest = TRUE

Goto(place) == pc' = place /\ UNCHANGED failure
Abort(error) == pc' = "failed" /\ failure' = error

\* Arguments, shader, device and registrations, each of which may fail.
SetupFails ==
    /\ pc = "setup"
    /\ Abort("setup")
    /\ honest' = FALSE
    /\ UNCHANGED <<run, rejected, todo, deviceVars, before, copied, dispatched>>

\* The list as an inline frame, over the wire, as a granted message, and back
\* from it (new, try_to_wire, from_wire, inline_to_grant, to_inline).
Normalize ==
    /\ pc = "setup"
    /\ LET back == InlineFrame(Wire, AuthorizedPayload(Wire,
                                          Views(Grant, Snapshot), CELL))
       IN  IF \/ NewError(Session) # "ok"
              \/ ValidateError(Inline) # "ok"
              \/ FromWireError(ToWire(Inline)) # "ok"
              \/ InlineToGrantError(FromWire(ToWire(Inline)), GRANT, 16) # "ok"
              \/ Authorization("") # "ok"
              \/ ValidateError(back) # "ok"
              \/ back.payload # Payload
              \/ back.header.payload_offset # 0 \/ back.header.payload_grant # 0
           THEN Abort("authorized inline normalization differs")
           ELSE Goto("upload")
    /\ UNCHANGED <<run, rejected, todo, deviceVars, before, historyVars>>

WriteSource ==
    /\ pc = "upload"
    /\ source' = Upload(run)
    /\ Goto("submit")
    /\ UNCHANGED <<run, rejected, todo, destination, completed, builds, before,
                   historyVars>>

SubmitList ==
    /\ pc = "submit"
    /\ IF Authorization("") # "ok"
       THEN Abort("grant") /\ UNCHANGED todo
       ELSE /\ todo' = Tail(AuthorizedPayload(Wire, Views(Grant, Snapshot), CELL))
            /\ Goto("execute")
    /\ UNCHANGED <<run, rejected, deviceVars, before, historyVars>>

\* The device (external) does what it likes of a command, or says it failed.
Copy ==
    /\ Num(Head(todo)) = CopyTag
    /\ \E part \in SUBSET Cells :
          /\ destination' = [c \in Cells |-> IF c \in part THEN source[c]
                                             ELSE destination[c]]
          /\ copied' = [w \in Words |-> copied[w] + (IF w \in part THEN 1 ELSE 0)]
          /\ honest' = (honest /\ part = Cells)
    /\ UNCHANGED <<builds, dispatched>>
Dispatch ==
    /\ Num(Head(todo)) = DispatchTag
    /\ \E part \in SUBSET Words, rebuild \in BOOLEAN :
          /\ builds = 0 => rebuild
          /\ builds' = IF rebuild THEN builds + 1 ELSE builds
          /\ destination' = [c \in Cells |-> IF c \in part
                                             THEN Kernel(destination[c])
                                             ELSE destination[c]]
          /\ dispatched' = [w \in Words |->
                               dispatched[w] + (IF w \in part THEN 1 ELSE 0)]
          /\ honest' = (honest /\ part = Words /\ (rebuild => builds = 0))
    /\ UNCHANGED copied
DeviceExecutes ==
    /\ pc = "execute" /\ todo # <<>>
    /\ Copy \/ Dispatch
    /\ todo' = Tail(todo)
    /\ completed' = completed + 1
    /\ UNCHANGED <<pc, run, rejected, source, before, failure>>
\* Any access to the device may be refused: write_resource, a command of the
\* list, read_resource.
DeviceFails ==
    /\ pc \in {"upload", "execute", "reject"}
    /\ Abort("device")
    /\ honest' = FALSE
    /\ UNCHANGED <<run, rejected, todo, deviceVars, before, copied, dispatched>>

\* Every command is counted; the count is that of the list.
Readback ==
    /\ pc = "execute" /\ todo = <<>>
    /\ IF \/ \E w \in Words : \/ destination[w] # Kernel(Kernel(Input(run, w)))
                              \/ destination[w] = Input(run, w)
          \/ destination[0] # 60
          \/ destination[Groups + 1] # 195
       THEN Abort("readback or guards differ") /\ UNCHANGED <<run, before>>
       ELSE IF run = 0
       THEN run' = 1 /\ Goto("upload") /\ UNCHANGED before
       ELSE before' = destination /\ Goto("reject") /\ UNCHANGED run
    /\ UNCHANGED <<rejected, todo, deviceVars, historyVars>>

\* One altered message. What an executor would make of an accepted one does
\* not matter: the program ends either way.
Reject ==
    /\ pc = "reject" /\ rejected < Len(Kinds)
    /\ IF Authorization(Kinds[rejected + 1]) = "ok"
       THEN Abort("invalid grant unexpectedly executed") /\ UNCHANGED rejected
       ELSE IF destination # before \/ completed # 6
       THEN Abort("rejected grant changed data") /\ UNCHANGED rejected
       ELSE rejected' = rejected + 1 /\ Goto("reject")
    /\ UNCHANGED <<run, todo, deviceVars, before, historyVars>>

Receipt ==
    /\ pc = "reject" /\ rejected = Len(Kinds)
    /\ IF builds = 1 THEN Goto("receipt") ELSE Abort("pipeline recompiled")
    /\ UNCHANGED <<run, rejected, todo, deviceVars, before, historyVars>>

VulkanNext ==
    \/ SetupFails \/ Normalize \/ WriteSource \/ SubmitList
    \/ DeviceExecutes \/ DeviceFails \/ Readback
    \/ Reject \/ Receipt

VulkanSpec == VulkanInit /\ [][VulkanNext]_vulkanVars

-----------------------------------------------------------------------------
(* Properties.                                                             *)

\* A receipt is true of the device, whatever that did, in part or not at all:
\* each word was copied in both runs and dispatched twice in each, and
\* nothing but that was counted ("software_buffer_copies":2,
\* "gpu_dispatches":4, "completed_commands":6).
ReceiptHonest ==
    pc = "receipt" =>
        /\ \A w \in Words : copied[w] = 2 /\ dispatched[w] = 4
        /\ completed = 6
        /\ builds = 1

\* The program fails only if the device or its setup did: every altered
\* message is refused, by the adapter and without effect, and the one that is
\* not altered is accepted each time.
NoFalseAlarm == pc = "failed" => ~honest

=============================================================================
