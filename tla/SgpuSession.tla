---------------------------- MODULE SgpuSession ----------------------------
(***************************************************************************)
(* The inline SGPU session (src/sgpu.rs, SgpuSession): request frames are  *)
(* validated, dispatched by opcode and executed on the session's virtual   *)
(* device.  dispatch runs under &mut self, so a request is one step.       *)
(*                                                                         *)
(* The device (nextcore_gpu) is not part of the repository.  It is a table *)
(* of buffers, modelled from what the session and its tests rely on.       *)
(***************************************************************************)
EXTENDS VfFrame, FiniteSets

CONSTANTS
    Requests,          \* the frames delivered to dispatch
    MaxResources,      \* SGPU_MAX_RESOURCES
    MaxResourceBytes,  \* SGPU_MAX_RESOURCE_BYTES
    MaxTotalBytes,     \* SGPU_MAX_TOTAL_RESOURCE_BYTES
    MaxCommands,       \* SGPU_MAX_COMMANDS
    HandleMax,         \* u64::MAX, scaled to the handle counter
    GpuHandles,        \* the handles the device gives out
    Byte               \* what a byte of device memory can hold; 0 among them

ASSUME SessionAssumption ==
    /\ MaxResources \in Nat
    /\ MaxResourceBytes \in Nat
    /\ MaxTotalBytes \in Nat
    /\ MaxCommands \in Nat
    /\ HandleMax \in Nat \ {0}
    /\ 0 \in Byte
    \* the largest response is within every limit of a frame
    /\ 1 <= PayloadMax /\ MsgBytes + 1 <= UsizeMax
    /\ \A f \in Requests :
          /\ f = [header |-> f.header, payload |-> f.payload]
          /\ f.header \in VfMsgHeader
          /\ f.payload = [i \in 1..Len(f.payload) |-> f.payload[i]]
          /\ Len(f.payload) = 1 => Num(f.payload[1]) \in Nat
          \* a cell that is a command has a kind and u64 operands
          /\ \A i \in 1..Len(f.payload) :
                Len(f.payload[i]) = 4 =>
                    f.payload[i] \in {"copy", "present", "clear", "compute"}
                                        \X Nat \X Nat \X Nat

VARIABLES
    resources,         \* live handles: [gpu_handle, size]
    next_resource_id,  \* the handle the next resource gets
    memory,            \* the device's buffers, by device handle
    request,           \* the frame dispatched last
    reply              \* what dispatch returned: an error or a response frame

vars == <<resources, next_resource_id, memory, request, reply>>

VF_SGPU_QUERY_CAPS == 1
VF_SGPU_CREATE_RESOURCE == 2
VF_SGPU_DESTROY_RESOURCE == 3
VF_SGPU_SUBMIT_COMMAND_LIST == 5
VF_SGPU_PRESENT == 7
Opcodes == {VF_SGPU_QUERY_CAPS, VF_SGPU_CREATE_RESOURCE,
            VF_SGPU_DESTROY_RESOURCE, VF_SGPU_SUBMIT_COMMAND_LIST,
            VF_SGPU_PRESENT}

\* A table with one entry added, and with one removed.
Insert(table, key, value) ==
    [k \in DOMAIN table \cup {key} |-> IF k = key THEN value ELSE table[k]]
Remove(table, key) == [k \in DOMAIN table \ {key} |-> table[k]]

-----------------------------------------------------------------------------
(* Frames, replies and command lists.                                      *)

NoFrame == [header |-> NewHeader(0, 0), payload |-> <<>>]
Failure(err) == [err |-> err, frame |-> NoFrame]

\* Mutant of Success: the response declares no room for its payload.
SuccessHeaderOnly(f, payload) ==
    [err |-> "ok",
     frame |->
        [header |->
            [NewHeader(VF_FAMILY_SGPU, f.header.opcode) EXCEPT
                !.request_id = f.header.request_id,
                !.payload_bytes = Len(payload)],
         payload |-> payload]]

\* The resp closure of dispatch: the response echoes opcode and request_id.
Success(f, payload) ==
    [err |-> "ok",
     frame |->
        [header |->
            [NewHeader(VF_FAMILY_SGPU, f.header.opcode) EXCEPT
                !.request_id = f.header.request_id,
                !.payload_bytes = Len(payload),
                !.message_bytes = MsgBytes + Len(payload)],
         payload |-> payload]]

\* A command is one cell: its kind and three operands.
Copy(src, dst, n) == <<"copy", src, dst, n>>
Present(buffer) == <<"present", buffer, 0, 0>>
Unsupported(kind) == <<kind, 0, 0, 0>>   \* RenderClear, ComputeDispatch
IsCommand(cell) == Len(cell) = 4

\* SgpuCommandList::decode: a count, then that many commands and no more.
DecodesToList(payload) ==
    /\ payload # <<>>
    /\ Num(payload[1]) = Len(payload) - 1
    /\ \A i \in 2..Len(payload) : IsCommand(payload[i])
List(payload) == Tail(payload)

\* The resources a command names.
Named(cmd) ==
    CASE cmd[1] = "copy" -> {cmd[2], cmd[3]}
      [] cmd[1] = "present" -> {cmd[2]}
      [] OTHER -> {}

-----------------------------------------------------------------------------
(* The device.                                                             *)

Buffer(n) == [1..n -> Byte]
Zeros(n) == [i \in 1..n |-> 0]

\* The first n bytes of one buffer are copied over those of another.
CopyBuffer(mem, src, dst, n) ==
    [mem EXCEPT ![dst] =
        [i \in DOMAIN @ |-> IF i <= n THEN mem[src][i] ELSE @[i]]]

InBounds(mem, cmd) ==
    LET fits(g) == cmd[4] <= Len(mem[g])
    IN  fits(cmd[2]) /\ fits(cmd[3])

\* The memory after a list of in-bounds copies between device buffers: the
\* same buffers with the same sizes, holding other bytes.
Executed(mem, cmds) ==
    LET done[k \in 0..Len(cmds)] ==
            IF k = 0 THEN mem
            ELSE CopyBuffer(done[k - 1], cmds[k][2], cmds[k][3], cmds[k][4])
    IN  [g \in DOMAIN mem |-> [i \in DOMAIN mem[g] |-> done[Len(cmds)][g][i]]]

\* What write_command_buffer and flush may make of a list.  A command the
\* backend does not support rejects the whole list; a copy beyond a buffer
\* stops it, and how much of the list before it was done is left open.
DeviceOutcomes(mem, cmds) ==
    IF \E i \in 1..Len(cmds) : cmds[i][1] # "copy"
    THEN {[err |-> "Gpu", mem |-> mem]}
    ELSE IF \A i \in 1..Len(cmds) : InBounds(mem, cmds[i])
    THEN {[err |-> "ok", mem |-> Executed(mem, cmds)]}
    ELSE {[err |-> "Gpu", mem |-> Executed(mem, SubSeq(cmds, 1, k))] :
             k \in {j \in 0..(Len(cmds) - 1) :
                       \A i \in 1..j : InBounds(mem, cmds[i])}}

-----------------------------------------------------------------------------
(* create_resource.                                                        *)

\* The bytes of the live resources, one element per byte.
LiveBytes(res) == UNION {{h} \X (1..res[h].size) : h \in DOMAIN res}
TotalBytes(res) == Cardinality(LiveBytes(res))

\* Mutants of CreateError: the counter may reach one past its width; the
\* budget is compared before the new resource is added to it.
CreateErrorCounterLate(size) ==
    IF size = 0 THEN "Payload"
    ELSE IF \/ size > UsizeMax
            \/ size > MaxResourceBytes
            \/ Cardinality(DOMAIN resources) >= MaxResources
            \/ TotalBytes(resources) + size > MaxTotalBytes
            \/ next_resource_id > HandleMax
    THEN "ResourceLimit"
    ELSE "ok"
CreateErrorBudgetLate(size) ==
    IF size = 0 THEN "Payload"
    ELSE IF \/ size > UsizeMax
            \/ size > MaxResourceBytes
            \/ Cardinality(DOMAIN resources) >= MaxResources
            \/ TotalBytes(resources) >= MaxTotalBytes
            \/ next_resource_id + 1 > HandleMax
    THEN "ResourceLimit"
    ELSE "ok"

CreateError(size) ==
    IF size = 0 THEN "Payload"
    ELSE IF \/ size > UsizeMax
            \/ size > MaxResourceBytes
            \/ Cardinality(DOMAIN resources) >= MaxResources
            \/ TotalBytes(resources) + size > MaxTotalBytes
            \/ next_resource_id + 1 > HandleMax
    THEN "ResourceLimit"
    ELSE "ok"

\* Mutant of CreateResource: the handle is the number of live resources.
CreateResourceByCount(size, gpu) ==
    /\ gpu \in GpuHandles \ DOMAIN memory
    /\ memory' = Insert(memory, gpu, Zeros(size))
    /\ resources' = Insert(resources, Cardinality(DOMAIN resources) + 1,
                           [gpu_handle |-> gpu, size |-> size])
    /\ next_resource_id' = next_resource_id + 1

CreateResource(size, gpu) ==
    /\ gpu \in GpuHandles \ DOMAIN memory
    /\ memory' = Insert(memory, gpu, Zeros(size))
    /\ resources' = Insert(resources, next_resource_id,
                           [gpu_handle |-> gpu, size |-> size])
    /\ next_resource_id' = next_resource_id + 1

\* Mutants of DestroyResource: the memory is freed and the entry stays; the
\* entry goes and the memory is never freed.
DestroyResourceKeepsEntry(handle, freed) ==
    /\ memory' = IF freed THEN Remove(memory, resources[handle].gpu_handle)
                 ELSE memory
    /\ UNCHANGED <<resources, next_resource_id>>
DestroyResourceLeaks(handle, freed) ==
    /\ resources' = Remove(resources, handle)
    /\ UNCHANGED <<memory, next_resource_id>>

(* destroy_resource: the handle goes first; freeing the memory may fail,   *)
(* and then the device keeps the buffer.                                   *)
DestroyResource(handle, freed) ==
    /\ resources' = Remove(resources, handle)
    /\ memory' = IF freed THEN Remove(memory, resources[handle].gpu_handle)
                 ELSE memory
    /\ UNCHANGED next_resource_id

(* submit: every handle is translated before the device sees a command.    *)
SubmitError(cmds) ==
    IF Len(cmds) > MaxCommands THEN "Payload"
    ELSE IF \E i \in 1..Len(cmds) : ~(Named(cmds[i]) \subseteq DOMAIN resources)
    THEN "ResourceNotFound"
    ELSE "ok"

\* Mutant of Translated: source and destination change places.
TranslatedSwapped(cmds) ==
    [i \in 1..Len(cmds) |->
        CASE cmds[i][1] = "copy" ->
                Copy(resources[cmds[i][3]].gpu_handle,
                     resources[cmds[i][2]].gpu_handle, cmds[i][4])
          [] cmds[i][1] = "present" ->
                Present(resources[cmds[i][2]].gpu_handle)
          [] OTHER -> cmds[i]]

Translated(cmds) ==
    [i \in 1..Len(cmds) |->
        CASE cmds[i][1] = "copy" ->
                Copy(resources[cmds[i][2]].gpu_handle,
                     resources[cmds[i][3]].gpu_handle, cmds[i][4])
          [] cmds[i][1] = "present" ->
                Present(resources[cmds[i][2]].gpu_handle)
          [] OTHER -> cmds[i]]

\* Mutant of Submit: the first command runs before the others are looked up.
SubmitEager(f, cmds, payload) ==
    IF SubmitError(cmds) # "ok"
    THEN /\ reply' = Failure(SubmitError(cmds))
         /\ memory' = IF /\ Named(cmds[1]) \subseteq DOMAIN resources
                         /\ cmds[1][1] = "copy"
                         /\ InBounds(memory, Translated(SubSeq(cmds, 1, 1))[1])
                      THEN Executed(memory, Translated(SubSeq(cmds, 1, 1)))
                      ELSE memory
         /\ UNCHANGED <<resources, next_resource_id>>
    ELSE \E out \in DeviceOutcomes(memory, Translated(cmds)) :
            /\ memory' = out.mem
            /\ reply' = IF out.err = "ok" THEN Success(f, payload)
                        ELSE Failure(out.err)
            /\ UNCHANGED <<resources, next_resource_id>>

\* The submission, ending in success with the given response payload.
Submit(f, cmds, payload) ==
    IF SubmitError(cmds) # "ok"
    THEN /\ reply' = Failure(SubmitError(cmds))
         /\ UNCHANGED <<resources, next_resource_id, memory>>
    ELSE \E out \in DeviceOutcomes(memory, Translated(cmds)) :
            /\ memory' = out.mem
            /\ reply' = IF out.err = "ok" THEN Success(f, payload)
                        ELSE Failure(out.err)
            /\ UNCHANGED <<resources, next_resource_id>>

-----------------------------------------------------------------------------
(* dispatch: one action per arm, and one for the frames that reach none.   *)

Accepts(f, opcode) ==
    /\ request' = f
    /\ ValidateError(f) = "ok"
    /\ f.header.opcode = opcode

Reject(err) ==
    /\ reply' = Failure(err)
    /\ UNCHANGED <<resources, next_resource_id, memory>>

DispatchInvalid(f) ==
    /\ request' = f
    /\ ValidateError(f) # "ok"
    /\ Reject(ValidateError(f))

DispatchUnknown(f) ==
    /\ request' = f
    /\ ValidateError(f) = "ok"
    /\ f.header.opcode \notin Opcodes
    /\ Reject("Eabi")

DispatchQueryCaps(f) ==
    /\ Accepts(f, VF_SGPU_QUERY_CAPS)
    /\ IF f.payload # <<>>
       THEN Reject("Payload")
       ELSE /\ reply' = Success(f, <<Word(1)>>)   \* the encoded capabilities
            /\ UNCHANGED <<resources, next_resource_id, memory>>

DispatchCreate(f) ==
    /\ Accepts(f, VF_SGPU_CREATE_RESOURCE)
    /\ IF Len(f.payload) # 1
       THEN Reject("Payload")
       ELSE LET size == Num(f.payload[1])
            IN  IF CreateError(size) # "ok"
                THEN Reject(CreateError(size))
                ELSE /\ \E gpu \in GpuHandles : CreateResource(size, gpu)
                     /\ reply' = Success(f, <<Word(next_resource_id)>>)

DispatchDestroy(f) ==
    /\ Accepts(f, VF_SGPU_DESTROY_RESOURCE)
    /\ IF Len(f.payload) # 1
       THEN Reject("Payload")
       ELSE LET handle == Num(f.payload[1])
            IN  IF handle \notin DOMAIN resources
                THEN Reject("ResourceNotFound")
                ELSE \E freed \in BOOLEAN :
                        /\ DestroyResource(handle, freed)
                        /\ reply' = IF freed THEN Success(f, <<>>)
                                    ELSE Failure("Gpu")

DispatchSubmit(f) ==
    /\ Accepts(f, VF_SGPU_SUBMIT_COMMAND_LIST)
    /\ IF ~DecodesToList(f.payload)
       THEN Reject("Payload")
       ELSE Submit(f, List(f.payload), <<Word(Len(List(f.payload)))>>)

DispatchPresent(f) ==
    /\ Accepts(f, VF_SGPU_PRESENT)
    /\ IF Len(f.payload) # 1
       THEN Reject("Payload")
       ELSE Submit(f, <<Present(Num(f.payload[1]))>>, <<>>)

\* The session's device is a public field: its owner may write any buffer.
HostWrite(g, buffer) ==
    /\ g \in DOMAIN memory
    /\ DOMAIN buffer = DOMAIN memory[g]
    /\ memory' = [memory EXCEPT ![g] = buffer]
    /\ request' = NoFrame
    /\ reply' = Failure("none")
    /\ UNCHANGED <<resources, next_resource_id>>

-----------------------------------------------------------------------------

Init ==
    /\ resources = [h \in {} |-> 0]
    /\ next_resource_id = 1
    /\ memory = [g \in {} |-> <<>>]
    /\ request = NoFrame
    /\ reply = Failure("none")

Dispatch(f) ==
    \/ DispatchInvalid(f)
    \/ DispatchUnknown(f)
    \/ DispatchQueryCaps(f)
    \/ DispatchCreate(f)
    \/ DispatchDestroy(f)
    \/ DispatchSubmit(f)
    \/ DispatchPresent(f)

Next ==
    \/ \E f \in Requests : Dispatch(f)
    \/ \E g \in GpuHandles, n \in 1..MaxResourceBytes :
          \E buffer \in Buffer(n) : HostWrite(g, buffer)

Spec == Init /\ [][Next]_vars

-----------------------------------------------------------------------------
(* Safety.                                                                 *)

TypeOK ==
    /\ DOMAIN resources \subseteq 1..HandleMax
    /\ \A h \in DOMAIN resources :
          resources[h] \in [gpu_handle : GpuHandles, size : 1..MaxResourceBytes]
    /\ next_resource_id \in 1..HandleMax
    /\ DOMAIN memory \subseteq GpuHandles
    /\ \A g \in DOMAIN memory : \E n \in 1..MaxResourceBytes :
          DOMAIN memory[g] = 1..n
    /\ request \in Requests \cup {NoFrame}
    /\ reply.err \in {"none", "ok", "Eabi", "Erange", "Payload",
                      "ResourceLimit", "ResourceNotFound", "Gpu"}

\* The device bytes behind a live handle.
Contents(h) == memory[resources[h].gpu_handle]

\* Every live handle is backed by a device buffer of its recorded size that
\* no other live handle shares, through any sequence of creations, destroys
\* with failed frees and reuse of device handles (create_resource,
\* destroy_resource).
PrivateBacking ==
    /\ \A h \in DOMAIN resources :
          /\ resources[h].gpu_handle \in DOMAIN memory
          /\ DOMAIN Contents(h) = 1..resources[h].size
    /\ \A h, k \in DOMAIN resources :
          resources[h].gpu_handle = resources[k].gpu_handle => h = k

\* Whatever was created and destroyed before, the live resources are within the
\* count limit and together within the byte limit, and every live handle is
\* below the counter, which itself never wraps.
WithinBudget ==
    /\ Cardinality(DOMAIN resources) <= MaxResources
    /\ TotalBytes(resources) <= MaxTotalBytes
    /\ \A h \in DOMAIN resources : h < next_resource_id
    /\ next_resource_id <= HandleMax

\* A success reply is itself a frame from_wire accepts, and answers the
\* request it was made for (dispatch, the resp closure).
ReplyWellFormed ==
    reply.err = "ok" =>
        /\ ValidateError(reply.frame) = "ok"
        /\ reply.frame.header.opcode = request.header.opcode
        /\ reply.frame.header.request_id = request.header.request_id

\* A handle, once destroyed, never names a resource again: what becomes live
\* was never live before.
Retired == {h \in 1..(next_resource_id - 1) : h \notin DOMAIN resources}
HandleNeverReused == [][Retired \subseteq Retired']_vars

\* A request that fails leaves no trace: no handle, no budget, no byte.  The
\* exception is the device's own error, which destroy_resource and submit
\* only meet after the point of no return.
FailureIsClean ==
    [][reply'.err \notin {"ok", "none", "Gpu"} =>
          UNCHANGED <<resources, next_resource_id, memory>>]_vars

\* Memory the session has lost track of: only a destroy whose free failed
\* adds to it, and its handle is dead by then, so the client cannot retry.
Orphans ==
    DOMAIN memory \ {resources[h].gpu_handle : h \in DOMAIN resources}
OrphanOnlyByFailedFree ==
    [][Orphans' # Orphans =>
          /\ Orphans \subseteq Orphans'
          /\ Cardinality(Orphans' \ Orphans) = 1
          /\ request'.header.opcode = VF_SGPU_DESTROY_RESOURCE
          /\ reply'.err = "Gpu"
          /\ Num(request'.payload[1]) \in Retired']_vars

\* The request as its client means it: what frames say, without the frames.
Asked(f) ==
    LET ask(op, arg, list) == [op |-> op, arg |-> arg, list |-> list]
        opcode == f.header.opcode
        one == Len(f.payload) = 1
    IN  IF ValidateError(f) # "ok" THEN ask("other", 0, <<>>)
        ELSE CASE opcode = VF_SGPU_CREATE_RESOURCE /\ one ->
                    ask("create", Num(f.payload[1]), <<>>)
               [] opcode = VF_SGPU_DESTROY_RESOURCE /\ one ->
                    ask("destroy", Num(f.payload[1]), <<>>)
               [] opcode = VF_SGPU_PRESENT /\ one ->
                    ask("submit", 0, <<Present(Num(f.payload[1]))>>)
               [] opcode = VF_SGPU_SUBMIT_COMMAND_LIST
                     /\ DecodesToList(f.payload) ->
                    ask("submit", 0, List(f.payload))
               [] OTHER -> ask("other", 0, <<>>)

\* The session implements its service: for the requests as their clients mean
\* them, the buffers behind the handles, the handles given out and the answers
\* behave as SgpuService says (dispatch with everything it calls).
Service == INSTANCE SgpuService WITH
    MaxBytes <- MaxResourceBytes,
    contents <- [h \in DOMAIN resources |-> Contents(h)],
    issued <- next_resource_id - 1,
    asked <- Asked(request),
    answer <- [err |-> reply.err,
               handle |-> IF /\ reply.err = "ok"
                             /\ request.header.opcode = VF_SGPU_CREATE_RESOURCE
                          THEN Num(reply.frame.payload[1])
                          ELSE 0]
ImplementsService == Service!Spec
=============================================================================
