------------------------- MODULE SgpuSession_proof -------------------------
(* Proofs about the inline session, for every limit and every device.      *)
EXTENDS SgpuSession, FiniteSetTheorems, SequenceTheorems,
        WellFoundedInduction, TLAPS

Errors == {"none", "ok", "Eabi", "Erange", "Payload", "ResourceLimit",
           "ResourceNotFound", "Gpu"}

\* The inductive invariant: type, backing and budget together.
IInv == TypeOK /\ PrivateBacking /\ WithinBudget

-----------------------------------------------------------------------------
(* Finite sets of live bytes.                                              *)

LEMMA UpTo ==
    ASSUME NEW n \in Nat
    PROVE  IsFiniteSet(1..n) /\ Cardinality(1..n) = n
<1>1. 1 \in Int /\ n \in Int
    OBVIOUS
<1>2. Cardinality(1..n) = IF 1 > n THEN 0 ELSE n - 1 + 1
    BY ONLY <1>1, FS_Interval
<1>3. IsFiniteSet(1..n)
    BY ONLY <1>1, FS_Interval
<1>4. QED
    BY <1>2, <1>3

Table(res) ==
    /\ DOMAIN res \subseteq 1..HandleMax
    /\ \A h \in DOMAIN res :
          res[h] \in [gpu_handle : GpuHandles, size : 1..MaxResourceBytes]

LEMMA TableFinite ==
    ASSUME NEW res, Table(res)
    PROVE  /\ IsFiniteSet(DOMAIN res)
           /\ Cardinality(DOMAIN res) \in Nat
           /\ IsFiniteSet(LiveBytes(res))
           /\ TotalBytes(res) \in Nat
<1>1. IsFiniteSet(1..HandleMax) /\ IsFiniteSet(1..MaxResourceBytes)
    BY UpTo, SessionAssumption
<1>2. IsFiniteSet(DOMAIN res)
    BY <1>1, FS_Subset DEF Table
<1>3. LiveBytes(res) \subseteq (1..HandleMax) \X (1..MaxResourceBytes)
  <2>1. SUFFICES ASSUME NEW h \in DOMAIN res,
                        NEW i \in 1..res[h].size
                 PROVE  /\ h \in 1..HandleMax
                        /\ i \in 1..MaxResourceBytes
      BY DEF LiveBytes
  <2>2. h \in 1..HandleMax /\ res[h].size \in 1..MaxResourceBytes
      BY DEF Table
  <2>3. QED
      BY <2>2, SessionAssumption
<1>4. IsFiniteSet((1..HandleMax) \X (1..MaxResourceBytes))
    BY <1>1, FS_Product
<1>5. QED
    BY <1>2, <1>3, <1>4, FS_Subset, FS_CardinalityType DEF TotalBytes

LEMMA LiveFinite ==
    ASSUME TypeOK
    PROVE  /\ IsFiniteSet(DOMAIN resources)
           /\ Cardinality(DOMAIN resources) \in Nat
           /\ IsFiniteSet(LiveBytes(resources))
           /\ TotalBytes(resources) \in Nat
    BY TableFinite DEF TypeOK, Table

\* Creating a resource under a new handle adds exactly its bytes at most.
LEMMA CreateBytes ==
    ASSUME TypeOK, NEW id, NEW gpu, NEW size \in Nat, id \notin DOMAIN resources,
           NEW res,
           res = Insert(resources, id, [gpu_handle |-> gpu, size |-> size])
    PROVE  TotalBytes(res) <= TotalBytes(resources) + size
<1>1. /\ DOMAIN res = DOMAIN resources \cup {id}
      /\ res[id] = [gpu_handle |-> gpu, size |-> size]
      /\ \A h \in DOMAIN resources : res[h] = resources[h]
    BY DEF Insert
<1>2. LiveBytes(res) = LiveBytes(resources) \cup ({id} \X (1..size))
    BY <1>1 DEF LiveBytes
<1>3. /\ IsFiniteSet({id}) /\ Cardinality({id}) = 1
      /\ IsFiniteSet(1..size) /\ Cardinality(1..size) = size
    BY FS_Singleton, UpTo
<1>4. /\ IsFiniteSet({id} \X (1..size))
      /\ Cardinality({id} \X (1..size)) = size
  <2>1. /\ IsFiniteSet({id} \X (1..size))
        /\ Cardinality({id} \X (1..size))
              = Cardinality({id}) * Cardinality(1..size)
      BY <1>3, FS_Product
  <2>2. QED
      BY <1>3, <2>1
<1>5. /\ Cardinality(LiveBytes(resources) \cap ({id} \X (1..size))) \in Nat
      /\ Cardinality(LiveBytes(res))
            = Cardinality(LiveBytes(resources))
              + Cardinality({id} \X (1..size))
              - Cardinality(LiveBytes(resources) \cap ({id} \X (1..size)))
    BY <1>2, <1>4, LiveFinite, FS_Union, FS_Intersection, FS_CardinalityType
<1>6. QED
    BY <1>4, <1>5, LiveFinite DEF TotalBytes

\* Forgetting a handle never adds to the count or to the bytes.
LEMMA DestroyBytes ==
    ASSUME TypeOK, NEW id, NEW res,
           res = Remove(resources, id)
    PROVE  /\ Cardinality(DOMAIN res) <= Cardinality(DOMAIN resources)
           /\ TotalBytes(res) <= TotalBytes(resources)
<1>1. DOMAIN res \subseteq DOMAIN resources
    BY DEF Remove
<1>2. LiveBytes(res) \subseteq LiveBytes(resources)
    BY DEF LiveBytes, Remove
<1>3. QED
    BY <1>1, <1>2, LiveFinite, FS_Subset DEF TotalBytes

-----------------------------------------------------------------------------
(* Steps that leave the shape of the device memory alone.                  *)

LEMMA ExecutedShape ==
    ASSUME NEW mem, NEW cmds
    PROVE  /\ DOMAIN Executed(mem, cmds) = DOMAIN mem
           /\ \A g \in DOMAIN mem :
                 DOMAIN Executed(mem, cmds)[g] = DOMAIN mem[g]
    BY DEF Executed

LEMMA OutcomeShape ==
    ASSUME NEW mem, NEW cmds, NEW out \in DeviceOutcomes(mem, cmds)
    PROVE  /\ out.err \in {"ok", "Gpu"}
           /\ DOMAIN out.mem = DOMAIN mem
           /\ \A g \in DOMAIN mem : DOMAIN out.mem[g] = DOMAIN mem[g]
<1>1. CASE out = [err |-> "Gpu", mem |-> mem]
    BY <1>1
<1>2. CASE out = [err |-> "ok", mem |-> Executed(mem, cmds)]
    BY <1>2, ExecutedShape
<1>3. CASE \E k \in 0..(Len(cmds) - 1) :
              out = [err |-> "Gpu", mem |-> Executed(mem, SubSeq(cmds, 1, k))]
    BY <1>3, ExecutedShape
<1>4. QED
    BY <1>1, <1>2, <1>3 DEF DeviceOutcomes

ShapeKept ==
    /\ DOMAIN memory' = DOMAIN memory
    /\ \A g \in DOMAIN memory : DOMAIN memory'[g] = DOMAIN memory[g]
    /\ UNCHANGED <<resources, next_resource_id>>

LEMMA ShapeKeptIInv ==
    ASSUME IInv, ShapeKept, request' \in Requests \cup {NoFrame},
           reply'.err \in Errors
    PROVE  IInv'
<1>1. TypeOK'
    BY DEF IInv, TypeOK, ShapeKept, Errors
<1>2. PrivateBacking'
    BY DEF IInv, PrivateBacking, Contents, ShapeKept
<1>3. WithinBudget'
    BY DEF IInv, WithinBudget, ShapeKept
<1>4. QED
    BY <1>1, <1>2, <1>3 DEF IInv

LEMMA ErrorTypes ==
    /\ \A f : ValidateError(f) \in {"ok", "Eabi", "Erange", "Payload"}
    /\ \A n : CreateError(n) \in {"ok", "Payload", "ResourceLimit"}
    /\ \A c : SubmitError(c) \in {"ok", "Payload", "ResourceNotFound"}
<1>1. \A f : ValidateError(f) \in {"ok", "Eabi", "Erange", "Payload"}
    BY DEF ValidateError, FrameLayoutError, ShapeError, PayloadEndError,
           IndexError
<1>2. \A n : CreateError(n) \in {"ok", "Payload", "ResourceLimit"}
    BY DEF CreateError
<1>3. \A c : SubmitError(c) \in {"ok", "Payload", "ResourceNotFound"}
    BY DEF SubmitError
<1>4. QED
    BY <1>1, <1>2, <1>3

LEMMA RejectStep ==
    ASSUME NEW err, Reject(err) PROVE ShapeKept /\ reply'.err = err
    BY DEF Reject, Failure, ShapeKept

LEMMA SubmitStep ==
    ASSUME NEW f, NEW cmds, NEW payload, Submit(f, cmds, payload)
    PROVE  ShapeKept /\ reply'.err \in Errors
<1>1. CASE SubmitError(cmds) # "ok"
    BY <1>1, ErrorTypes DEF Submit, Failure, ShapeKept, Errors
<1>2. CASE SubmitError(cmds) = "ok"
  <2>1. PICK out \in DeviceOutcomes(memory, Translated(cmds)) :
           /\ memory' = out.mem
           /\ reply' = IF out.err = "ok" THEN Success(f, payload)
                       ELSE Failure(out.err)
           /\ UNCHANGED <<resources, next_resource_id>>
      BY <1>2 DEF Submit
  <2>2. ShapeKept
      BY <2>1, OutcomeShape DEF ShapeKept
  <2>3. reply'.err \in Errors
      BY <2>1, OutcomeShape DEF Success, Failure, Errors
  <2>4. QED
      BY <2>2, <2>3
<1>3. QED
    BY <1>1, <1>2

-----------------------------------------------------------------------------
(* The steps that change the tables.                                       *)

LEMMA CreateStep ==
    ASSUME IInv, NEW size \in Nat, CreateError(size) = "ok",
           NEW gpu, CreateResource(size, gpu),
           request' \in Requests, reply'.err = "ok"
    PROVE  IInv'
<1> DEFINE id == next_resource_id
           entry == [gpu_handle |-> gpu, size |-> size]
<1>1. /\ size \in 1..MaxResourceBytes
      /\ Cardinality(DOMAIN resources) < MaxResources
      /\ TotalBytes(resources) + size <= MaxTotalBytes
      /\ id + 1 <= HandleMax
  <2>1. Cardinality(DOMAIN resources) \in Nat /\ TotalBytes(resources) \in Nat
      BY LiveFinite DEF IInv
  <2>2. next_resource_id \in Nat
      BY SessionAssumption DEF IInv, TypeOK
  <2>3. QED
      BY <2>1, <2>2, SessionAssumption DEF CreateError
<1>2. /\ id \in 1..HandleMax /\ id' = id + 1
      /\ id \notin DOMAIN resources
      /\ gpu \in GpuHandles /\ gpu \notin DOMAIN memory
    BY SessionAssumption DEF CreateResource, IInv, TypeOK, WithinBudget
<1>3. /\ resources' = Insert(resources, id, entry)
      /\ DOMAIN resources' = DOMAIN resources \cup {id}
      /\ resources'[id] = entry
      /\ \A h \in DOMAIN resources : h # id /\ resources'[h] = resources[h]
    BY <1>2 DEF CreateResource, Insert
<1>4. /\ DOMAIN memory' = DOMAIN memory \cup {gpu}
      /\ DOMAIN memory'[gpu] = 1..size
      /\ \A g \in DOMAIN memory : g # gpu /\ memory'[g] = memory[g]
    BY <1>2 DEF CreateResource, Insert, Zeros
<1>5. TypeOK'
  <2>1. /\ DOMAIN resources' \subseteq 1..HandleMax
        /\ \A h \in DOMAIN resources' :
              resources'[h] \in [gpu_handle : GpuHandles,
                                 size : 1..MaxResourceBytes]
      BY <1>1, <1>2, <1>3 DEF IInv, TypeOK
  <2>2. next_resource_id' \in 1..HandleMax
      BY <1>1, <1>2, SessionAssumption
  <2>3. /\ DOMAIN memory' \subseteq GpuHandles
        /\ \A g \in DOMAIN memory' : \E n \in 1..MaxResourceBytes :
              DOMAIN memory'[g] = 1..n
      BY <1>1, <1>2, <1>4 DEF IInv, TypeOK
  <2>4. QED
      BY <2>1, <2>2, <2>3 DEF TypeOK
<1>6. PrivateBacking'
  <2>1. ASSUME NEW h \in DOMAIN resources'
        PROVE  /\ resources'[h].gpu_handle \in DOMAIN memory'
               /\ DOMAIN memory'[resources'[h].gpu_handle]
                     = 1..resources'[h].size
    <3>1. CASE h = id
        BY <3>1, <1>3, <1>4
    <3>2. CASE h \in DOMAIN resources
        BY <3>2, <1>3, <1>4 DEF IInv, PrivateBacking, Contents
    <3>3. QED
        BY <3>1, <3>2, <1>3
  <2>2. ASSUME NEW h \in DOMAIN resources', NEW k \in DOMAIN resources',
               resources'[h].gpu_handle = resources'[k].gpu_handle
        PROVE  h = k
      BY <2>2, <1>2, <1>3 DEF IInv, PrivateBacking
  <2>3. QED
      BY <2>1, <2>2 DEF PrivateBacking, Contents
<1>7. WithinBudget'
  <2>1. Cardinality(DOMAIN resources') <= MaxResources
    <3>1. IsFiniteSet(DOMAIN resources) /\ Cardinality(DOMAIN resources) \in Nat
        BY LiveFinite DEF IInv
    <3>2. Cardinality(DOMAIN resources') = Cardinality(DOMAIN resources) + 1
        BY <3>1, <1>2, <1>3, FS_AddElement
    <3>3. QED
        BY <3>1, <3>2, <1>1, SessionAssumption
  <2>2. TotalBytes(resources') <= MaxTotalBytes
    <3>1. TotalBytes(resources') <= TotalBytes(resources) + size
        BY <1>2, <1>3, CreateBytes DEF IInv
    <3>2. TotalBytes(resources) \in Nat /\ TotalBytes(resources') \in Nat
      <4>1. Table(resources')
          BY <1>5 DEF TypeOK, Table
      <4>2. QED
          BY <4>1, TableFinite, LiveFinite DEF IInv
    <3>3. QED
        BY <3>1, <3>2, <1>1, SessionAssumption
  <2>3. \A h \in DOMAIN resources' : h < next_resource_id'
      BY <1>2, <1>3, SessionAssumption DEF IInv, WithinBudget, TypeOK
  <2>4. QED
      BY <2>1, <2>2, <2>3, <1>1, <1>2 DEF WithinBudget
<1>8. QED
    BY <1>5, <1>6, <1>7 DEF IInv

LEMMA DestroyStep ==
    ASSUME IInv, NEW handle \in DOMAIN resources, NEW freed \in BOOLEAN,
           DestroyResource(handle, freed),
           request' \in Requests, reply'.err \in Errors
    PROVE  IInv'
<1> DEFINE gpu == resources[handle].gpu_handle
<1>1. /\ DOMAIN resources' = DOMAIN resources \ {handle}
      /\ \A h \in DOMAIN resources' :
            h # handle /\ h \in DOMAIN resources /\ resources'[h] = resources[h]
      /\ next_resource_id' = next_resource_id
    BY DEF DestroyResource, Remove
<1>2. /\ DOMAIN memory \ {gpu} \subseteq DOMAIN memory'
      /\ DOMAIN memory' \subseteq DOMAIN memory
      /\ \A g \in DOMAIN memory' : memory'[g] = memory[g]
    BY DEF DestroyResource, Remove
<1>3. TypeOK'
    BY <1>1, <1>2 DEF IInv, TypeOK, Errors
<1>4. PrivateBacking'
  <2>1. ASSUME NEW h \in DOMAIN resources'
        PROVE  /\ resources'[h].gpu_handle \in DOMAIN memory'
               /\ DOMAIN memory'[resources'[h].gpu_handle]
                     = 1..resources'[h].size
    <3>1. resources[h].gpu_handle \in DOMAIN memory \ {gpu}
        BY <1>1 DEF IInv, PrivateBacking
    <3>2. QED
        BY <3>1, <1>1, <1>2 DEF IInv, PrivateBacking, Contents
  <2>2. \A h, k \in DOMAIN resources' :
           resources'[h].gpu_handle = resources'[k].gpu_handle => h = k
      BY <1>1 DEF IInv, PrivateBacking
  <2>3. QED
      BY <2>1, <2>2 DEF PrivateBacking, Contents
<1>5. WithinBudget'
  <2>1. /\ Cardinality(DOMAIN resources') <= Cardinality(DOMAIN resources)
        /\ TotalBytes(resources') <= TotalBytes(resources)
      BY DestroyBytes DEF IInv, DestroyResource
  <2>2. /\ Cardinality(DOMAIN resources) \in Nat
        /\ TotalBytes(resources) \in Nat
      BY LiveFinite DEF IInv
  <2>3. Table(resources')
      BY <1>3 DEF TypeOK, Table
  <2>4. /\ Cardinality(DOMAIN resources') \in Nat
        /\ TotalBytes(resources') \in Nat
      BY <2>3, TableFinite
  <2>5. /\ Cardinality(DOMAIN resources') <= MaxResources
        /\ TotalBytes(resources') <= MaxTotalBytes
      BY <2>1, <2>2, <2>4, SessionAssumption DEF IInv, WithinBudget
  <2>6. QED
      BY <2>5, <1>1 DEF IInv, WithinBudget
<1>6. QED
    BY <1>3, <1>4, <1>5 DEF IInv

\* Every arm of dispatch either creates, destroys, or keeps the tables.
LEMMA DispatchCases ==
    ASSUME NEW f \in Requests, Dispatch(f)
    PROVE  /\ request' = f
           /\ \/ ShapeKept /\ reply'.err \in Errors
              \/ \E gpu \in GpuHandles :
                    /\ CreateResource(Num(f.payload[1]), gpu)
                    /\ CreateError(Num(f.payload[1])) = "ok"
                    /\ f.header.opcode = VF_SGPU_CREATE_RESOURCE
                    /\ Len(f.payload) = 1
                    /\ reply'.err = "ok"
              \/ \E freed \in BOOLEAN :
                    /\ DestroyResource(Num(f.payload[1]), freed)
                    /\ Num(f.payload[1]) \in DOMAIN resources
                    /\ f.header.opcode = VF_SGPU_DESTROY_RESOURCE
                    /\ reply'.err = IF freed THEN "ok" ELSE "Gpu"
<1>1. CASE DispatchInvalid(f)
    BY <1>1, RejectStep, ErrorTypes DEF DispatchInvalid, Errors
<1>2. CASE DispatchUnknown(f)
    BY <1>2, RejectStep DEF DispatchUnknown, Errors
<1>3. CASE DispatchQueryCaps(f)
    BY <1>3, RejectStep
       DEF DispatchQueryCaps, Accepts, Success, ShapeKept, Errors
<1>4. CASE DispatchCreate(f)
    BY <1>4, RejectStep, ErrorTypes
       DEF DispatchCreate, Accepts, Success, Errors
<1>5. CASE DispatchDestroy(f)
    BY <1>5, RejectStep
       DEF DispatchDestroy, Accepts, Success, Failure, Errors
<1>6. CASE DispatchSubmit(f)
    BY <1>6, RejectStep, SubmitStep DEF DispatchSubmit, Accepts, Errors
<1>7. CASE DispatchPresent(f)
    BY <1>7, RejectStep, SubmitStep DEF DispatchPresent, Accepts, Errors
<1>8. QED
    BY <1>1, <1>2, <1>3, <1>4, <1>5, <1>6, <1>7 DEF Dispatch

LEMMA HostWriteShape ==
    ASSUME NEW g, NEW buffer, HostWrite(g, buffer)
    PROVE  /\ ShapeKept /\ reply'.err \in Errors
           /\ request' = NoFrame /\ reply'.err = "none"
    BY DEF HostWrite, ShapeKept, Failure, Errors

LEMMA InitIInv == Init => IInv
<1> SUFFICES ASSUME Init PROVE IInv
    OBVIOUS
<1>1. TypeOK
    BY SessionAssumption DEF Init, TypeOK, Failure
<1>2. PrivateBacking
    BY DEF Init, PrivateBacking
<1>3. LiveBytes(resources) = {} /\ DOMAIN resources = {}
    BY DEF Init, LiveBytes
<1>4. WithinBudget
  <2>1. /\ Cardinality(DOMAIN resources) = 0
        /\ TotalBytes(resources) = 0
      BY <1>3, FS_EmptySet DEF TotalBytes
  <2>2. QED
      BY <1>3, <2>1, SessionAssumption DEF Init, WithinBudget
<1>5. QED
    BY <1>1, <1>2, <1>4 DEF IInv

LEMMA NextIInv == IInv /\ [Next]_vars => IInv'
<1> SUFFICES ASSUME IInv, [Next]_vars PROVE IInv'
    OBVIOUS
<1>1. ASSUME NEW f \in Requests, Dispatch(f) PROVE IInv'
  <2>1. CASE ShapeKept /\ reply'.err \in Errors
      BY <2>1, <1>1, DispatchCases, ShapeKeptIInv
  <2>2. ASSUME NEW gpu \in GpuHandles,
               CreateResource(Num(f.payload[1]), gpu),
               CreateError(Num(f.payload[1])) = "ok",
               Len(f.payload) = 1, reply'.err = "ok"
        PROVE  IInv'
    <3>1. Num(f.payload[1]) \in Nat
        BY <2>2, SessionAssumption
    <3>2. request' \in Requests
        BY <1>1, DispatchCases
    <3>3. QED
        BY <2>2, <3>1, <3>2, CreateStep
  <2>3. ASSUME NEW freed \in BOOLEAN,
               DestroyResource(Num(f.payload[1]), freed),
               Num(f.payload[1]) \in DOMAIN resources,
               reply'.err = IF freed THEN "ok" ELSE "Gpu"
        PROVE  IInv'
    <3>1. request' \in Requests /\ reply'.err \in Errors
        BY <1>1, <2>3, DispatchCases DEF Errors
    <3>2. QED
        BY <2>3, <3>1, DestroyStep
  <2>4. QED
      BY <1>1, <2>1, <2>2, <2>3, DispatchCases
<1>2. ASSUME NEW g \in GpuHandles, NEW buffer, HostWrite(g, buffer)
      PROVE  IInv'
    BY <1>2, HostWriteShape, ShapeKeptIInv
<1>3. CASE UNCHANGED vars
  <2>1. TypeOK' /\ PrivateBacking' /\ WithinBudget'
      BY <1>3 DEF vars, IInv, TypeOK, PrivateBacking, Contents, WithinBudget
  <2>2. QED
      BY <2>1 DEF IInv
<1>4. QED
    BY <1>1, <1>2, <1>3 DEF Next

-----------------------------------------------------------------------------
(* The results.                                                            *)

\* The session's tables are well typed in every reachable state.
THEOREM TypeCorrect == Spec => []TypeOK
<1>1. IInv => TypeOK
    BY DEF IInv
<1>2. QED
    BY InitIInv, NextIInv, <1>1, PTL DEF Spec

\* A live handle always has a device buffer of its own, of its own size,
\* however many frees failed and device handles came back.
THEOREM BackingIsPrivate == Spec => []PrivateBacking
<1>1. IInv => PrivateBacking
    BY DEF IInv
<1>2. QED
    BY InitIInv, NextIInv, <1>1, PTL DEF Spec

\* The count and byte limits hold in every reachable state, and the handle
\* counter never leaves its width.
THEOREM BudgetHolds == Spec => []WithinBudget
<1>1. IInv => WithinBudget
    BY DEF IInv
<1>2. QED
    BY InitIInv, NextIInv, <1>1, PTL DEF Spec

\* A destroyed handle is never given out again.
THEOREM HandlesRetire == Spec => HandleNeverReused
<1>1. IInv /\ [Next]_vars => [Retired \subseteq Retired']_vars
  <2> SUFFICES ASSUME IInv, Next PROVE Retired \subseteq Retired'
      BY DEF vars, Retired
  <2>0. next_resource_id \in Nat
      BY SessionAssumption DEF IInv, TypeOK
  <2>1. CASE ShapeKept
      BY <2>1 DEF ShapeKept, Retired
  <2>2. ASSUME NEW size, NEW gpu, CreateResource(size, gpu)
        PROVE  Retired \subseteq Retired'
      BY <2>0, <2>2 DEF CreateResource, Insert, Retired
  <2>3. ASSUME NEW handle, NEW freed, DestroyResource(handle, freed)
        PROVE  Retired \subseteq Retired'
      BY <2>0, <2>3 DEF DestroyResource, Remove, Retired
  <2>4. QED
      BY <2>1, <2>2, <2>3, DispatchCases, HostWriteShape DEF Next
<1>2. QED
    BY InitIInv, NextIInv, <1>1, PTL DEF Spec, HandleNeverReused

\* A rejected submission changes no table and no byte.
LEMMA SubmitErrorClean ==
    ASSUME NEW f, NEW cmds, NEW payload, Submit(f, cmds, payload),
           reply'.err \notin {"ok", "none", "Gpu"}
    PROVE  UNCHANGED <<resources, next_resource_id, memory>>
<1>1. CASE SubmitError(cmds) # "ok"
    BY <1>1 DEF Submit
<1>2. CASE SubmitError(cmds) = "ok"
    BY <1>2, OutcomeShape DEF Submit, Success, Failure
<1>3. QED
    BY <1>1, <1>2

\* A request that fails before it reaches the device leaves no trace.
THEOREM CleanFailure == Spec => FailureIsClean
<1>1. [Next]_vars =>
         [reply'.err \notin {"ok", "none", "Gpu"} =>
             UNCHANGED <<resources, next_resource_id, memory>>]_vars
  <2> SUFFICES ASSUME Next, reply'.err \notin {"ok", "none", "Gpu"}
               PROVE  UNCHANGED <<resources, next_resource_id, memory>>
      BY DEF vars
  <2>1. ASSUME NEW g \in GpuHandles, NEW buffer, HostWrite(g, buffer)
        PROVE  FALSE
      BY <2>1, HostWriteShape
  <2>2. ASSUME NEW f \in Requests, Dispatch(f)
        PROVE  UNCHANGED <<resources, next_resource_id, memory>>
    <3>1. CASE DispatchInvalid(f) \/ DispatchUnknown(f)
        BY <3>1 DEF DispatchInvalid, DispatchUnknown, Reject
    <3>2. CASE DispatchQueryCaps(f)
        BY <3>2 DEF DispatchQueryCaps, Reject
    <3>3. CASE DispatchCreate(f)
        BY <3>3 DEF DispatchCreate, Reject, Success
    <3>4. CASE DispatchDestroy(f)
        BY <3>4 DEF DispatchDestroy, Reject, Success, Failure
    <3>5. CASE DispatchSubmit(f)
        BY <3>5, SubmitErrorClean DEF DispatchSubmit, Reject
    <3>6. CASE DispatchPresent(f)
        BY <3>6, SubmitErrorClean DEF DispatchPresent, Reject
    <3>7. QED
        BY <2>2, <3>1, <3>2, <3>3, <3>4, <3>5, <3>6 DEF Dispatch
  <2>3. QED
      BY <2>1, <2>2 DEF Next
<1>2. QED
    BY <1>1, PTL DEF Spec, FailureIsClean

-----------------------------------------------------------------------------
(* Replies.                                                                *)

\* The resp closure makes a valid frame of at most one cell of payload.
LEMMA SuccessValid ==
    ASSUME NEW f, NEW payload, Len(payload) \in {0, 1}
    PROVE  LET frame == Success(f, payload).frame IN
           /\ ValidateError(frame) = "ok"
           /\ frame.header.opcode = f.header.opcode
           /\ frame.header.request_id = f.header.request_id
<1> DEFINE frame == Success(f, payload).frame
           b == frame.header
           n == Len(payload)
<1> USE WidthAssumption, SessionAssumption DEF MsgBytes
<1>1. /\ b.magic = VF_MSG_MAGIC /\ b.abi_major = VF_ABI_MAJOR
      /\ b.header_bytes = MsgBytes /\ b.family = VF_FAMILY_SGPU
      /\ b.payload_offset = 0 /\ b.payload_bytes = n
      /\ b.message_bytes = MsgBytes + n
      /\ b.opcode = f.header.opcode /\ b.request_id = f.header.request_id
      /\ frame.payload = payload
    BY DEF Success, NewHeader
<1>2. n = 0 \/ n = 1
    OBVIOUS
<1> HIDE DEF n, b, frame
<1>3. ShapeError(b) = "ok"
    BY <1>1, <1>2 DEF ShapeError, VF_FAMILY_SGPU, Families
<1>4. PayloadEnd(b) = n
    BY <1>1, <1>2 DEF PayloadEnd
<1>5. PayloadEndError(b) = "ok"
    BY <1>1, <1>2, <1>4 DEF PayloadEndError
<1>6. FrameStart(b) = MsgBytes /\ FrameEnd(b) = MsgBytes + n
    BY <1>1, <1>4 DEF FrameStart, FrameEnd
<1>7. IndexError(b) = "ok"
    BY <1>1, <1>2, <1>6 DEF IndexError
<1>8. FrameLayoutError(b) = "ok"
    BY <1>1, <1>2, <1>3, <1>5, <1>7 DEF FrameLayoutError
<1>9. ValidateError(frame) = "ok"
    BY <1>1, <1>2, <1>6, <1>8 DEF ValidateError, n, b
<1>10. QED
    BY <1>1, <1>9 DEF b, frame

\* Every success of dispatch goes through the resp closure.
LEMMA SubmitReply ==
    ASSUME NEW f, NEW cmds, NEW payload, Submit(f, cmds, payload),
           reply'.err = "ok"
    PROVE  reply' = Success(f, payload)
<1>1. SubmitError(cmds) = "ok"
    BY DEF Submit, Failure
<1>2. PICK out \in DeviceOutcomes(memory, Translated(cmds)) :
          reply' = IF out.err = "ok" THEN Success(f, payload)
                   ELSE Failure(out.err)
    BY <1>1 DEF Submit
<1>3. QED
    BY <1>2 DEF Failure

LEMMA DispatchReply ==
    ASSUME NEW f \in Requests, Dispatch(f), reply'.err = "ok"
    PROVE  \E payload : Len(payload) \in {0, 1} /\ reply' = Success(f, payload)
<1>1. \A err : Reject(err) => reply'.err = err
    BY DEF Reject, Failure
<1>2. \A c : Len(<<Word(c)>>) \in {0, 1}
    OBVIOUS
<1>3. Len(<<>>) \in {0, 1}
    OBVIOUS
<1>4. CASE DispatchInvalid(f) \/ DispatchUnknown(f)
    BY <1>1, <1>4 DEF DispatchInvalid, DispatchUnknown
<1>5. CASE DispatchQueryCaps(f)
    BY <1>1, <1>2, <1>5 DEF DispatchQueryCaps
<1>6. CASE DispatchCreate(f)
    BY <1>1, <1>2, <1>6 DEF DispatchCreate
<1>7. CASE DispatchDestroy(f)
    BY <1>1, <1>3, <1>7 DEF DispatchDestroy, Failure
<1>8. CASE DispatchSubmit(f)
    <2>1. CASE ~DecodesToList(f.payload)
        BY <2>1, <1>1, <1>8 DEF DispatchSubmit
    <2>2. CASE DecodesToList(f.payload)
        BY <2>2, <1>2, <1>8, SubmitReply DEF DispatchSubmit
    <2>3. QED
        BY <2>1, <2>2
<1>9. CASE DispatchPresent(f)
    <2>1. CASE Len(f.payload) # 1
        BY <2>1, <1>1, <1>9 DEF DispatchPresent
    <2>2. CASE Len(f.payload) = 1
        BY <2>2, <1>3, <1>9, SubmitReply DEF DispatchPresent
    <2>3. QED
        BY <2>1, <2>2
<1>10. QED
    BY <1>4, <1>5, <1>6, <1>7, <1>8, <1>9 DEF Dispatch

LEMMA NextReply == ReplyWellFormed /\ [Next]_vars => ReplyWellFormed'
<1> SUFFICES ASSUME ReplyWellFormed, [Next]_vars, reply'.err = "ok"
             PROVE  /\ ValidateError(reply'.frame) = "ok"
                    /\ reply'.frame.header.opcode = request'.header.opcode
                    /\ reply'.frame.header.request_id
                          = request'.header.request_id
    BY DEF ReplyWellFormed
<1>1. CASE UNCHANGED vars
    BY <1>1 DEF vars, ReplyWellFormed
<1>2. ASSUME NEW f \in Requests, Dispatch(f)
      PROVE  /\ ValidateError(reply'.frame) = "ok"
             /\ reply'.frame.header.opcode = request'.header.opcode
             /\ reply'.frame.header.request_id = request'.header.request_id
    <2>1. request' = f
        BY <1>2, DispatchCases
    <2>2. PICK payload : Len(payload) \in {0, 1} /\ reply' = Success(f, payload)
        BY <1>2, DispatchReply
    <2>3. QED
        BY <2>1, <2>2, SuccessValid
<1>3. ASSUME NEW g \in GpuHandles, NEW buffer, HostWrite(g, buffer)
      PROVE  FALSE
    BY <1>3, HostWriteShape
<1>4. QED
    BY <1>1, <1>2, <1>3 DEF Next

\* A success reply is a frame its receiver accepts, and answers its request.
THEOREM RepliesWellFormed == Spec => []ReplyWellFormed
<1>1. Init => ReplyWellFormed
    BY DEF Init, ReplyWellFormed, Failure
<1>2. QED
    BY <1>1, NextReply, PTL DEF Spec

-----------------------------------------------------------------------------
(* Lost memory.                                                            *)

\* A free that fails orphans the buffer of the handle it was asked for.
LEMMA FailedFree ==
    ASSUME IInv, NEW handle \in DOMAIN resources, DestroyResource(handle, FALSE)
    PROVE  /\ Orphans \subseteq Orphans'
           /\ Cardinality(Orphans' \ Orphans) = 1
           /\ handle \in Retired'
<1> DEFINE gpu == resources[handle].gpu_handle
<1>1. /\ DOMAIN resources' = DOMAIN resources \ {handle}
      /\ \A h \in DOMAIN resources' : resources'[h] = resources[h]
      /\ memory' = memory /\ next_resource_id' = next_resource_id
    BY DEF DestroyResource, Remove
<1>2. /\ gpu \in DOMAIN memory
      /\ \A h \in DOMAIN resources \ {handle} : resources[h].gpu_handle # gpu
    BY DEF IInv, PrivateBacking
<1>3. Orphans' = Orphans \cup {gpu} /\ gpu \notin Orphans
    BY <1>1, <1>2 DEF Orphans
<1>4. Orphans' \ Orphans = {gpu}
    BY <1>3
<1>5. handle \in 1..(next_resource_id - 1)
    BY SessionAssumption DEF IInv, TypeOK, WithinBudget
<1>6. QED
    BY <1>1, <1>3, <1>4, <1>5, FS_Singleton DEF Retired

\* Nothing else does: a buffer that is freed had one handle, and a buffer that
\* is created has one.
LEMMA NoOtherOrphan ==
    ASSUME IInv,
           \/ ShapeKept
           \/ \E size, gpu : CreateResource(size, gpu)
           \/ \E h \in DOMAIN resources : DestroyResource(h, TRUE)
    PROVE  Orphans' = Orphans
<1>1. CASE ShapeKept
    BY <1>1 DEF ShapeKept, Orphans
<1>2. ASSUME NEW size, NEW gpu, CreateResource(size, gpu)
      PROVE  Orphans' = Orphans
    <2> DEFINE id == next_resource_id
    <2>1. id \notin DOMAIN resources
        BY SessionAssumption DEF IInv, TypeOK, WithinBudget
    <2>2. /\ gpu \notin DOMAIN memory
          /\ DOMAIN memory' = DOMAIN memory \cup {gpu}
          /\ DOMAIN resources' = DOMAIN resources \cup {id}
          /\ resources'[id].gpu_handle = gpu
          /\ \A h \in DOMAIN resources : resources'[h] = resources[h]
        BY <1>2, <2>1 DEF CreateResource, Insert
    <2>3. {resources'[h].gpu_handle : h \in DOMAIN resources'}
             = {resources[h].gpu_handle : h \in DOMAIN resources} \cup {gpu}
        BY <2>2
    <2>4. QED
        BY <2>2, <2>3 DEF Orphans
<1>3. ASSUME NEW handle \in DOMAIN resources, DestroyResource(handle, TRUE)
      PROVE  Orphans' = Orphans
    <2> DEFINE gpu == resources[handle].gpu_handle
    <2>1. /\ DOMAIN resources' = DOMAIN resources \ {handle}
          /\ \A h \in DOMAIN resources' : resources'[h] = resources[h]
          /\ DOMAIN memory' = DOMAIN memory \ {gpu}
        BY <1>3 DEF DestroyResource, Remove
    <2>2. \A h \in DOMAIN resources \ {handle} : resources[h].gpu_handle # gpu
        BY DEF IInv, PrivateBacking
    <2>3. {resources'[h].gpu_handle : h \in DOMAIN resources'}
             = {resources[h].gpu_handle : h \in DOMAIN resources} \ {gpu}
        BY <2>1, <2>2
    <2>4. QED
        BY <2>1, <2>3 DEF Orphans
<1>4. QED
    BY <1>1, <1>2, <1>3

\* The session loses track of memory only in a destroy whose free failed, and
\* then of one buffer, whose handle is dead (destroy_resource).
THEOREM OrphansByFailedFree == Spec => OrphanOnlyByFailedFree
<1> DEFINE Lost ==
        Orphans' # Orphans =>
            /\ Orphans \subseteq Orphans'
            /\ Cardinality(Orphans' \ Orphans) = 1
            /\ request'.header.opcode = VF_SGPU_DESTROY_RESOURCE
            /\ reply'.err = "Gpu"
            /\ Num(request'.payload[1]) \in Retired'
<1>1. IInv /\ [Next]_vars => [Lost]_vars
    <2> SUFFICES ASSUME IInv, Next PROVE Lost
        OBVIOUS
    <2>1. ASSUME NEW g \in GpuHandles, NEW buffer, HostWrite(g, buffer)
          PROVE  Lost
        BY <2>1, HostWriteShape, NoOtherOrphan
    <2>2. ASSUME NEW f \in Requests, Dispatch(f)
          PROVE  Lost
        <3>1. CASE ShapeKept
            BY <3>1, NoOtherOrphan
        <3>2. ASSUME NEW gpu, CreateResource(Num(f.payload[1]), gpu)
              PROVE  Lost
            BY <3>2, NoOtherOrphan
        <3>3. ASSUME NEW freed \in BOOLEAN,
                     DestroyResource(Num(f.payload[1]), freed),
                     Num(f.payload[1]) \in DOMAIN resources,
                     f.header.opcode = VF_SGPU_DESTROY_RESOURCE,
                     reply'.err = IF freed THEN "ok" ELSE "Gpu"
              PROVE  Lost
            <4>1. CASE freed = TRUE
                BY <4>1, <3>3, NoOtherOrphan
            <4>2. CASE freed = FALSE
                <5>1. request' = f
                    BY <2>2, DispatchCases
                <5>2. QED
                    BY <4>2, <3>3, <5>1, FailedFree
            <4>3. QED
                BY <4>1, <4>2
        <3>4. QED
            BY <2>2, <3>1, <3>2, <3>3, DispatchCases
    <2>3. QED
        BY <2>1, <2>2 DEF Next
<1>2. QED
    BY InitIInv, NextIInv, <1>1, PTL DEF Spec, OrphanOnlyByFailedFree

-----------------------------------------------------------------------------
(* The recursive functions of the two specifications.                      *)

\* A set of naturals that is not empty has a least element.
LEMMA LeastNat ==
    ASSUME NEW S \in SUBSET Nat, S # {}
    PROVE  \E n \in S : \A m \in S : n <= m
<1> DEFINE R == OpToRel(<, Nat)
<1>1. \A x, y \in Nat : <<y, x>> \in R <=> y < x
    BY DEF OpToRel
<1>2. \E x \in S : \A y \in S : ~ (<<y, x>> \in R)
  <2>1. IsWellFoundedOn(R, Nat)
      BY NatLessThanWellFounded
  <2>2. S \subseteq Nat
      OBVIOUS
  <2> HIDE DEF R
  <2>3. QED
      BY <2>1, <2>2, WFMin
<1> HIDE DEF R
<1>3. PICK x \in S : \A y \in S : ~ (<<y, x>> \in R)
    BY <1>2
<1>4. ASSUME NEW y \in S PROVE x <= y
  <2>1. x \in Nat /\ y \in Nat
      OBVIOUS
  <2>2. ~ (<<y, x>> \in R)
      BY <1>3
  <2>3. ~ (y < x)
      BY <1>1, <2>1, <2>2
  <2>4. QED
      BY <2>1, <2>3
<1>5. QED
    BY <1>4

\* The memory after each command of a list of copies, from mem on.
IsRun(f, mem, cmds, n) ==
    f = [k \in 0..n |->
            IF k = 0 THEN mem
            ELSE CopyBuffer(f[k - 1], cmds[k][2], cmds[k][3], cmds[k][4])]

\* A recursive function is a CHOOSE: it is what it says only if something is.
LEMMA RunExists ==
    ASSUME NEW mem, NEW cmds, NEW n \in Nat
    PROVE  \E f : IsRun(f, mem, cmds, n)
<1> DEFINE Without == {m \in Nat : ~ \E f : IsRun(f, mem, cmds, m)}
<1>1. ASSUME Without # {} PROVE FALSE
  <2>1. PICK m \in Without : \A l \in Without : m <= l
    <3>1. Without \in SUBSET Nat
        OBVIOUS
    <3> HIDE DEF Without
    <3>2. QED
        BY <1>1, <3>1, LeastNat
  <2>2. m \in Nat /\ ~ \E f : IsRun(f, mem, cmds, m)
      OBVIOUS
  <2>3. CASE m = 0
    <3> DEFINE f == [k \in 0..0 |-> mem]
    <3>1. IsRun(f, mem, cmds, 0)
        BY DEF IsRun
    <3>2. QED
        BY <2>2, <2>3, <3>1
  <2>4. CASE m # 0
    <3>1. m - 1 \in Nat /\ m - 1 \notin Without
      <4>1. m - 1 \in Nat /\ ~ (m <= m - 1)
          BY <2>2, <2>4
      <4> HIDE DEF Without
      <4>2. QED
          BY <2>1, <4>1
    <3>2. PICK f : IsRun(f, mem, cmds, m - 1)
        BY <3>1
    <3> DEFINE step(k) == CopyBuffer(f[k - 1], cmds[k][2], cmds[k][3], cmds[k][4])
               g == [k \in 0..m |-> IF k = m THEN step(k) ELSE f[k]]
    <3>3. \A k \in 0..m : k # m => k \in 0..(m - 1)
        BY <2>2
    <3>4. ASSUME NEW k \in 0..m
          PROVE  g[k] = IF k = 0 THEN mem
                        ELSE CopyBuffer(g[k - 1], cmds[k][2], cmds[k][3], cmds[k][4])
      <4>1. CASE k = 0
        <5>1. g[k] = f[0] /\ 0 \in 0..(m - 1)
            BY <4>1, <2>2, <2>4, <3>1
        <5>2. f[0] = mem
            BY <5>1, <3>2 DEF IsRun
        <5>3. QED
            BY <4>1, <5>1, <5>2
      <4>2. CASE k # 0
        <5>1. k - 1 \in 0..m /\ k - 1 # m
            BY <4>2, <2>2
        <5>2. g[k - 1] = f[k - 1]
            BY <5>1
        <5>3. g[k] = step(k)
          <6>1. CASE k = m
              BY <6>1
          <6>2. CASE k # m
            <7>1. k \in 0..(m - 1)
                BY <6>2, <3>3
            <7>2. f[k] = step(k)
                BY <7>1, <4>2, <3>2 DEF IsRun
            <7>3. QED
                BY <6>2, <7>2
          <6>3. QED
              BY <6>1, <6>2
        <5> HIDE DEF g
        <5>4. QED
            BY <4>2, <5>2, <5>3
      <4>3. QED
          BY <4>1, <4>2
    <3>5. g = [k \in 0..m |-> g[k]]
        OBVIOUS
    <3> HIDE DEF g
    <3>6. IsRun(g, mem, cmds, m)
        BY <3>4, <3>5 DEF IsRun
    <3>7. QED
        BY <2>2, <3>6
  <2>5. QED
      BY <2>3, <2>4
<1>2. QED
    BY <1>1

LEMMA RunSteps ==
    ASSUME NEW f, NEW mem, NEW cmds, NEW n \in Nat, IsRun(f, mem, cmds, n)
    PROVE  /\ f[0] = mem
           /\ \A k \in 1..n :
                 f[k] = CopyBuffer(f[k - 1], cmds[k][2], cmds[k][3], cmds[k][4])
<1>1. \A k \in 0..n :
         f[k] = IF k = 0 THEN mem
                ELSE CopyBuffer(f[k - 1], cmds[k][2], cmds[k][3], cmds[k][4])
    BY DEF IsRun
<1>2. 0 \in 0..n /\ \A k \in 1..n : k \in 0..n /\ k # 0
    OBVIOUS
<1>3. QED
    BY <1>1, <1>2

LEMMA ExecutedRun ==
    ASSUME NEW mem, NEW cmds, Len(cmds) \in Nat
    PROVE  \E f : /\ IsRun(f, mem, cmds, Len(cmds))
                  /\ Executed(mem, cmds) =
                        [g \in DOMAIN mem |->
                            [i \in DOMAIN mem[g] |-> f[Len(cmds)][g][i]]]
<1>1. PICK r : IsRun(r, mem, cmds, Len(cmds))
    BY RunExists
<1>2. QED
    BY <1>1, Zenon DEF Executed, IsRun

\* The client's view: the buffer behind each handle.
Buffers == [h \in DOMAIN resources |-> Contents(h)]

LEMMA CopiedIsCopy ==
    \A val, cmd : Service!Copied(val, cmd)
                     = CopyBuffer(val, cmd[2], cmd[3], cmd[4])
    BY DEF Service!Copied, CopyBuffer

LEMMA AfterRun ==
    ASSUME NEW list, NEW n \in Nat
    PROVE  \E f : IsRun(f, Buffers, list, n) /\ Service!After(list, n) = f[n]
<1>1. PICK r : IsRun(r, Buffers, list, n)
    BY RunExists
<1> DEFINE IsDone(f) ==
        f = [k \in 0..n |->
                IF k = 0 THEN Buffers ELSE Service!Copied(f[k - 1], list[k])]
<1>2. \A f : IsDone(f) <=> IsRun(f, Buffers, list, n)
    BY CopiedIsCopy DEF IsRun
<1>3. Service!After(list, n) = (CHOOSE f : IsDone(f))[n]
    BY Zenon DEF Service!After, Buffers
<1> HIDE DEF IsDone
<1>4. IsDone(CHOOSE f : IsDone(f))
    BY <1>1, <1>2
<1>5. QED
    BY <1>2, <1>3, <1>4

-----------------------------------------------------------------------------
(* A list of copies does the same to the buffers the client sees as its    *)
(* translation does to the device memory.                                  *)

\* A buffer is a sequence of bytes.
Filled ==
    \A g \in DOMAIN memory :
        memory[g] = [i \in DOMAIN memory[g] |-> memory[g][i]]

Gpu(h) == resources[h].gpu_handle

\* val holds for each handle what mem holds behind it, in the present shape.
Match(val, mem) ==
    /\ val = [h \in DOMAIN resources |-> [i \in DOMAIN Contents(h) |-> val[h][i]]]
    /\ DOMAIN mem = DOMAIN memory
    /\ \A g \in DOMAIN memory : DOMAIN mem[g] = DOMAIN memory[g]
    /\ \A h \in DOMAIN resources :
          \A i \in DOMAIN Contents(h) : val[h][i] = mem[Gpu(h)][i]

LEMMA Backing ==
    ASSUME IInv
    PROVE  /\ \A h \in DOMAIN resources :
                 /\ Gpu(h) \in DOMAIN memory /\ Contents(h) = memory[Gpu(h)]
                 /\ DOMAIN Contents(h) = 1..resources[h].size
                 /\ resources[h].size \in Nat
           /\ \A h, k \in DOMAIN resources : Gpu(h) = Gpu(k) => h = k
<1>1. \A h \in DOMAIN resources : resources[h].size \in Nat
    BY SessionAssumption DEF IInv, TypeOK
<1>2. QED
    BY <1>1 DEF IInv, PrivateBacking, Contents, Gpu

LEMMA ContentsLen ==
    ASSUME IInv, Filled, NEW h \in DOMAIN resources
    PROVE  /\ Len(Contents(h)) \in Nat
           /\ DOMAIN Contents(h) = 1..Len(Contents(h))
<1> DEFINE b == Contents(h)
           n == resources[h].size
<1>1. DOMAIN b = 1..n /\ n \in Nat /\ b = [i \in DOMAIN b |-> b[i]]
    BY Backing DEF Filled
<1> HIDE DEF b, n
<1>2. b \in Seq({b[i] : i \in 1..n})
    BY <1>1, SeqDef
<1>3. QED
    BY <1>2, LenProperties DEF b

LEMMA MatchStart ==
    ASSUME IInv, Filled
    PROVE  Match(Buffers, memory)
<1>1. \A h \in DOMAIN resources :
         /\ Buffers[h] = Contents(h)
         /\ Contents(h) = [i \in DOMAIN Contents(h) |-> Contents(h)[i]]
         /\ Contents(h) = memory[Gpu(h)]
    BY Backing DEF Buffers, Filled
<1>2. Buffers = [h \in DOMAIN resources |->
                    [i \in DOMAIN Contents(h) |-> Buffers[h][i]]]
    BY <1>1 DEF Buffers
<1>3. QED
    BY <1>1, <1>2 DEF Match

LEMMA CopyMatch ==
    ASSUME IInv, Filled, NEW val, NEW mem, Match(val, mem),
           NEW s \in DOMAIN resources, NEW d \in DOMAIN resources,
           NEW n \in Nat, n <= Len(Contents(s))
    PROVE  Match(CopyBuffer(val, s, d, n), CopyBuffer(mem, Gpu(s), Gpu(d), n))
<1> DEFINE val2 == CopyBuffer(val, s, d, n)
           mem2 == CopyBuffer(mem, Gpu(s), Gpu(d), n)
<1>1. /\ DOMAIN val = DOMAIN resources
      /\ \A h \in DOMAIN resources : DOMAIN val[h] = DOMAIN Contents(h)
      /\ val = [h \in DOMAIN resources |-> val[h]]
    BY DEF Match
<1>2. /\ DOMAIN mem = DOMAIN memory
      /\ \A g \in DOMAIN memory : DOMAIN mem[g] = DOMAIN memory[g]
      /\ Gpu(s) \in DOMAIN memory /\ Gpu(d) \in DOMAIN memory
    BY Backing DEF Match
<1>3. /\ val2 = [h \in DOMAIN resources |->
                    IF h = d THEN [i \in DOMAIN val[d] |->
                                      IF i <= n THEN val[s][i] ELSE val[d][i]]
                    ELSE val[h]]
    BY <1>1 DEF CopyBuffer
<1>4. /\ DOMAIN mem2 = DOMAIN memory
      /\ mem2[Gpu(d)] = [i \in DOMAIN mem[Gpu(d)] |->
                            IF i <= n THEN mem[Gpu(s)][i] ELSE mem[Gpu(d)][i]]
      /\ \A g \in DOMAIN memory : g # Gpu(d) => mem2[g] = mem[g]
    BY <1>2 DEF CopyBuffer
<1> HIDE DEF val2, mem2
<1>5. \A h \in DOMAIN resources :
         val2[h] = [i \in DOMAIN Contents(h) |-> val2[h][i]]
  <2> SUFFICES ASSUME NEW h \in DOMAIN resources
               PROVE  val2[h] = [i \in DOMAIN Contents(h) |-> val2[h][i]]
      OBVIOUS
  <2>1. CASE h = d
      BY <2>1, <1>1, <1>3
  <2>2. CASE h # d
    <3>1. val[h] = [i \in DOMAIN Contents(h) |-> val[h][i]]
        BY DEF Match
    <3>2. QED
        BY <2>2, <3>1, <1>3
  <2>3. QED
      BY <2>1, <2>2
<1>6. val2 = [h \in DOMAIN resources |->
                 [i \in DOMAIN Contents(h) |-> val2[h][i]]]
  <2>1. val2 = [h \in DOMAIN resources |-> val2[h]]
      BY <1>3
  <2>2. QED
      BY <2>1, <1>5
<1>7. \A g \in DOMAIN memory : DOMAIN mem2[g] = DOMAIN memory[g]
    BY <1>2, <1>4
<1>8. ASSUME NEW h \in DOMAIN resources, NEW i \in DOMAIN Contents(h)
      PROVE  val2[h][i] = mem2[Gpu(h)][i]
  <2>1. val[h][i] = mem[Gpu(h)][i] /\ Gpu(h) \in DOMAIN memory
      BY Backing DEF Match
  <2>2. CASE h = d
    <3>1. i \in DOMAIN val[d] /\ i \in DOMAIN mem[Gpu(d)]
        BY <2>2, <1>1, <1>2, Backing
    <3>2. i \in Nat /\ i >= 1
        BY Backing
    <3>3. CASE i <= n
      <4>1. i \in DOMAIN Contents(s)
          BY <3>2, <3>3, ContentsLen
      <4>2. val[s][i] = mem[Gpu(s)][i]
          BY <4>1 DEF Match
      <4>3. QED
          BY <2>2, <3>1, <3>3, <4>2, <1>3, <1>4
    <3>4. CASE ~ (i <= n)
        BY <2>1, <2>2, <3>1, <3>4, <1>3, <1>4
    <3>5. QED
        BY <3>3, <3>4
  <2>3. CASE h # d
    <3>1. Gpu(h) # Gpu(d)
        BY <2>3, Backing
    <3>2. QED
        BY <2>1, <2>3, <3>1, <1>3, <1>4
  <2>4. QED
      BY <2>2, <2>3
<1>9. QED
    BY <1>4, <1>6, <1>7, <1>8 DEF Match, val2, mem2

\* The first n commands of a list are copies between live handles that fit,
\* and cmds are their translation.
Translation(list, cmds, n) ==
    \A i \in 1..n :
        /\ list[i][2] \in DOMAIN resources /\ list[i][3] \in DOMAIN resources
        /\ list[i][4] \in Nat /\ list[i][4] <= Len(Contents(list[i][2]))
        /\ cmds[i] = Copy(Gpu(list[i][2]), Gpu(list[i][3]), list[i][4])

LEMMA RunsMatch ==
    ASSUME IInv, Filled, NEW list, NEW cmds, NEW n \in Nat,
           Translation(list, cmds, n),
           NEW a, IsRun(a, Buffers, list, n),
           NEW c, IsRun(c, memory, cmds, n)
    PROVE  Match(a[n], c[n])
<1> DEFINE Apart == {k \in 0..n : ~Match(a[k], c[k])}
<1>1. ASSUME Apart # {} PROVE FALSE
  <2>1. PICK k \in Apart : \A l \in Apart : k <= l
    <3>1. Apart \in SUBSET Nat
        OBVIOUS
    <3> HIDE DEF Apart
    <3>2. QED
        BY <1>1, <3>1, LeastNat
  <2>2. k \in 0..n /\ ~Match(a[k], c[k])
      OBVIOUS
  <2>3. CASE k = 0
    <3>1. a[0] = Buffers /\ c[0] = memory
        BY RunSteps
    <3>2. QED
        BY <2>2, <2>3, <3>1, MatchStart
  <2>4. CASE k # 0
    <3> DEFINE s == list[k][2]
               d == list[k][3]
               m == list[k][4]
    <3>1. k \in 1..n /\ k - 1 \in 0..n /\ ~ (k <= k - 1)
        BY <2>2, <2>4
    <3>2. Match(a[k - 1], c[k - 1])
      <4>1. k - 1 \notin Apart
        <5> HIDE DEF Apart
        <5>1. QED
            BY <2>1, <3>1
      <4>2. QED
          BY <3>1, <4>1
    <3>3. a[k] = CopyBuffer(a[k - 1], s, d, m)
        BY <3>1, RunSteps
    <3>4. c[k] = CopyBuffer(c[k - 1], Gpu(s), Gpu(d), m)
      <4>1. c[k] = CopyBuffer(c[k - 1], cmds[k][2], cmds[k][3], cmds[k][4])
          BY <3>1, RunSteps
      <4>2. cmds[k] = Copy(Gpu(s), Gpu(d), m)
          BY <3>1 DEF Translation
      <4>3. QED
          BY <4>1, <4>2 DEF Copy
    <3>5. /\ s \in DOMAIN resources /\ d \in DOMAIN resources
          /\ m \in Nat /\ m <= Len(Contents(s))
        BY <3>1 DEF Translation
    <3> HIDE DEF s, d, m
    <3>6. Match(a[k], c[k])
        BY <3>2, <3>3, <3>4, <3>5, CopyMatch
    <3>7. QED
        BY <2>2, <3>6
  <2>5. QED
      BY <2>3, <2>4
<1>2. QED
    BY <1>1

\* What the client sees behind its handles in a memory.
Seen(mem) == [h \in DOMAIN resources |-> mem[Gpu(h)]]

LEMMA ExecutedSeen ==
    ASSUME IInv, Filled, NEW list, NEW cmds, Len(cmds) \in Nat,
           Translation(list, cmds, Len(cmds))
    PROVE  Seen(Executed(memory, cmds)) = Service!After(list, Len(cmds))
<1> DEFINE n == Len(cmds)
<1>1. PICK c : /\ IsRun(c, memory, cmds, n)
               /\ Executed(memory, cmds) =
                     [g \in DOMAIN memory |->
                         [i \in DOMAIN memory[g] |-> c[n][g][i]]]
    BY ExecutedRun
<1>2. PICK a : IsRun(a, Buffers, list, n) /\ Service!After(list, n) = a[n]
    BY AfterRun
<1>3. Match(a[n], c[n])
    BY <1>1, <1>2, RunsMatch
<1> HIDE DEF n
<1>4. \A h \in DOMAIN resources :
         Executed(memory, cmds)[Gpu(h)]
            = [i \in DOMAIN Contents(h) |-> a[n][h][i]]
  <2> SUFFICES ASSUME NEW h \in DOMAIN resources
               PROVE  Executed(memory, cmds)[Gpu(h)]
                         = [i \in DOMAIN Contents(h) |-> a[n][h][i]]
      OBVIOUS
  <2>1. Gpu(h) \in DOMAIN memory /\ Contents(h) = memory[Gpu(h)]
      BY Backing
  <2>2. Executed(memory, cmds)[Gpu(h)]
           = [i \in DOMAIN Contents(h) |-> c[n][Gpu(h)][i]]
      BY <1>1, <2>1
  <2>3. \A i \in DOMAIN Contents(h) : a[n][h][i] = c[n][Gpu(h)][i]
      BY <1>3 DEF Match
  <2>4. QED
      BY <2>2, <2>3
<1>5. a[n] = [h \in DOMAIN resources |->
                 [i \in DOMAIN Contents(h) |-> a[n][h][i]]]
    BY <1>3 DEF Match
<1>6. Seen(Executed(memory, cmds)) = a[n]
    BY <1>4, <1>5 DEF Seen
<1>7. QED
    BY <1>2, <1>6 DEF n

-----------------------------------------------------------------------------
(* The steps of the session as steps of its service.                       *)

Plain(op, arg) == [op |-> op, arg |-> arg, list |-> <<>>]
Submission(cmds) == [op |-> "submit", arg |-> 0, list |-> cmds]

\* What each arm of dispatch was asked.
LEMMA OpcodesDiffer ==
    /\ VF_SGPU_CREATE_RESOURCE # VF_SGPU_DESTROY_RESOURCE
    /\ VF_SGPU_CREATE_RESOURCE # VF_SGPU_PRESENT
    /\ VF_SGPU_CREATE_RESOURCE # VF_SGPU_SUBMIT_COMMAND_LIST
    /\ VF_SGPU_DESTROY_RESOURCE # VF_SGPU_PRESENT
    /\ VF_SGPU_DESTROY_RESOURCE # VF_SGPU_SUBMIT_COMMAND_LIST
    /\ VF_SGPU_PRESENT # VF_SGPU_SUBMIT_COMMAND_LIST
    BY DEF VF_SGPU_CREATE_RESOURCE, VF_SGPU_DESTROY_RESOURCE, VF_SGPU_PRESENT,
           VF_SGPU_SUBMIT_COMMAND_LIST

LEMMA AskedCreate ==
    ASSUME NEW f, ValidateError(f) = "ok", Len(f.payload) = 1,
           f.header.opcode = VF_SGPU_CREATE_RESOURCE
    PROVE  Asked(f) = Plain("create", Num(f.payload[1]))
    BY OpcodesDiffer DEF Asked, Plain

LEMMA AskedDestroy ==
    ASSUME NEW f, ValidateError(f) = "ok", Len(f.payload) = 1,
           f.header.opcode = VF_SGPU_DESTROY_RESOURCE
    PROVE  Asked(f) = Plain("destroy", Num(f.payload[1]))
    BY OpcodesDiffer DEF Asked, Plain

LEMMA AskedPresent ==
    ASSUME NEW f, ValidateError(f) = "ok", Len(f.payload) = 1,
           f.header.opcode = VF_SGPU_PRESENT
    PROVE  Asked(f) = Submission(<<Present(Num(f.payload[1]))>>)
    BY OpcodesDiffer DEF Asked, Submission

LEMMA AskedSubmit ==
    ASSUME NEW f, ValidateError(f) = "ok", DecodesToList(f.payload),
           f.header.opcode = VF_SGPU_SUBMIT_COMMAND_LIST
    PROVE  Asked(f) = Submission(List(f.payload))
    BY OpcodesDiffer DEF Asked, Submission

LEMMA AskedOther ==
    ASSUME NEW f,
           \/ ValidateError(f) # "ok"
           \/ f.header.opcode \notin {VF_SGPU_CREATE_RESOURCE,
                  VF_SGPU_DESTROY_RESOURCE, VF_SGPU_PRESENT,
                  VF_SGPU_SUBMIT_COMMAND_LIST}
           \/ /\ f.header.opcode # VF_SGPU_SUBMIT_COMMAND_LIST
              /\ Len(f.payload) # 1
           \/ /\ f.header.opcode = VF_SGPU_SUBMIT_COMMAND_LIST
              /\ ~DecodesToList(f.payload)
    PROVE  Asked(f) = Plain("other", 0)
<1>1. CASE ValidateError(f) # "ok"
    BY <1>1 DEF Asked, Plain
<1>2. CASE /\ ValidateError(f) = "ok"
           /\ f.header.opcode \notin {VF_SGPU_CREATE_RESOURCE,
                  VF_SGPU_DESTROY_RESOURCE, VF_SGPU_PRESENT,
                  VF_SGPU_SUBMIT_COMMAND_LIST}
    BY <1>2 DEF Asked, Plain
<1>3. CASE /\ ValidateError(f) = "ok"
           /\ f.header.opcode # VF_SGPU_SUBMIT_COMMAND_LIST
           /\ Len(f.payload) # 1
    BY <1>3 DEF Asked, Plain
<1>4. CASE /\ ValidateError(f) = "ok"
           /\ f.header.opcode = VF_SGPU_SUBMIT_COMMAND_LIST
           /\ ~DecodesToList(f.payload)
    BY <1>4, OpcodesDiffer DEF Asked, Plain
<1>5. QED
    BY <1>1, <1>2, <1>3, <1>4

LEMMA ListCommands ==
    ASSUME NEW f \in Requests, ValidateError(f) = "ok", DecodesToList(f.payload)
    PROVE  List(f.payload) \in Seq(Service!Command)
<1> DEFINE p == f.payload
           n == Len(p)
<1>1. n \in Nat
  <2>1. f.header \in VfMsgHeader /\ n = FrameEnd(f.header) - FrameStart(f.header)
      BY SessionAssumption DEF ValidateError
  <2>2. f.header.payload_bytes \in Nat /\ f.header.payload_offset \in Nat
      BY <2>1, WidthAssumption DEF VfMsgHeader, U32, U64
  <2>3. n = f.header.payload_bytes
      BY <2>1, <2>2 DEF FrameEnd, FrameStart, PayloadEnd, MsgBytes
  <2>4. QED
      BY <2>2, <2>3
<1>2. /\ p = [i \in 1..n |-> p[i]] /\ p # <<>>
      /\ \A i \in 2..n : p[i] \in Service!Command
    BY <1>1, SessionAssumption DEF DecodesToList, IsCommand, Service!Command
<1> HIDE DEF p
<1>3. p \in Seq({p[i] : i \in 1..n})
    BY <1>1, <1>2, SeqDef
<1>4. /\ Tail(p) \in Seq({p[i] : i \in 1..n}) /\ Len(Tail(p)) = n - 1
      /\ \A i \in 1..Len(Tail(p)) : Tail(p)[i] = p[i + 1]
    BY <1>2, <1>3, HeadTailProperties
<1>5. n >= 1
    BY <1>1, <1>2, <1>3, EmptySeq
<1>6. \A i \in 1..Len(Tail(p)) : Tail(p)[i] \in Service!Command
    BY <1>1, <1>2, <1>4, <1>5
<1> DEFINE t == Tail(p)
<1>7. t = [i \in 1..Len(t) |-> t[i]] /\ Len(t) \in Nat
  <2>1. t \in Seq({p[i] : i \in 1..n})
      BY <1>4
  <2> HIDE DEF t
  <2>2. QED
      BY <2>1, LenProperties
<1>8. t \in Seq(Service!Command)
  <2>1. \A i \in 1..Len(t) : t[i] \in Service!Command
      BY <1>6
  <2> HIDE DEF t
  <2>2. QED
      BY <2>1, <1>7, SeqDef
<1>9. QED
    BY <1>8 DEF List, p

LEMMA AskedRequest ==
    ASSUME NEW f \in Requests
    PROVE  Asked(f) \in Service!Request
<1>1. Plain("other", 0) \in Service!Request
    BY DEF Plain, Service!Request
<1>2. Len(f.payload) = 1 => Num(f.payload[1]) \in Nat
    BY SessionAssumption
<1>3. CASE ValidateError(f) # "ok"
    BY <1>1, <1>3, AskedOther
<1>4. CASE ValidateError(f) = "ok" /\ f.header.opcode = VF_SGPU_CREATE_RESOURCE
  <2>1. CASE Len(f.payload) = 1
    <3>1. Asked(f) = Plain("create", Num(f.payload[1]))
        BY <2>1, <1>4, AskedCreate
    <3>2. Plain("create", Num(f.payload[1])) \in Service!Request
        BY <2>1, <1>2 DEF Plain, Service!Request
    <3>3. QED
        BY <3>1, <3>2
  <2>2. CASE Len(f.payload) # 1
      BY <2>2, <1>1, <1>4, AskedOther, OpcodesDiffer
  <2>3. QED
      BY <2>1, <2>2
<1>5. CASE ValidateError(f) = "ok" /\ f.header.opcode = VF_SGPU_DESTROY_RESOURCE
  <2>1. CASE Len(f.payload) = 1
    <3>1. Asked(f) = Plain("destroy", Num(f.payload[1]))
        BY <2>1, <1>5, AskedDestroy
    <3>2. Plain("destroy", Num(f.payload[1])) \in Service!Request
        BY <2>1, <1>2 DEF Plain, Service!Request
    <3>3. QED
        BY <3>1, <3>2
  <2>2. CASE Len(f.payload) # 1
      BY <2>2, <1>1, <1>5, AskedOther, OpcodesDiffer
  <2>3. QED
      BY <2>1, <2>2
<1>6. CASE ValidateError(f) = "ok" /\ f.header.opcode = VF_SGPU_PRESENT
  <2>1. CASE Len(f.payload) = 1
    <3>1. Present(Num(f.payload[1])) \in Service!Command
        BY <2>1, <1>2 DEF Present, Service!Command
    <3>2. <<Present(Num(f.payload[1]))>> \in Seq(Service!Command)
        BY <3>1
    <3>3. QED
      <4>1. Asked(f) = Submission(<<Present(Num(f.payload[1]))>>)
          BY <2>1, <1>6, AskedPresent
      <4> DEFINE list == <<Present(Num(f.payload[1]))>>
      <4>2. Submission(list) \in Service!Request
        <5> HIDE DEF list
        <5>1. list \in Seq(Service!Command)
            BY <3>2 DEF list
        <5>2. QED
            BY <5>1 DEF Submission, Service!Request
      <4>3. QED
          BY <4>1, <4>2
  <2>2. CASE Len(f.payload) # 1
      BY <2>2, <1>1, <1>6, AskedOther, OpcodesDiffer
  <2>3. QED
      BY <2>1, <2>2
<1>7. CASE /\ ValidateError(f) = "ok"
           /\ f.header.opcode = VF_SGPU_SUBMIT_COMMAND_LIST
  <2>1. CASE DecodesToList(f.payload)
      BY <2>1, <1>7, AskedSubmit, ListCommands DEF Submission, Service!Request
  <2>2. CASE ~DecodesToList(f.payload)
      BY <2>2, <1>1, <1>7, AskedOther
  <2>3. QED
      BY <2>1, <2>2
<1>8. CASE f.header.opcode \notin {VF_SGPU_CREATE_RESOURCE,
              VF_SGPU_DESTROY_RESOURCE, VF_SGPU_PRESENT,
              VF_SGPU_SUBMIT_COMMAND_LIST}
    BY <1>1, <1>8, AskedOther
<1>9. QED
    BY <1>3, <1>4, <1>5, <1>6, <1>7, <1>8

\* An answer that returns no handle.
LEMMA NoHandle ==
    ASSUME reply'.err # "ok" \/ request'.header.opcode # VF_SGPU_CREATE_RESOURCE
    PROVE  Service!Answer(reply'.err, 0)
    BY DEF Service!Answer

LEMMA Unchanged ==
    ASSUME UNCHANGED <<resources, next_resource_id, memory>>
    PROVE  /\ UNCHANGED [h \in DOMAIN resources |-> Contents(h)]
           /\ UNCHANGED (next_resource_id - 1)
    BY DEF Contents

LEMMA RefusedAsMalformed ==
    ASSUME NEW err \in {"Eabi", "Erange", "Payload"}, Reject(err)
    PROVE  Service!Refuse
<1>1. reply'.err = err /\ UNCHANGED <<resources, next_resource_id, memory>>
    BY DEF Reject, Failure
<1>2. Service!Answer(err, 0)
    BY <1>1, NoHandle
<1>3. QED
    BY <1>1, <1>2, Unchanged DEF Service!Refuse

LEMMA QueryServed ==
    ASSUME NEW f, DispatchQueryCaps(f)
    PROVE  Service!Refuse \/ Service!Other
<1>1. request' = f /\ f.header.opcode = VF_SGPU_QUERY_CAPS
    BY DEF DispatchQueryCaps, Accepts
<1>2. CASE f.payload # <<>>
    BY <1>2, RefusedAsMalformed DEF DispatchQueryCaps
<1>3. CASE f.payload = <<>>
  <2>1. /\ reply'.err = "ok"
        /\ UNCHANGED <<resources, next_resource_id, memory>>
      BY <1>3 DEF DispatchQueryCaps, Success
  <2>2. Service!Answer("ok", 0)
      BY <1>1, <2>1, NoHandle DEF VF_SGPU_QUERY_CAPS, VF_SGPU_CREATE_RESOURCE
  <2>3. Asked(request') = Plain("other", 0)
      BY <1>1, AskedOther
         DEF VF_SGPU_QUERY_CAPS, VF_SGPU_CREATE_RESOURCE,
             VF_SGPU_DESTROY_RESOURCE, VF_SGPU_PRESENT,
             VF_SGPU_SUBMIT_COMMAND_LIST
  <2>4. QED
      BY <2>1, <2>2, <2>3, Unchanged DEF Service!Other, Plain
<1>4. QED
    BY <1>2, <1>3

LEMMA CreateServed ==
    ASSUME IInv, NEW f \in Requests, DispatchCreate(f)
    PROVE  Service!Refuse \/ Service!Create
<1>1. /\ request' = f /\ ValidateError(f) = "ok"
      /\ f.header.opcode = VF_SGPU_CREATE_RESOURCE
    BY DEF DispatchCreate, Accepts
<1>2. CASE Len(f.payload) # 1
    BY <1>2, RefusedAsMalformed DEF DispatchCreate
<1>3. CASE Len(f.payload) = 1
  <2> DEFINE size == Num(f.payload[1])
             id == next_resource_id
  <2>1. size \in Nat /\ Asked(request') = Plain("create", size)
      BY <1>1, <1>3, SessionAssumption, AskedCreate
  <2>2. CASE CreateError(size) # "ok"
    <3>1. CreateError(size) \in {"Payload", "ResourceLimit"} /\ Reject(CreateError(size))
        BY <1>3, <2>2, ErrorTypes DEF DispatchCreate
    <3>2. CASE CreateError(size) = "Payload"
        BY <3>1, <3>2, RefusedAsMalformed
    <3>3. CASE CreateError(size) = "ResourceLimit"
      <4>1. /\ reply'.err = "ResourceLimit"
            /\ UNCHANGED <<resources, next_resource_id, memory>>
          BY <3>1, <3>3 DEF Reject, Failure
      <4>2. Service!Answer("ResourceLimit", 0)
          BY <4>1, NoHandle
      <4>3. QED
          BY <2>1, <4>1, <4>2, Unchanged DEF Service!Refuse, Plain
    <3>4. QED
        BY <3>1, <3>2, <3>3
  <2>3. CASE CreateError(size) = "ok"
    <3>1. PICK gpu \in GpuHandles : CreateResource(size, gpu)
        BY <1>3, <2>3 DEF DispatchCreate
    <3>2. reply' = Success(f, <<Word(id)>>)
        BY <1>3, <2>3 DEF DispatchCreate
    <3>3. /\ id \in Nat /\ id \notin DOMAIN resources /\ id' = id + 1
          /\ id' - 1 = id
        BY <3>1, SessionAssumption DEF CreateResource, IInv, TypeOK, WithinBudget
    <3>4. size \in 1..MaxResourceBytes
      <4>1. size # 0 /\ ~ (size > MaxResourceBytes)
          BY <2>3 DEF CreateError
      <4>2. QED
          BY <2>1, <4>1, SessionAssumption
    <3>5. /\ resources' = Insert(resources, id, [gpu_handle |-> gpu, size |-> size])
          /\ memory' = Insert(memory, gpu, Zeros(size))
          /\ gpu \notin DOMAIN memory
        BY <3>1 DEF CreateResource
    <3>6. /\ DOMAIN resources' = DOMAIN resources \cup {id}
          /\ resources'[id].gpu_handle = gpu
          /\ \A h \in DOMAIN resources : resources'[h] = resources[h]
        BY <3>3, <3>5 DEF Insert
    <3>7. /\ memory'[gpu] = Zeros(size)
          /\ \A g \in DOMAIN memory : memory'[g] = memory[g]
        BY <3>5 DEF Insert
    <3>8. \A h \in DOMAIN resources : resources[h].gpu_handle \in DOMAIN memory
        BY DEF IInv, PrivateBacking
    <3>9. [h \in DOMAIN resources |-> Contents(h)]'
             = [h \in DOMAIN resources \cup {id} |->
                   IF h = id THEN [i \in 1..size |-> 0] ELSE Contents(h)]
        BY <3>3, <3>6, <3>7, <3>8 DEF Contents, Zeros
    <3>10. Service!Answer("ok", id)
        BY <1>1, <3>2 DEF Service!Answer, Success, Word, Num
    <3>11. QED
      <4>1. Asked(request)' = Plain("create", size)
          BY <2>1
      <4> HIDE DEF size, id
      <4>2. /\ Asked(request)'.op = "create" /\ Asked(request)'.arg = size
          BY <4>1 DEF Plain
      <4>3. (next_resource_id - 1)' = id /\ id = (next_resource_id - 1) + 1
          BY <3>3 DEF id
      <4>4. DOMAIN [h \in DOMAIN resources |-> Contents(h)] = DOMAIN resources
          OBVIOUS
      <4>5. Service!Create
          BY <3>4, <3>9, <3>10, <4>2, <4>3, <4>4 DEF Service!Create, Service!Live
      <4>6. QED
          BY <4>5
  <2>4. QED
      BY <2>2, <2>3
<1>4. QED
    BY <1>2, <1>3

LEMMA DestroyServed ==
    ASSUME IInv, NEW f \in Requests, DispatchDestroy(f)
    PROVE  Service!Refuse \/ Service!Destroy
<1>1. /\ request' = f /\ ValidateError(f) = "ok"
      /\ f.header.opcode = VF_SGPU_DESTROY_RESOURCE
      /\ f.header.opcode # VF_SGPU_CREATE_RESOURCE
    BY DEF DispatchDestroy, Accepts, VF_SGPU_DESTROY_RESOURCE,
           VF_SGPU_CREATE_RESOURCE
<1>2. CASE Len(f.payload) # 1
    BY <1>2, RefusedAsMalformed DEF DispatchDestroy
<1>3. CASE Len(f.payload) = 1
  <2> DEFINE handle == Num(f.payload[1])
  <2>1. Asked(request') = Plain("destroy", handle)
      BY <1>1, <1>3, AskedDestroy
  <2>2. CASE handle \notin DOMAIN resources
    <3>1. /\ reply'.err = "ResourceNotFound"
          /\ UNCHANGED <<resources, next_resource_id, memory>>
        BY <1>3, <2>2 DEF DispatchDestroy, Reject, Failure
    <3>2. Service!Answer("ResourceNotFound", 0)
        BY <3>1, NoHandle
    <3>3. QED
        BY <2>1, <2>2, <3>1, <3>2, Unchanged
           DEF Service!Refuse, Service!Live, Plain
  <2>3. CASE handle \in DOMAIN resources
    <3>1. PICK freed \in BOOLEAN :
             /\ DestroyResource(handle, freed)
             /\ reply'.err \in {"ok", "Gpu"}
        BY <1>3, <2>3 DEF DispatchDestroy, Success, Failure
    <3>2. Service!Answer(reply'.err, 0)
        BY <1>1, NoHandle
    <3>3. /\ DOMAIN resources' = DOMAIN resources \ {handle}
          /\ \A h \in DOMAIN resources' : resources'[h] = resources[h]
          /\ next_resource_id' = next_resource_id
        BY <3>1 DEF DestroyResource, Remove
    <3>4. /\ \A g \in DOMAIN memory :
                g # resources[handle].gpu_handle => memory'[g] = memory[g]
        BY <3>1 DEF DestroyResource, Remove
    <3>5. \A h \in DOMAIN resources' :
             /\ resources[h].gpu_handle \in DOMAIN memory
             /\ resources[h].gpu_handle # resources[handle].gpu_handle
        BY <2>3, <3>3 DEF IInv, PrivateBacking
    <3>6. [h \in DOMAIN resources |-> Contents(h)]'
             = [h \in DOMAIN resources \ {handle} |-> Contents(h)]
        BY <3>3, <3>4, <3>5 DEF Contents
    <3>7. [h \in DOMAIN resources \ {handle} |-> Contents(h)]
             = [h \in DOMAIN resources \ {handle} |->
                   [k \in DOMAIN resources |-> Contents(k)][h]]
        OBVIOUS
    <3>8. Asked(request)'.op = "destroy" /\ Asked(request)'.arg = handle
        BY <2>1 DEF Plain
    <3>9. Service!Destroy
        BY <2>3, <3>1, <3>2, <3>3, <3>6, <3>7, <3>8
           DEF Service!Destroy, Service!Live
    <3>10. QED
        BY <3>9
  <2>4. QED
      BY <2>2, <2>3
<1>4. QED
    BY <1>2, <1>3

-----------------------------------------------------------------------------
(* Submissions.                                                            *)

LEMMA TranslatedShape ==
    ASSUME NEW cmds \in Seq(Service!Command)
    PROVE  /\ Len(cmds) \in Nat
           /\ Translated(cmds) \in Seq({Translated(cmds)[i] : i \in 1..Len(cmds)})
           /\ Len(Translated(cmds)) = Len(cmds)
           /\ \A i \in 1..Len(cmds) : Translated(cmds)[i][1] = cmds[i][1]
           /\ \A i \in 1..Len(cmds) : cmds[i][1] = "copy" =>
                 Translated(cmds)[i] =
                    Copy(Gpu(cmds[i][2]), Gpu(cmds[i][3]), cmds[i][4])
<1> DEFINE t == Translated(cmds)
           n == Len(cmds)
<1>1. n \in Nat
    BY LenProperties
<1>2. t = [i \in 1..n |-> t[i]]
    BY DEF Translated
<1>3. \A i \in 1..n : t[i][1] = cmds[i][1]
  <2> SUFFICES ASSUME NEW i \in 1..n PROVE t[i][1] = cmds[i][1]
      OBVIOUS
  <2>1. CASE cmds[i][1] = "copy"
      BY <2>1 DEF Translated, Copy
  <2>2. CASE cmds[i][1] = "present"
      BY <2>2 DEF Translated, Present
  <2>3. CASE cmds[i][1] \notin {"copy", "present"}
      BY <2>3 DEF Translated
  <2>4. QED
      BY <2>1, <2>2, <2>3
<1>4. \A i \in 1..n : cmds[i][1] = "copy" =>
         t[i] = Copy(Gpu(cmds[i][2]), Gpu(cmds[i][3]), cmds[i][4])
    BY DEF Translated, Gpu
<1>5. t \in Seq({t[i] : i \in 1..n}) /\ Len(t) = n
  <2> HIDE DEF t, n
  <2>1. t \in [1..n -> {t[i] : i \in 1..n}]
      BY <1>2
  <2>2. t \in Seq({t[i] : i \in 1..n})
      BY <1>1, <2>1, SeqDef
  <2>3. Len(t) = n
      BY <1>1, <2>1, <2>2, LenProperties
  <2>4. QED
      BY <2>2, <2>3
<1>6. QED
    BY <1>1, <1>3, <1>4, <1>5

LEMMA CommandParts ==
    ASSUME NEW cmds \in Seq(Service!Command), NEW i \in 1..Len(cmds)
    PROVE  cmds[i][2] \in Nat /\ cmds[i][3] \in Nat /\ cmds[i][4] \in Nat
<1>1. cmds[i] \in Service!Command
    BY ElementOfSeq
<1>2. QED
    BY <1>1 DEF Service!Command

\* A first part of a list of copies that fit is translated to one that does.
LEMMA CopiesTranslate ==
    ASSUME IInv, NEW cmds \in Seq(Service!Command), SubmitError(cmds) = "ok",
           \A i \in 1..Len(cmds) : cmds[i][1] = "copy",
           NEW k \in 0..Len(cmds),
           \A i \in 1..k : InBounds(memory, Translated(cmds)[i]),
           NEW part, \A i \in 1..k : part[i] = Translated(cmds)[i]
    PROVE  /\ Translation(cmds, part, k)
           /\ \A i \in 1..k : Service!Runs(cmds[i])
<1>1. ASSUME NEW i \in 1..k
      PROVE  /\ i \in 1..Len(cmds)
             /\ cmds[i][2] \in DOMAIN resources
             /\ cmds[i][3] \in DOMAIN resources
             /\ cmds[i][4] \in Nat
             /\ cmds[i][4] <= Len(Contents(cmds[i][2]))
             /\ cmds[i][4] <= Len(Contents(cmds[i][3]))
             /\ part[i] = Copy(Gpu(cmds[i][2]), Gpu(cmds[i][3]), cmds[i][4])
  <2>1. i \in 1..Len(cmds)
      BY TranslatedShape
  <2>2. cmds[i][1] = "copy" /\ cmds[i][4] \in Nat
      BY <2>1, CommandParts
  <2>3. cmds[i][2] \in DOMAIN resources /\ cmds[i][3] \in DOMAIN resources
    <3>1. Named(cmds[i]) \subseteq DOMAIN resources
        BY <2>1 DEF SubmitError
    <3>2. QED
        BY <2>2, <3>1 DEF Named
  <2>4. part[i] = Copy(Gpu(cmds[i][2]), Gpu(cmds[i][3]), cmds[i][4])
      BY <2>1, <2>2, TranslatedShape
  <2>5. InBounds(memory, part[i])
      OBVIOUS
  <2>6. /\ cmds[i][4] <= Len(memory[Gpu(cmds[i][2])])
        /\ cmds[i][4] <= Len(memory[Gpu(cmds[i][3])])
      BY <2>4, <2>5 DEF InBounds, Copy
  <2>7. QED
      BY <2>1, <2>2, <2>3, <2>4, <2>6, Backing
<1>2. Translation(cmds, part, k)
    BY <1>1 DEF Translation
<1>3. ASSUME NEW i \in 1..k PROVE Service!Runs(cmds[i])
    BY <1>1 DEF Service!Runs, Service!Named
<1>4. QED
    BY <1>2, <1>3

LEMMA MissingIsNamed ==
    ASSUME NEW cmds
    PROVE  Service!Missing(cmds)
              = {i \in 1..Len(cmds) : ~(Named(cmds[i]) \subseteq DOMAIN resources)}
    BY DEF Service!Missing, Service!Named, Service!Live, Named

\* One outcome of the device, as a step of the service.
LEMMA Transferred ==
    ASSUME IInv, NEW cmds \in Seq(Service!Command), SubmitError(cmds) = "ok",
           Asked(request)' = Submission(cmds),
           UNCHANGED <<resources, next_resource_id>>,
           NEW k \in 0..Len(cmds),
           \A i \in 1..k : Service!Runs(cmds[i]),
           k > 0 => \A i \in 1..Len(cmds) : cmds[i][1] = "copy",
           Seen(memory') = Service!After(cmds, k),
           Service!Answer(IF k = Len(cmds) THEN "ok" ELSE "Gpu", 0)
    PROVE  Service!Transfer
<1>1. /\ Asked(request)'.op = "submit"
      /\ Asked(request)'.list = cmds
    BY DEF Submission
<1>2. Service!Missing(cmds) = {}
    BY MissingIsNamed DEF SubmitError
<1>3. [h \in DOMAIN resources |-> Contents(h)]' = Service!After(cmds, k)
    BY DEF Seen, Contents, Gpu
<1>4. UNCHANGED (next_resource_id - 1)
    OBVIOUS
<1>5. QED
    BY <1>1, <1>2, <1>3, <1>4 DEF Service!Transfer

LEMMA SubmitServed ==
    ASSUME IInv, Filled, NEW f \in Requests, request' = f,
           f.header.opcode # VF_SGPU_CREATE_RESOURCE,
           NEW cmds \in Seq(Service!Command), Asked(f) = Submission(cmds),
           NEW payload, Submit(f, cmds, payload)
    PROVE  Service!Refuse \/ Service!Transfer
<1>1. Service!Answer(reply'.err, 0)
    BY NoHandle
<1>2. Asked(request)' = Submission(cmds)
    OBVIOUS
<1>3. CASE SubmitError(cmds) # "ok"
  <2>1. /\ reply'.err = SubmitError(cmds)
        /\ UNCHANGED <<resources, next_resource_id, memory>>
      BY <1>3 DEF Submit, Failure
  <2>2. CASE SubmitError(cmds) = "Payload"
      BY <1>1, <2>1, <2>2, Unchanged DEF Service!Refuse
  <2>3. CASE SubmitError(cmds) = "ResourceNotFound"
    <3>1. Service!Missing(cmds) # {}
        BY <2>3, MissingIsNamed DEF SubmitError
    <3>2. Asked(request)'.op = "submit" /\ Asked(request)'.list = cmds
        BY <1>2 DEF Submission
    <3>3. QED
        BY <1>1, <2>1, <2>3, <3>1, <3>2, Unchanged DEF Service!Refuse
  <2>4. QED
      BY <1>3, <2>2, <2>3, ErrorTypes
<1>4. CASE SubmitError(cmds) = "ok"
  <2> DEFINE t == Translated(cmds)
             n == Len(cmds)
  <2>1. PICK out \in DeviceOutcomes(memory, t) :
           /\ memory' = out.mem
           /\ reply' = IF out.err = "ok" THEN Success(f, payload)
                       ELSE Failure(out.err)
           /\ UNCHANGED <<resources, next_resource_id>>
      BY <1>4 DEF Submit
  <2>2. Service!Answer(out.err, 0)
    <3>1. reply'.err = out.err
        BY <2>1, OutcomeShape DEF Success, Failure
    <3>2. QED
        BY <1>1, <3>1
  <2>3. /\ n \in Nat /\ Len(t) = n
        /\ t \in Seq({t[i] : i \in 1..n})
        /\ \A i \in 1..n : t[i][1] = cmds[i][1]
      BY TranslatedShape
  <2> HIDE DEF t
  <2>4. CASE \E i \in 1..n : t[i][1] # "copy"
    <3>1. out = [err |-> "Gpu", mem |-> memory]
        BY <2>1, <2>3, <2>4 DEF DeviceOutcomes
    <3>2. n # 0
        BY <2>3, <2>4
    <3>3. Seen(memory') = Service!After(cmds, 0)
      <4>1. Service!After(cmds, 0) = Buffers
          BY AfterRun, RunSteps
      <4>2. Seen(memory) = Buffers
          BY DEF Seen, Buffers, Contents, Gpu
      <4>3. QED
          BY <4>1, <4>2, <2>1, <3>1
    <3>4. Service!Answer(IF 0 = n THEN "ok" ELSE "Gpu", 0)
        BY <2>2, <3>1, <3>2
    <3>5. 0 \in 0..n /\ \A i \in 1..0 : Service!Runs(cmds[i])
        BY <2>3
    <3>6. ~ (0 > 0)
        OBVIOUS
    <3>7. QED
        BY <1>2, <1>4, <2>1, <3>3, <3>4, <3>5, <3>6, Transferred
  <2>5. CASE \A i \in 1..n : t[i][1] = "copy"
    <3>1. \A i \in 1..n : cmds[i][1] = "copy"
        BY <2>3, <2>5
    <3>2. CASE \A i \in 1..n : InBounds(memory, t[i])
      <4>1. out = [err |-> "ok", mem |-> Executed(memory, t)]
          BY <2>1, <2>3, <2>5, <3>2 DEF DeviceOutcomes
      <4>2. n \in 0..n
          BY <2>3
      <4>3. Translation(cmds, t, n) /\ \A i \in 1..n : Service!Runs(cmds[i])
          BY <1>4, <2>3, <3>1, <3>2, <4>2, CopiesTranslate DEF t
      <4>4. Seen(memory') = Service!After(cmds, n)
          BY <2>1, <2>3, <4>1, <4>3, ExecutedSeen
      <4>5. Service!Answer(IF n = n THEN "ok" ELSE "Gpu", 0)
          BY <2>2, <4>1
      <4>6. QED
          BY <1>2, <1>4, <2>1, <3>1, <4>2, <4>3, <4>4, <4>5, Transferred
    <3>3. CASE \E i \in 1..n : ~InBounds(memory, t[i])
      <4>1. PICK k \in 0..(n - 1) :
               /\ \A i \in 1..k : InBounds(memory, t[i])
               /\ out = [err |-> "Gpu", mem |-> Executed(memory, SubSeq(t, 1, k))]
          BY <2>1, <2>3, <2>5, <3>3 DEF DeviceOutcomes
      <4> DEFINE part == SubSeq(t, 1, k)
      <4>2. k \in Nat /\ k \in 0..n /\ k # n
          BY <2>3
      <4>3. Len(part) = k /\ \A i \in 1..k : part[i] = t[i]
          BY <2>3, <4>2, SubSeqProperties
      <4> HIDE DEF part
      <4>4. Translation(cmds, part, k) /\ \A i \in 1..k : Service!Runs(cmds[i])
          BY <1>4, <3>1, <4>1, <4>2, <4>3, CopiesTranslate DEF t
      <4>5. Seen(memory') = Service!After(cmds, k)
        <5>1. memory' = Executed(memory, part)
            BY <2>1, <4>1 DEF part
        <5>2. QED
            BY <4>2, <4>3, <4>4, <5>1, ExecutedSeen
      <4>6. Service!Answer(IF k = n THEN "ok" ELSE "Gpu", 0)
          BY <2>2, <4>1, <4>2
      <4>7. QED
          BY <1>2, <1>4, <2>1, <3>1, <4>2, <4>4, <4>5, <4>6, Transferred
    <3>4. QED
        BY <3>2, <3>3
  <2>6. QED
      BY <2>4, <2>5
<1>5. QED
    BY <1>3, <1>4

LEMMA ListServed ==
    ASSUME IInv, Filled, NEW f \in Requests,
           DispatchSubmit(f) \/ DispatchPresent(f)
    PROVE  Service!Refuse \/ Service!Transfer
<1>1. request' = f /\ ValidateError(f) = "ok"
    BY DEF DispatchSubmit, DispatchPresent, Accepts
<1>2. CASE DispatchSubmit(f)
  <2>1. f.header.opcode = VF_SGPU_SUBMIT_COMMAND_LIST
      BY <1>2 DEF DispatchSubmit, Accepts
  <2>2. CASE ~DecodesToList(f.payload)
      BY <1>2, <2>2, RefusedAsMalformed DEF DispatchSubmit
  <2>3. CASE DecodesToList(f.payload)
    <3>1. Submit(f, List(f.payload), <<Word(Len(List(f.payload)))>>)
        BY <1>2, <2>3 DEF DispatchSubmit
    <3>2. List(f.payload) \in Seq(Service!Command)
        BY <1>1, <2>3, ListCommands
    <3>3. Asked(f) = Submission(List(f.payload))
        BY <1>1, <2>1, <2>3, AskedSubmit
    <3>4. f.header.opcode # VF_SGPU_CREATE_RESOURCE
        BY <2>1, OpcodesDiffer
    <3>5. QED
        BY <1>1, <3>1, <3>2, <3>3, <3>4, SubmitServed
  <2>4. QED
      BY <2>2, <2>3
<1>3. CASE DispatchPresent(f)
  <2>1. f.header.opcode = VF_SGPU_PRESENT
      BY <1>3 DEF DispatchPresent, Accepts
  <2>2. CASE Len(f.payload) # 1
      BY <1>3, <2>2, RefusedAsMalformed DEF DispatchPresent
  <2>3. CASE Len(f.payload) = 1
    <3> DEFINE cmds == <<Present(Num(f.payload[1]))>>
    <3>1. Submit(f, cmds, <<>>)
        BY <1>3, <2>3 DEF DispatchPresent
    <3>2. cmds \in Seq(Service!Command)
      <4>1. Present(Num(f.payload[1])) \in Service!Command
          BY <2>3, SessionAssumption DEF Present, Service!Command
      <4>2. QED
          BY <4>1
    <3>3. Asked(f) = Submission(cmds)
        BY <1>1, <2>1, <2>3, AskedPresent
    <3>4. f.header.opcode # VF_SGPU_CREATE_RESOURCE
        BY <2>1, OpcodesDiffer
    <3> HIDE DEF cmds
    <3>5. QED
        BY <1>1, <3>1, <3>2, <3>3, <3>4, SubmitServed
  <2>4. QED
      BY <2>2, <2>3
<1>4. QED
    BY <1>2, <1>3

-----------------------------------------------------------------------------
(* The host, and the whole.                                                *)

LEMMA HostServed ==
    ASSUME IInv, NEW g, NEW n \in 1..MaxResourceBytes, NEW buffer \in Buffer(n),
           HostWrite(g, buffer)
    PROVE  Service!HostWrite
<1>1. /\ g \in DOMAIN memory /\ DOMAIN buffer = DOMAIN memory[g]
      /\ memory' = [memory EXCEPT ![g] = buffer]
      /\ request' = NoFrame /\ reply'.err = "none"
      /\ UNCHANGED <<resources, next_resource_id>>
    BY DEF HostWrite, Failure
<1>2. Asked(request') = Plain("other", 0)
  <2>1. ShapeError(NoFrame.header) = "ok" \/ ShapeError(NoFrame.header) # "ok"
      OBVIOUS
  <2>2. NoFrame.header.family = 0
      BY DEF NoFrame, NewHeader
  <2>3. FrameLayoutError(NoFrame.header) # "ok"
      BY <2>2 DEF FrameLayoutError, VF_FAMILY_SGPU
  <2>4. ValidateError(NoFrame) # "ok"
      BY <2>3 DEF ValidateError
  <2>5. QED
      BY <1>1, <2>4, AskedOther
<1>3. Service!Answer("none", 0)
    BY <1>1, NoHandle
<1>4. UNCHANGED (next_resource_id - 1)
    BY <1>1
<1>5. CASE \A h \in DOMAIN resources : Gpu(h) # g
  <2>1. UNCHANGED [h \in DOMAIN resources |-> Contents(h)]
      BY <1>1, <1>5 DEF Contents, Gpu
  <2>2. QED
      BY <1>2, <1>3, <1>4, <2>1 DEF Service!HostWrite, Plain
<1>6. ASSUME NEW h \in DOMAIN resources, Gpu(h) = g
      PROVE  Service!HostWrite
  <2>1. \A k \in DOMAIN resources : k # h => Gpu(k) # g
      BY <1>6, Backing
  <2>2. [k \in DOMAIN resources |-> Contents(k)]'
           = [k \in DOMAIN resources |-> IF k = h THEN buffer ELSE Contents(k)]
      BY <1>1, <1>6, <2>1 DEF Contents, Gpu
  <2>3. buffer \in [DOMAIN Contents(h) -> Byte]
    <3>1. buffer \in [1..n -> Byte]
        BY DEF Buffer
    <3>2. DOMAIN Contents(h) = DOMAIN memory[g]
        BY <1>6 DEF Contents, Gpu
    <3>3. QED
        BY <1>1, <3>1, <3>2
  <2>4. [k \in DOMAIN resources |-> Contents(k)]'
           = [[k \in DOMAIN resources |-> Contents(k)] EXCEPT ![h] = buffer]
      BY <2>2
  <2>5. [k \in DOMAIN resources |-> Contents(k)][h] = Contents(h)
      OBVIOUS
  <2>6. \E k \in Service!Live :
           \E b \in [DOMAIN [j \in DOMAIN resources |-> Contents(j)][k] -> Byte] :
              [j \in DOMAIN resources |-> Contents(j)]'
                 = [[j \in DOMAIN resources |-> Contents(j)] EXCEPT ![k] = b]
      BY <2>3, <2>4, <2>5 DEF Service!Live
  <2>7. QED
      BY <1>2, <1>3, <1>4, <2>6 DEF Service!HostWrite, Plain
<1>7. QED
    BY <1>5, <1>6

LEMMA DispatchServed ==
    ASSUME IInv, Filled, NEW f \in Requests, Dispatch(f)
    PROVE  Service!Next
<1>1. request' = f
    BY DispatchCases
<1>2. Asked(request)' \in Service!Request
    BY <1>1, AskedRequest
<1>3. CASE DispatchInvalid(f) \/ DispatchUnknown(f)
  <2>1. \E err \in {"Eabi", "Erange", "Payload"} : Reject(err)
      BY <1>3, ErrorTypes DEF DispatchInvalid, DispatchUnknown
  <2>2. Service!Refuse
      BY <2>1, RefusedAsMalformed
  <2>3. QED
      BY <1>2, <2>2 DEF Service!Next
<1>4. CASE DispatchQueryCaps(f)
    BY <1>2, <1>4, QueryServed DEF Service!Next
<1>5. CASE DispatchCreate(f)
    BY <1>2, <1>5, CreateServed DEF Service!Next
<1>6. CASE DispatchDestroy(f)
    BY <1>2, <1>6, DestroyServed DEF Service!Next
<1>7. CASE DispatchSubmit(f) \/ DispatchPresent(f)
    BY <1>2, <1>7, ListServed DEF Service!Next
<1>8. QED
    BY <1>3, <1>4, <1>5, <1>6, <1>7 DEF Dispatch

LEMMA InitFilled == Init => Filled
    BY DEF Init, Filled

LEMMA NextFilled == Filled /\ [Next]_vars => Filled'
<1> SUFFICES ASSUME Filled, [Next]_vars PROVE Filled'
    OBVIOUS
<1>1. CASE UNCHANGED memory
    BY <1>1 DEF Filled
<1>2. ASSUME NEW n, NEW buffer \in Buffer(n), NEW g, HostWrite(g, buffer)
      PROVE  Filled'
    BY <1>2 DEF HostWrite, Filled, Buffer
<1>3. ASSUME NEW f, NEW cmds, NEW payload, Submit(f, cmds, payload)
      PROVE  Filled'
  <2>1. CASE SubmitError(cmds) # "ok"
      BY <1>1, <1>3, <2>1 DEF Submit
  <2>2. ASSUME NEW part, memory' = Executed(memory, part)
        PROVE  Filled'
      BY <2>2 DEF Filled, Executed
  <2>3. CASE SubmitError(cmds) = "ok"
    <3>1. PICK out \in DeviceOutcomes(memory, Translated(cmds)) : memory' = out.mem
        BY <1>3, <2>3 DEF Submit
    <3>2. out.mem = memory \/ \E part : out.mem = Executed(memory, part)
        BY DEF DeviceOutcomes
    <3>3. QED
        BY <1>1, <2>2, <3>1, <3>2
  <2>4. QED
      BY <2>1, <2>3
<1>4. ASSUME NEW size, NEW gpu, CreateResource(size, gpu)
      PROVE  Filled'
  <2>1. Zeros(size) = [i \in DOMAIN Zeros(size) |-> Zeros(size)[i]]
      BY DEF Zeros
  <2>2. QED
      BY <1>4, <2>1 DEF CreateResource, Insert, Filled
<1>5. ASSUME NEW handle, NEW freed, DestroyResource(handle, freed)
      PROVE  Filled'
    BY <1>5 DEF DestroyResource, Remove, Filled
<1>6. ASSUME NEW f \in Requests, Dispatch(f) PROVE Filled'
  <2>1. CASE DispatchInvalid(f) \/ DispatchUnknown(f) \/ DispatchQueryCaps(f)
      BY <1>1, <2>1 DEF DispatchInvalid, DispatchUnknown, DispatchQueryCaps, Reject
  <2>2. CASE DispatchCreate(f)
      BY <1>1, <1>4, <2>2 DEF DispatchCreate, Reject
  <2>3. CASE DispatchDestroy(f)
      BY <1>1, <1>5, <2>3 DEF DispatchDestroy, Reject
  <2>4. CASE DispatchSubmit(f)
      BY <1>1, <1>3, <2>4 DEF DispatchSubmit, Reject
  <2>5. CASE DispatchPresent(f)
      BY <1>1, <1>3, <2>5 DEF DispatchPresent, Reject
  <2>6. QED
      BY <1>6, <2>1, <2>2, <2>3, <2>4, <2>5 DEF Dispatch
<1>7. QED
    BY <1>1, <1>2, <1>6 DEF Next, vars

LEMMA InitServed == Init => Service!Init
<1> SUFFICES ASSUME Init PROVE Service!Init
    OBVIOUS
<1>1. Asked(request) = Plain("other", 0)
  <2>1. NoFrame.header.family = 0
      BY DEF NoFrame, NewHeader
  <2>2. ValidateError(NoFrame) # "ok"
      BY <2>1 DEF ValidateError, FrameLayoutError, VF_FAMILY_SGPU
  <2>3. QED
      BY <2>2, AskedOther DEF Init
<1>2. [h \in DOMAIN resources |-> Contents(h)] = [h \in {} |-> <<>>]
    BY DEF Init
<1>3. next_resource_id - 1 = 0 /\ reply.err = "none"
    BY DEF Init, Failure
<1>4. QED
    BY <1>1, <1>2, <1>3 DEF Service!Init, Plain

LEMMA NextServed ==
    IInv /\ Filled /\ [Next]_vars => [Service!Next]_Service!vars
<1> SUFFICES ASSUME IInv, Filled, [Next]_vars
             PROVE  [Service!Next]_Service!vars
    OBVIOUS
<1>1. ASSUME NEW f \in Requests, Dispatch(f) PROVE Service!Next
    BY <1>1, DispatchServed
<1>2. ASSUME NEW g, NEW n \in 1..MaxResourceBytes, NEW buffer \in Buffer(n),
             HostWrite(g, buffer)
      PROVE  Service!Next
    BY <1>2, HostServed DEF Service!Next
<1>3. CASE UNCHANGED vars
    BY <1>3 DEF vars, Service!vars, Contents
<1>4. QED
    BY <1>1, <1>2, <1>3 DEF Next

\* The session implements its service, for every limit, every set of requests
\* and every device: each dispatch is one step of the service, or none.
THEOREM SessionServes == Spec => ImplementsService
<1>1. Spec => Service!Spec
    BY InitIInv, NextIInv, InitFilled, NextFilled, InitServed, NextServed, PTL
       DEF Spec, Service!Spec
<1>2. QED
    BY <1>1, PTL DEF ImplementsService
=============================================================================
