-------------------------- MODULE HostRunner_proof --------------------------
(***************************************************************************)
(* Proofs about HostRunner, for any number of runs, directories and        *)
(* requests: receipts of a directory are of one run, no worker starts      *)
(* unrecorded, none is left behind, and none is started beyond its         *)
(* deadline; a returned outcome is on record, and it is of the bytes that  *)
(* were hashed.                                                            *)
(*                                                                         *)
(* Three invariants are proved one on top of the other: IInv of claims,    *)
(* records and phases, RInv of which receipts are complete where, and VInv *)
(* of what was read of a report that still grows.  The refinement of       *)
(* RunnerService, at the end, rests on JInv, which adds to IInv.           *)
(***************************************************************************)
EXTENDS HostRunner, SequenceTheorems, TLAPS

\* The receipts a run creates; runner.pid is written over what is there.
Created == Receipts \ {"runner.pid"}

Places == Steps \X {""} \cup {"create", "write"} \X Created

Results == {"none", "ok", "InvalidRequest", "UnsupportedHost", "overflow",
            "Io", "Json", "WaitFailed"}

HostTyped ==
    /\ pc \in [Runs -> Places]
    /\ request \in [Runs -> Requests]
    /\ owner \in [Dirs -> Runs \cup {NoRun}]
    /\ files \in [Dirs -> [Receipts -> [by : Runs \cup {NoRun}, whole : BOOLEAN]]]
    /\ worker \in [Runs -> {"none", "running", "exited", "reaped"}]
    /\ pid_record \in [Runs -> BOOLEAN]
    /\ result \in [Runs -> Results]

Outside == {"invocation", "create_dir", "returned", "died"}
Unchecked == {"invocation", "returned", "died"}

Inside(place) == place[1] \notin Outside
Checked(place) == place[1] \notin Unchecked

\* A run that is past create_dir owns its directory.
Claimed(r) == Inside(pc[r]) => owner[Dir(r)] = r

\* The places after which request.json, or both records, are complete.
RequestWritten(place) ==
    \/ place[1] \in {"spawn", "pid", "wait", "read", "evaluate"}
    \/ place[1] \in {"create", "write"} /\ place[2] # "request.json"
InvocationWritten(place) ==
    \/ place[1] \in {"spawn", "pid", "wait", "read", "evaluate"}
    \/ /\ place[1] \in {"create", "write"}
       /\ place[2] \notin {"request.json", "invocation.json"}

Recorded(r) ==
    /\ RequestWritten(pc[r]) => Whole(r, "request.json")
    /\ InvocationWritten(pc[r]) => Whole(r, "invocation.json")
    /\ worker[r] # "none" =>
          /\ owner[Dir(r)] = r
          /\ Whole(r, "request.json")
          /\ Whole(r, "invocation.json")

\* What a run's place says of its worker.
BeforeWorker(place) ==
    \/ place[1] \in {"invocation", "create_dir", "spawn"}
    \/ place[1] \in {"create", "write"} /\ place[2] # "adapter.json"
AfterWorker(place) ==
    \/ place[1] \in {"read", "evaluate"}
    \/ place[1] \in {"create", "write"} /\ place[2] = "adapter.json"

Phase(r) ==
    /\ BeforeWorker(pc[r]) => worker[r] = "none"
    /\ AfterWorker(pc[r]) => worker[r] = "reaped"
    /\ pc[r] = At("returned") /\ result[r] # "WaitFailed" =>
          worker[r] \in {"none", "reaped"}

Permitted(r) ==
    /\ result[r] # "overflow"
    /\ Checked(pc[r]) => InvocationError(request[r]) = "ok"
    /\ worker[r] # "none" => InvocationError(request[r]) = "ok"

Good(r) == Claimed(r) /\ Recorded(r) /\ Phase(r) /\ Permitted(r)

IInv == HostTyped /\ OwnReceipts /\ \A r \in Runs : Good(r)

\* A step of r: it moves no other run, takes a directory only if nobody has
\* it, and writes files only if it has their directory.
StepOf(r) ==
    /\ request' = request
    /\ \A s \in Runs \ {r} :
          /\ pc'[s] = pc[s]
          /\ worker'[s] = worker[s]
          /\ result'[s] = result[s]
    /\ \/ UNCHANGED <<owner, files>>
       \/ /\ owner[Dir(r)] = NoRun
          /\ owner' = [owner EXCEPT ![Dir(r)] = r]
          /\ UNCHANGED files
       \/ /\ owner[Dir(r)] = r
          /\ \E f \in Receipts, w \in BOOLEAN : SetFile(r, f, w)
          /\ UNCHANGED owner

-----------------------------------------------------------------------------
(* The checks of invocation.                                               *)

\* No request reaches an addition that does not fit in a u32, and a recovery
\* request that passes has room for its observation and its cleanup.
THEOREM BudgetFits ==
    ASSUME NEW q \in Requests
    PROVE  /\ InvocationError(q) \in {"ok", "InvalidRequest", "UnsupportedHost"}
           /\ InvocationError(q) = "ok" /\ Recovery(q) =>
                 /\ q.duration_secs + Grace < q.total_timeout_secs
                 /\ q.total_timeout_secs <= MaxSeconds
<1>1. q \in RunnerRequestType(Dirs)
  BY RunnerAssumption
<1>2. /\ q.duration_secs \in Nat
      /\ q.total_timeout_secs \in Nat
  BY <1>1, RequestAssumption DEF RunnerRequestType, Seconds
<1>3. ~NotAcknowledged(q) => q.duration_secs + Grace <= MaxU32
  BY <1>2, RequestAssumption DEF NotAcknowledged
<1>4. ~NotAcknowledged(q) => ~BudgetOverflows(q)
  BY <1>2, <1>3, RequestAssumption DEF BudgetOverflows
<1>5. Recovery(q) /\ ~OutOfRange(q) => q.total_timeout_secs <= MaxSeconds
  BY <1>2, RequestAssumption DEF OutOfRange
<1>6. Recovery(q) /\ ~BudgetTooSmall(q) =>
          q.duration_secs + Grace < q.total_timeout_secs
  BY <1>2, RequestAssumption DEF BudgetTooSmall
<1> QED
  BY <1>4, <1>5, <1>6 DEF InvocationError

-----------------------------------------------------------------------------
(* What every step keeps.                                                  *)

LEMMA DirTyped ==
    ASSUME HostTyped, NEW r \in Runs
    PROVE  Dir(r) \in Dirs
BY RunnerAssumption DEF HostTyped, Dir, RunnerRequestType

\* A write changes one receipt of one directory.
LEMMA Written ==
    ASSUME HostTyped, NEW r \in Runs, NEW f \in Receipts, NEW w \in BOOLEAN,
           SetFile(r, f, w)
    PROVE  /\ files' \in [Dirs -> [Receipts -> [by : Runs \cup {NoRun},
                                               whole : BOOLEAN]]]
           /\ files'[Dir(r)][f] = [by |-> r, whole |-> w]
           /\ \A d \in Dirs, g \in Receipts :
                 d # Dir(r) \/ g # f => files'[d][g] = files[d][g]
BY DirTyped DEF HostTyped, SetFile

\* Receipts stay with the owner of their directory.
LEMMA ReceiptsStay ==
    ASSUME IInv, NEW r \in Runs, StepOf(r)
    PROVE  OwnReceipts'
<1>1. Dir(r) \in Dirs
  BY DirTyped DEF IInv
<1>2. CASE UNCHANGED <<owner, files>>
  BY <1>2 DEF IInv, OwnReceipts, File
<1>3. CASE /\ owner[Dir(r)] = NoRun
           /\ owner' = [owner EXCEPT ![Dir(r)] = r]
           /\ UNCHANGED files
  BY <1>1, <1>3 DEF IInv, HostTyped, OwnReceipts, File
<1>4. CASE /\ owner[Dir(r)] = r
           /\ \E f \in Receipts, w \in BOOLEAN : SetFile(r, f, w)
           /\ UNCHANGED owner
  <2>1. PICK f \in Receipts, w \in BOOLEAN : SetFile(r, f, w)
    BY <1>4
  <2>2. /\ files'[Dir(r)][f] = [by |-> r, whole |-> w]
        /\ \A d \in Dirs, g \in Receipts :
              d # Dir(r) \/ g # f => files'[d][g] = files[d][g]
    BY <2>1, Written DEF IInv
  <2> QED
    BY <1>1, <1>4, <2>2 DEF IInv, OwnReceipts, File
<1> QED
  BY <1>2, <1>3, <1>4 DEF StepOf

\* What a run has claimed is not touched by another.
LEMMA OwnFilesStay ==
    ASSUME IInv, NEW r \in Runs, StepOf(r), NEW s \in Runs, s # r,
           owner[Dir(s)] = s
    PROVE  /\ owner'[Dir(s)] = s
           /\ \A f \in Receipts : files'[Dir(s)][f] = files[Dir(s)][f]
<1>1. Dir(r) \in Dirs /\ Dir(s) \in Dirs
  BY DirTyped DEF IInv
<1>2. s # NoRun
  BY RunnerAssumption
<1>3. CASE UNCHANGED <<owner, files>>
  BY <1>3
<1>4. CASE /\ owner[Dir(r)] = NoRun
           /\ owner' = [owner EXCEPT ![Dir(r)] = r]
           /\ UNCHANGED files
  BY <1>1, <1>2, <1>4 DEF IInv, HostTyped
<1>5. CASE /\ owner[Dir(r)] = r
           /\ \E f \in Receipts, w \in BOOLEAN : SetFile(r, f, w)
           /\ UNCHANGED owner
  <2>1. Dir(r) # Dir(s)
    BY <1>5
  <2>2. \A g \in Receipts : files'[Dir(s)][g] = files[Dir(s)][g]
    BY <1>1, <1>5, <2>1, Written DEF IInv
  <2> QED
    BY <1>5, <2>2
<1> QED
  BY <1>3, <1>4, <1>5 DEF StepOf

\* A step of one run does not disturb another: if they were given the same
\* directory, the other has no claim to it.
LEMMA OthersStay ==
    ASSUME IInv, NEW r \in Runs, StepOf(r), NEW s \in Runs, s # r
    PROVE  Good(s)'
<1>1. Dir(r) \in Dirs /\ Dir(s) \in Dirs
  BY DirTyped DEF IInv
<1>2. request' = request /\ Dir(s)' = Dir(s)
  BY DEF StepOf, Dir
<1>3. pc'[s] = pc[s] /\ worker'[s] = worker[s] /\ result'[s] = result[s]
  BY DEF StepOf
<1>4. ASSUME owner[Dir(s)] = s
      PROVE  /\ owner'[Dir(s)] = s
             /\ \A f \in Receipts : File(Dir(s), f)' = File(Dir(s), f)
  BY <1>2, <1>4, OwnFilesStay DEF File
<1>5. Claimed(s)'
  BY <1>2, <1>3, <1>4 DEF IInv, Good, Claimed
<1>6. ASSUME owner[Dir(s)] = s, NEW f \in Receipts, Whole(s, f)
      PROVE  Whole(s, f)'
  BY <1>2, <1>4, <1>6 DEF Whole
<1>7. {"request.json", "invocation.json"} \subseteq Receipts
  BY DEF Receipts
<1>8. RequestWritten(pc[s]) \/ InvocationWritten(pc[s]) => owner[Dir(s)] = s
  BY DEF IInv, Good, Claimed, Inside, Outside, RequestWritten, InvocationWritten
<1>9. Recorded(s)'
  <2>1. Recorded(s)
    BY DEF IInv, Good
  <2>2. RequestWritten(pc'[s]) => Whole(s, "request.json")'
    BY <1>3, <1>6, <1>7, <1>8, <2>1 DEF Recorded
  <2>3. InvocationWritten(pc'[s]) => Whole(s, "invocation.json")'
    BY <1>3, <1>6, <1>7, <1>8, <2>1 DEF Recorded
  <2>4. worker'[s] # "none" =>
           /\ owner'[Dir(s)] = s
           /\ Whole(s, "request.json")'
           /\ Whole(s, "invocation.json")'
    BY <1>3, <1>4, <1>6, <1>7, <2>1 DEF Recorded
  <2> QED
    BY <1>2, <2>2, <2>3, <2>4 DEF Recorded
<1>10. Phase(s)' /\ Permitted(s)'
  BY <1>2, <1>3 DEF IInv, Good, Phase, Permitted
<1> QED
  BY <1>5, <1>9, <1>10 DEF Good

\* What is left to show of a step of r: types, and what it says of r itself.
LEMMA Kept ==
    ASSUME IInv, NEW r \in Runs, StepOf(r), HostTyped', Good(r)'
    PROVE  IInv'
BY ReceiptsStay, OthersStay DEF IInv

-----------------------------------------------------------------------------
(* Places.                                                                 *)

\* What a place without a receipt says.
LEMMA AtStep ==
    ASSUME NEW s \in Steps \ {"create", "write"}
    PROVE  /\ At(s) \in Places
           /\ Inside(At(s)) <=> s \notin Outside
           /\ Checked(At(s)) <=> s \notin Unchecked
           /\ RequestWritten(At(s)) <=>
                 s \in {"spawn", "pid", "wait", "read", "evaluate"}
           /\ InvocationWritten(At(s)) <=>
                 s \in {"spawn", "pid", "wait", "read", "evaluate"}
           /\ BeforeWorker(At(s)) <=> s \in {"invocation", "create_dir", "spawn"}
           /\ AfterWorker(At(s)) <=> s \in {"read", "evaluate"}
           /\ At(s) = At("returned") <=> s = "returned"
<1>1. At(s) \in Places
  BY DEF At, Places
<1>2. Inside(At(s)) <=> s \notin Outside
  BY DEF At, Inside
<1>3. Checked(At(s)) <=> s \notin Unchecked
  BY DEF At, Checked
<1>4. /\ RequestWritten(At(s)) <=>
             s \in {"spawn", "pid", "wait", "read", "evaluate"}
      /\ InvocationWritten(At(s)) <=>
             s \in {"spawn", "pid", "wait", "read", "evaluate"}
  BY DEF At, RequestWritten, InvocationWritten
<1>5. /\ BeforeWorker(At(s)) <=> s \in {"invocation", "create_dir", "spawn"}
      /\ AfterWorker(At(s)) <=> s \in {"read", "evaluate"}
  BY DEF At, BeforeWorker, AfterWorker
<1>6. At(s) = At("returned") <=> s = "returned"
  BY DEF At
<1> QED
  BY <1>1, <1>2, <1>3, <1>4, <1>5, <1>6

\* What a place with a receipt says.
LEMMA AtReceipt ==
    ASSUME NEW k \in {"create", "write"}, NEW f \in Created
    PROVE  /\ <<k, f>> \in Places
           /\ Inside(<<k, f>>)
           /\ Checked(<<k, f>>)
           /\ RequestWritten(<<k, f>>) <=> f # "request.json"
           /\ InvocationWritten(<<k, f>>) <=>
                 f \notin {"request.json", "invocation.json"}
           /\ BeforeWorker(<<k, f>>) <=> f # "adapter.json"
           /\ AfterWorker(<<k, f>>) <=> f = "adapter.json"
           /\ <<k, f>> # At("returned")
<1>1. <<k, f>> \in Places
  BY DEF Places
<1>2. Inside(<<k, f>>) /\ Checked(<<k, f>>)
  BY DEF Inside, Checked, Outside, Unchecked
<1>3. /\ RequestWritten(<<k, f>>) <=> f # "request.json"
      /\ InvocationWritten(<<k, f>>) <=>
             f \notin {"request.json", "invocation.json"}
  BY DEF RequestWritten, InvocationWritten
<1>4. /\ BeforeWorker(<<k, f>>) <=> f # "adapter.json"
      /\ AfterWorker(<<k, f>>) <=> f = "adapter.json"
  BY DEF BeforeWorker, AfterWorker
<1>5. <<k, f>> # At("returned")
  BY DEF At
<1> QED
  BY <1>1, <1>2, <1>3, <1>4, <1>5

LEMMA StepNames ==
    /\ \A s \in {"invocation", "create_dir", "spawn", "pid", "wait", "read",
                 "evaluate", "returned", "died"} : s \in Steps \ {"create", "write"}
    /\ {"request.json", "invocation.json", "worker.stdout.json",
        "worker.stderr.log", "spawn-error.json", "adapter.json",
        "runner.pid"} = Receipts
    /\ "request.json" \in Created
BY DEF Steps, Receipts, Created

\* A run that moves.
LEMMA Moved ==
    ASSUME HostTyped, NEW r \in Runs, NEW place \in Places,
           pc' = [pc EXCEPT ![r] = place]
    PROVE  /\ pc' \in [Runs -> Places]
           /\ pc'[r] = place
           /\ \A s \in Runs \ {r} : pc'[s] = pc[s]
BY DEF HostTyped

\* A run that returns.
LEMMA Returned ==
    ASSUME HostTyped, NEW r \in Runs, NEW value \in Results, Return(r, value)
    PROVE  /\ pc' \in [Runs -> Places]
           /\ pc'[r] = At("returned")
           /\ \A s \in Runs \ {r} : pc'[s] = pc[s] /\ result'[s] = result[s]
           /\ result' \in [Runs -> Results]
           /\ result'[r] = value
<1>1. At("returned") \in Places
  BY AtStep, StepNames
<1> QED
  BY <1>1, Moved DEF Return, HostTyped, Results

\* A run that returns, or dies, or fails leaves everything else as it is:
\* fine wherever its worker is not running, or if the wait failed.
LEMMA ReturnIsGood ==
    ASSUME IInv, NEW r \in Runs, NEW value \in Results \ {"overflow"},
           Return(r, value),
           UNCHANGED <<request, owner, files, worker>>,
           worker[r] \in {"none", "reaped"} \/ value = "WaitFailed"
    PROVE  Good(r)'
<1>1. pc'[r] = At("returned") /\ result'[r] = value
  BY Returned DEF IInv
<1>2. Claimed(r) /\ Recorded(r) /\ Phase(r) /\ Permitted(r)
  BY DEF IInv, Good
<1>3. ~Inside(At("returned")) /\ ~Checked(At("returned"))
      /\ ~RequestWritten(At("returned")) /\ ~InvocationWritten(At("returned"))
      /\ ~BeforeWorker(At("returned")) /\ ~AfterWorker(At("returned"))
  BY AtStep, StepNames DEF Outside, Unchecked
<1>4. Claimed(r)'
  BY <1>1, <1>3 DEF Claimed
<1>5. Recorded(r)'
  BY <1>1, <1>2, <1>3 DEF Recorded, Whole, File, Dir
<1>6. Phase(r)'
  BY <1>1, <1>3 DEF Phase
<1>7. Permitted(r)'
  BY <1>1, <1>2, <1>3 DEF Permitted
<1> QED
  BY <1>4, <1>5, <1>6, <1>7 DEF Good

-----------------------------------------------------------------------------
(* The steps before the worker.                                            *)

LEMMA InvokeKeeps ==
    ASSUME IInv, NEW r \in Runs, Invoke(r)
    PROVE  IInv'
<1>1. InvocationError(request[r]) \in {"ok", "InvalidRequest", "UnsupportedHost"}
  BY BudgetFits DEF IInv, HostTyped
<1>2. pc[r] = At("invocation") /\ UNCHANGED <<request, owner, files, worker, pid_record>>
  BY DEF Invoke, workVars, hostVars
<1>3. BeforeWorker(At("invocation"))
  BY AtStep, StepNames
<1>4. worker[r] = "none"
  BY <1>2, <1>3 DEF IInv, Good, Phase
<1>5. CASE InvocationError(request[r]) = "ok"
  <2>1. pc' = [pc EXCEPT ![r] = At("create_dir")] /\ UNCHANGED result
    BY <1>5 DEF Invoke, Goto
  <2>2. /\ At("create_dir") \in Places
        /\ ~Inside(At("create_dir"))
        /\ ~RequestWritten(At("create_dir"))
        /\ ~InvocationWritten(At("create_dir"))
        /\ ~AfterWorker(At("create_dir"))
        /\ At("create_dir") # At("returned")
    BY AtStep, StepNames DEF Outside
  <2>3. /\ pc' \in [Runs -> Places]
        /\ pc'[r] = At("create_dir")
        /\ \A s \in Runs \ {r} : pc'[s] = pc[s]
    BY <2>1, <2>2, Moved DEF IInv
  <2>4. StepOf(r) /\ HostTyped'
    BY <1>2, <2>1, <2>3 DEF StepOf, IInv, HostTyped
  <2>5. Claimed(r)' /\ Recorded(r)' /\ Phase(r)'
    BY <1>2, <1>4, <2>2, <2>3 DEF Claimed, Recorded, Phase
  <2>6. Permitted(r)'
    BY <1>2, <1>5, <2>1 DEF IInv, Good, Permitted
  <2> QED
    BY <2>4, <2>5, <2>6, Kept DEF Good
<1>6. CASE InvocationError(request[r]) # "ok"
  <2>1. PICK value \in {"InvalidRequest", "UnsupportedHost"} : Return(r, value)
    BY <1>1, <1>6 DEF Invoke
  <2>2. value \in Results \ {"overflow"}
    BY DEF Results
  <2>3. StepOf(r) /\ HostTyped'
    BY <1>2, <2>1, <2>2, Returned DEF StepOf, IInv, HostTyped
  <2> QED
    BY <1>2, <1>4, <2>1, <2>2, <2>3, ReturnIsGood, Kept
<1> QED
  BY <1>5, <1>6

LEMMA CreateDirKeeps ==
    ASSUME IInv, NEW r \in Runs, CreateDir(r)
    PROVE  IInv'
<1>1. Dir(r) \in Dirs
  BY DirTyped DEF IInv
<1>2. pc[r] = At("create_dir") /\ UNCHANGED <<request, files, worker, pid_record>>
  BY DEF CreateDir, workVars, hostVars
<1>3. BeforeWorker(At("create_dir")) /\ Checked(At("create_dir"))
  BY AtStep, StepNames DEF Unchecked
<1>4. worker[r] = "none" /\ InvocationError(request[r]) = "ok"
  BY <1>2, <1>3 DEF IInv, Good, Phase, Permitted
<1>5. CASE owner[Dir(r)] = NoRun
  <2>1. /\ owner' = [owner EXCEPT ![Dir(r)] = r]
        /\ pc' = [pc EXCEPT ![r] = <<"create", "request.json">>]
        /\ UNCHANGED result
    BY <1>5 DEF CreateDir, Goto
  <2>2. /\ <<"create", "request.json">> \in Places
        /\ ~RequestWritten(<<"create", "request.json">>)
        /\ ~InvocationWritten(<<"create", "request.json">>)
        /\ ~AfterWorker(<<"create", "request.json">>)
        /\ <<"create", "request.json">> # At("returned")
    BY AtReceipt, StepNames
  <2>3. /\ pc' \in [Runs -> Places]
        /\ pc'[r] = <<"create", "request.json">>
        /\ \A s \in Runs \ {r} : pc'[s] = pc[s]
    BY <2>1, <2>2, Moved DEF IInv
  <2>4. /\ owner' \in [Dirs -> Runs \cup {NoRun}]
        /\ owner'[Dir(r)'] = r
    BY <1>1, <1>2, <2>1 DEF IInv, HostTyped, Dir
  <2>5. StepOf(r) /\ HostTyped'
    BY <1>2, <1>5, <2>1, <2>3, <2>4 DEF StepOf, IInv, HostTyped
  <2>6. Claimed(r)' /\ Recorded(r)' /\ Phase(r)'
    BY <1>2, <1>4, <2>2, <2>3, <2>4 DEF Claimed, Recorded, Phase
  <2>7. Permitted(r)'
    BY <1>2, <1>4, <2>1 DEF IInv, Good, Permitted
  <2> QED
    BY <2>5, <2>6, <2>7, Kept DEF Good
<1>6. CASE owner[Dir(r)] # NoRun
  <2>1. Return(r, "Io") /\ UNCHANGED owner
    BY <1>6 DEF CreateDir
  <2>2. "Io" \in Results \ {"overflow"}
    BY DEF Results
  <2>3. StepOf(r) /\ HostTyped'
    BY <1>2, <2>1, <2>2, Returned DEF StepOf, IInv, HostTyped
  <2> QED
    BY <1>2, <1>4, <2>1, <2>2, <2>3, ReturnIsGood, Kept
<1> QED
  BY <1>5, <1>6

\* A run at a receipt: what that says of the run.
LEMMA OnReceipt ==
    ASSUME IInv, NEW r \in Runs, NEW k \in {"create", "write"},
           NEW f \in Receipts, pc[r] = <<k, f>>
    PROVE  /\ f \in Created
           /\ owner[Dir(r)] = r
           /\ worker[r] \in {"none", "reaped"}
           /\ f # "adapter.json" => worker[r] = "none"
           /\ f = "adapter.json" => worker[r] = "reaped"
           /\ f # "request.json" => Whole(r, "request.json")
           /\ f \notin {"request.json", "invocation.json"} =>
                 Whole(r, "invocation.json")
           /\ InvocationError(request[r]) = "ok"
<1>1. <<k, f>> \in Places
  BY DEF IInv, HostTyped
<1>2. f # ""
  BY DEF Receipts
<1>3. f \in Created
  BY <1>1, <1>2 DEF Places
<1>4. Claimed(r) /\ Recorded(r) /\ Phase(r) /\ Permitted(r)
  BY DEF IInv, Good
<1>5. owner[Dir(r)] = r /\ InvocationError(request[r]) = "ok"
  BY <1>3, <1>4, AtReceipt DEF Claimed, Permitted
<1>6. /\ f # "adapter.json" => worker[r] = "none"
      /\ f = "adapter.json" => worker[r] = "reaped"
  BY <1>3, <1>4, AtReceipt DEF Phase
<1>7. /\ f # "request.json" => Whole(r, "request.json")
      /\ f \notin {"request.json", "invocation.json"} =>
            Whole(r, "invocation.json")
  BY <1>3, <1>4, AtReceipt DEF Recorded
<1> QED
  BY <1>3, <1>5, <1>6, <1>7

\* A write to the receipt a run is at keeps the receipts before it.
LEMMA RecordsStay ==
    ASSUME IInv, NEW r \in Runs, NEW f \in Receipts, NEW g \in Receipts,
           NEW w \in BOOLEAN, SetFile(r, f, w), request' = request,
           g # f => Whole(r, g),
           g = f => w
    PROVE  Whole(r, g)'
<1>1. Dir(r) \in Dirs /\ Dir(r)' = Dir(r)
  BY DirTyped DEF IInv, Dir
<1>2. /\ files'[Dir(r)][f] = [by |-> r, whole |-> w]
      /\ g # f => files'[Dir(r)][g] = files[Dir(r)][g]
  BY <1>1, Written DEF IInv
<1>3. files'[Dir(r)][g] = [by |-> r, whole |-> TRUE]
  <2>1. CASE g = f
    <3>1. w = TRUE
      BY <2>1
    <3> QED
      BY <1>2, <2>1, <3>1
  <2>2. CASE g # f
    BY <1>2, <2>2 DEF Whole, File
  <2> QED
    BY <2>1, <2>2
<1> QED
  BY <1>1, <1>3 DEF Whole, File

\* Where a run goes when a receipt is complete.
LEMMA Continued ==
    ASSUME HostTyped, NEW r \in Runs, NEW f \in Created, Continue(r, f)
    PROVE  \/ /\ f \in {"spawn-error.json", "adapter.json"}
              /\ \E value \in {"Io", "ok"} : Return(r, value)
           \/ /\ f = "worker.stderr.log"
              /\ Goto(r, At("spawn"))
           \/ /\ f = "request.json"
              /\ Goto(r, <<"create", "invocation.json">>)
           \/ /\ f = "invocation.json"
              /\ Goto(r, <<"create", "worker.stdout.json">>)
           \/ /\ f = "worker.stdout.json"
              /\ Goto(r, <<"create", "worker.stderr.log">>)
<1>1. CASE f = "request.json"
  BY <1>1 DEF Continue
<1>2. CASE f = "invocation.json"
  BY <1>2 DEF Continue
<1>3. CASE f = "worker.stdout.json"
  BY <1>3 DEF Continue
<1>4. CASE f = "worker.stderr.log"
  BY <1>4 DEF Continue
<1>5. CASE f = "spawn-error.json"
  BY <1>5 DEF Continue
<1>6. CASE f = "adapter.json"
  BY <1>6 DEF Continue
<1> QED
  BY <1>1, <1>2, <1>3, <1>4, <1>5, <1>6 DEF Created, Receipts

\* A receipt is complete: the run goes on from there, or returns.
LEMMA CompletedKeeps ==
    ASSUME IInv, NEW r \in Runs, NEW k \in {"create", "write"},
           NEW f \in Receipts, pc[r] = <<k, f>>,
           SetFile(r, f, TRUE), Continue(r, f),
           UNCHANGED <<request, owner, worker, pid_record>>
    PROVE  IInv'
<1>1. /\ f \in Created
      /\ owner[Dir(r)] = r
      /\ worker[r] \in {"none", "reaped"}
      /\ f # "adapter.json" => worker[r] = "none"
      /\ f # "request.json" => Whole(r, "request.json")
      /\ f \notin {"request.json", "invocation.json"} =>
            Whole(r, "invocation.json")
      /\ InvocationError(request[r]) = "ok"
  BY OnReceipt
<1>2. files' \in [Dirs -> [Receipts -> [by : Runs \cup {NoRun}, whole : BOOLEAN]]]
  BY Written DEF IInv
<1>3. /\ Whole(r, "request.json")'
      /\ f # "request.json" => Whole(r, "invocation.json")'
  <2>1. {"request.json", "invocation.json"} \subseteq Receipts
    BY DEF Receipts
  <2>2. Whole(r, "request.json")'
    BY <1>1, <2>1, RecordsStay
  <2>3. f # "request.json" => Whole(r, "invocation.json")'
    BY <1>1, <2>1, RecordsStay
  <2> QED
    BY <2>2, <2>3
<1>4. owner'[Dir(r)'] = r
  BY <1>1 DEF Dir
<1>5. ASSUME NEW place \in Places, pc' = [pc EXCEPT ![r] = place],
             UNCHANGED result,
             worker[r] = "none",
             InvocationWritten(place) => f # "request.json",
             ~AfterWorker(place), place # At("returned")
      PROVE  IInv'
  <2>1. /\ pc' \in [Runs -> Places]
        /\ pc'[r] = place
        /\ \A s \in Runs \ {r} : pc'[s] = pc[s]
    BY <1>5, Moved DEF IInv
  <2>2. StepOf(r) /\ HostTyped'
    BY <1>1, <1>2, <1>5, <2>1 DEF StepOf, IInv, HostTyped
  <2>3. Claimed(r)' /\ Recorded(r)' /\ Phase(r)'
    BY <1>3, <1>4, <1>5, <2>1 DEF Claimed, Recorded, Phase
  <2>4. Permitted(r)'
    BY <1>1, <1>5 DEF IInv, Good, Permitted
  <2> QED
    BY <2>2, <2>3, <2>4, Kept DEF Good
<1>6. CASE /\ f \in {"spawn-error.json", "adapter.json"}
           /\ \E value \in {"Io", "ok"} : Return(r, value)
  <2>1. PICK value \in {"Io", "ok"} : Return(r, value)
    BY <1>6
  <2>2. value \in Results \ {"overflow"}
    BY DEF Results
  <2>3. /\ pc' \in [Runs -> Places]
        /\ pc'[r] = At("returned")
        /\ \A s \in Runs \ {r} : pc'[s] = pc[s] /\ result'[s] = result[s]
        /\ result' \in [Runs -> Results]
        /\ result'[r] = value
    BY <2>1, <2>2, Returned DEF IInv
  <2>4. StepOf(r) /\ HostTyped'
    BY <1>1, <1>2, <2>3 DEF StepOf, IInv, HostTyped
  <2>5. ~Inside(At("returned")) /\ ~BeforeWorker(At("returned"))
        /\ ~AfterWorker(At("returned")) /\ ~Checked(At("returned"))
    BY AtStep, StepNames DEF Outside, Unchecked
  <2>6. f # "request.json"
    BY <1>6
  <2>7. Claimed(r)' /\ Recorded(r)' /\ Phase(r)'
    BY <1>1, <1>3, <1>4, <2>3, <2>5, <2>6 DEF Claimed, Recorded, Phase
  <2>8. Permitted(r)'
    BY <1>1, <2>2, <2>3 DEF IInv, Good, Permitted
  <2> QED
    BY <2>4, <2>7, <2>8, Kept DEF Good
<1>7. CASE f = "worker.stderr.log" /\ Goto(r, At("spawn"))
  <2>1. At("spawn") \in Places /\ ~AfterWorker(At("spawn"))
        /\ At("spawn") # At("returned")
    BY AtStep, StepNames
  <2> QED
    BY <1>1, <1>5, <1>7, <2>1 DEF Goto
<1>8. CASE f = "request.json" /\ Goto(r, <<"create", "invocation.json">>)
  <2>1. "invocation.json" \in Created
    BY DEF Created, Receipts
  <2> QED
    BY <1>1, <1>5, <1>8, <2>1, AtReceipt DEF Goto
<1>9. CASE f = "invocation.json" /\ Goto(r, <<"create", "worker.stdout.json">>)
  <2>1. "worker.stdout.json" \in Created
    BY DEF Created, Receipts
  <2> QED
    BY <1>1, <1>5, <1>9, <2>1, AtReceipt DEF Goto
<1>10. CASE f = "worker.stdout.json" /\ Goto(r, <<"create", "worker.stderr.log">>)
  <2>1. "worker.stderr.log" \in Created
    BY DEF Created, Receipts
  <2> QED
    BY <1>1, <1>5, <1>10, <2>1, AtReceipt DEF Goto
<1> QED
  BY <1>1, <1>6, <1>7, <1>8, <1>9, <1>10, Continued DEF IInv

\* A call about a receipt fails, and the run returns.
LEMMA ReceiptFails ==
    ASSUME IInv, NEW r \in Runs, NEW k \in {"create", "write"},
           NEW f \in Receipts, pc[r] = <<k, f>>,
           NEW value \in {"Io", "Json"}, Return(r, value),
           UNCHANGED <<request, owner, files, worker, pid_record>>
    PROVE  IInv'
<1>1. worker[r] \in {"none", "reaped"}
  BY OnReceipt
<1>2. value \in Results \ {"overflow"}
  BY DEF Results
<1>3. StepOf(r) /\ HostTyped'
  BY <1>2, Returned DEF StepOf, IInv, HostTyped
<1> QED
  BY <1>1, <1>2, <1>3, ReturnIsGood, Kept

LEMMA CreateKeeps ==
    ASSUME IInv, NEW r \in Runs, Create(r)
    PROVE  IInv'
<1>1. PICK f \in Receipts :
         /\ pc[r] = <<"create", f>>
         /\ IF File(Dir(r), f) = NoFile
            THEN /\ SetFile(r, f, f \in Streams)
                 /\ IF f \in Streams
                    THEN Continue(r, f)
                    ELSE Goto(r, <<"write", f>>)
            ELSE Return(r, "Io") /\ UNCHANGED files
  BY DEF Create
<1>2. UNCHANGED <<request, owner, worker, pid_record>>
  BY DEF Create, workVars, hostVars
<1>3. CASE File(Dir(r), f) # NoFile
  BY <1>1, <1>2, <1>3, ReceiptFails
<1>4. CASE File(Dir(r), f) = NoFile /\ f \in Streams
  <2>1. SetFile(r, f, TRUE) /\ Continue(r, f)
    BY <1>1, <1>4
  <2> QED
    BY <1>1, <1>2, <2>1, CompletedKeeps
<1>5. CASE File(Dir(r), f) = NoFile /\ f \notin Streams
  <2>1. /\ SetFile(r, f, FALSE)
        /\ pc' = [pc EXCEPT ![r] = <<"write", f>>]
        /\ UNCHANGED result
    <3>1. (f \in Streams) = FALSE
      BY <1>5
    <3>2. SetFile(r, f, FALSE)
      BY <1>1, <1>5, <3>1 DEF SetFile
    <3>3. Goto(r, <<"write", f>>)
      BY <1>1, <1>5
    <3> QED
      BY <3>2, <3>3 DEF Goto
  <2>2. /\ f \in Created
        /\ owner[Dir(r)] = r
        /\ f # "adapter.json" => worker[r] = "none"
        /\ f = "adapter.json" => worker[r] = "reaped"
        /\ f # "request.json" => Whole(r, "request.json")
        /\ f \notin {"request.json", "invocation.json"} =>
              Whole(r, "invocation.json")
        /\ InvocationError(request[r]) = "ok"
    BY <1>1, OnReceipt
  <2>3. /\ pc' \in [Runs -> Places]
        /\ pc'[r] = <<"write", f>>
        /\ \A s \in Runs \ {r} : pc'[s] = pc[s]
    BY <2>1, <2>2, AtReceipt, Moved DEF IInv
  <2>4. files' \in [Dirs -> [Receipts -> [by : Runs \cup {NoRun},
                                         whole : BOOLEAN]]]
    BY <2>1, Written DEF IInv
  <2>5. StepOf(r) /\ HostTyped'
    BY <1>2, <2>1, <2>2, <2>3, <2>4 DEF StepOf, IInv, HostTyped
  <2>6. {"request.json", "invocation.json"} \subseteq Receipts
    BY DEF Receipts
  <2>7. /\ f # "request.json" => Whole(r, "request.json")'
        /\ f \notin {"request.json", "invocation.json"} =>
              Whole(r, "invocation.json")'
    BY <1>2, <2>1, <2>2, <2>6, RecordsStay
  <2>8. Claimed(r)'
    BY <1>2, <2>2 DEF Claimed, Dir
  <2>9. Recorded(r)'
    <3>1. worker[r] # "none" => f = "adapter.json"
      BY <2>2
    <3>2. owner'[Dir(r)'] = r
      BY <1>2, <2>2 DEF Dir
    <3> QED
      BY <1>2, <2>2, <2>3, <2>7, <3>1, <3>2, AtReceipt DEF Recorded
  <2>10. Phase(r)'
    BY <1>2, <2>2, <2>3, AtReceipt DEF Phase
  <2>11. Permitted(r)'
    BY <1>2, <2>1, <2>2 DEF IInv, Good, Permitted
  <2> QED
    BY <2>5, <2>8, <2>9, <2>10, <2>11, Kept DEF Good
<1> QED
  BY <1>3, <1>4, <1>5

LEMMA WriteKeeps ==
    ASSUME IInv, NEW r \in Runs, Write(r)
    PROVE  IInv'
<1>1. PICK f \in Receipts :
         /\ pc[r] = <<"write", f>>
         /\ SetFile(r, f, TRUE)
         /\ Continue(r, f)
  BY DEF Write
<1>2. UNCHANGED <<request, owner, worker, pid_record>>
  BY DEF Write, workVars, hostVars
<1> QED
  BY <1>1, <1>2, CompletedKeeps

-----------------------------------------------------------------------------
(* The steps from the worker on.                                           *)

Recording == {"spawn", "pid", "wait", "read", "evaluate"}

\* A run at a step from the spawn on: what that says of the run.
LEMMA OnWorker ==
    ASSUME IInv, NEW r \in Runs, NEW s \in Recording, pc[r] = At(s)
    PROVE  /\ owner[Dir(r)] = r
           /\ Whole(r, "request.json")
           /\ Whole(r, "invocation.json")
           /\ InvocationError(request[r]) = "ok"
           /\ s = "spawn" => worker[r] = "none"
           /\ s \in {"read", "evaluate"} => worker[r] = "reaped"
<1>1. s \in Steps \ {"create", "write"}
  BY StepNames DEF Recording
<1>2. /\ Inside(At(s)) /\ Checked(At(s))
      /\ RequestWritten(At(s)) /\ InvocationWritten(At(s))
  BY <1>1, AtStep DEF Recording, Outside, Unchecked
<1>3. /\ s = "spawn" => BeforeWorker(At(s))
      /\ s \in {"read", "evaluate"} => AfterWorker(At(s))
  BY <1>1, AtStep
<1> QED
  BY <1>2, <1>3 DEF IInv, Good, Claimed, Recorded, Phase, Permitted

\* A run that owns its directory and has its records there, at any place its
\* worker allows.
LEMMA GoneOn ==
    ASSUME IInv, NEW r \in Runs, NEW place \in Places,
           pc' = [pc EXCEPT ![r] = place],
           UNCHANGED <<request, owner, result>>,
           files' = files \/ SetFile(r, "runner.pid", TRUE)
                          \/ SetFile(r, "runner.pid", FALSE),
           pid_record' \in [Runs -> BOOLEAN],
           worker' \in [Runs -> {"none", "running", "exited", "reaped"}],
           \A s \in Runs \ {r} : worker'[s] = worker[s],
           owner[Dir(r)] = r,
           Whole(r, "request.json"), Whole(r, "invocation.json"),
           InvocationError(request[r]) = "ok",
           BeforeWorker(place) => worker'[r] = "none",
           AfterWorker(place) => worker'[r] = "reaped",
           place # At("returned")
    PROVE  IInv'
<1>1. /\ pc' \in [Runs -> Places]
      /\ pc'[r] = place
      /\ \A s \in Runs \ {r} : pc'[s] = pc[s]
  BY Moved DEF IInv
<1>2. {"request.json", "invocation.json", "runner.pid"} \subseteq Receipts
  BY DEF Receipts
<1>3. files' \in [Dirs -> [Receipts -> [by : Runs \cup {NoRun}, whole : BOOLEAN]]]
  BY <1>2, Written DEF IInv, HostTyped
<1>4. Whole(r, "request.json")' /\ Whole(r, "invocation.json")'
  <2>1. CASE files' = files
    BY <2>1 DEF Whole, File, Dir
  <2>2. CASE SetFile(r, "runner.pid", TRUE) \/ SetFile(r, "runner.pid", FALSE)
    BY <1>2, <2>2, RecordsStay
  <2> QED
    BY <2>1, <2>2
<1>5. HostTyped'
  BY <1>1, <1>3 DEF IInv, HostTyped
<1>6. StepOf(r)
  BY <1>1, <1>2 DEF StepOf
<1>7. Claimed(r)' /\ Recorded(r)'
  BY <1>4 DEF Claimed, Recorded, Dir
<1>8. Phase(r)' /\ Permitted(r)'
  BY <1>1 DEF IInv, Good, Phase, Permitted
<1> QED
  BY <1>5, <1>6, <1>7, <1>8, Kept DEF Good

\* A run that returns with its worker reaped, or left behind by a failed wait.
LEMMA ReturnKeeps ==
    ASSUME IInv, NEW r \in Runs, NEW value \in {"Io", "Json", "WaitFailed"},
           Return(r, value),
           UNCHANGED <<request, owner, files, pid_record>>,
           \/ worker' = worker /\ worker[r] \in {"none", "reaped"}
           \/ worker' = worker /\ value = "WaitFailed"
    PROVE  IInv'
<1>1. value \in Results \ {"overflow"}
  BY DEF Results
<1>2. StepOf(r) /\ HostTyped'
  BY <1>1, Returned DEF StepOf, IInv, HostTyped
<1> QED
  BY <1>1, <1>2, ReturnIsGood, Kept

LEMMA SpawnKeeps ==
    ASSUME IInv, NEW r \in Runs, Spawn(r)
    PROVE  IInv'
<1>1. pc[r] = At("spawn") /\ UNCHANGED <<request, owner, files, pid_record, result>>
  BY DEF Spawn, Goto, hostVars
<1>2. /\ owner[Dir(r)] = r
      /\ Whole(r, "request.json")
      /\ Whole(r, "invocation.json")
      /\ InvocationError(request[r]) = "ok"
      /\ worker[r] = "none"
  BY <1>1, OnWorker DEF Recording
<1>3. CASE /\ worker' = [worker EXCEPT ![r] = "running"]
           /\ pc' = [pc EXCEPT ![r] = At("pid")]
  <2>1. /\ At("pid") \in Places /\ At("pid") # At("returned")
        /\ ~BeforeWorker(At("pid")) /\ ~AfterWorker(At("pid"))
    BY AtStep, StepNames
  <2>2. /\ worker' \in [Runs -> {"none", "running", "exited", "reaped"}]
        /\ \A s \in Runs \ {r} : worker'[s] = worker[s]
        /\ pid_record' \in [Runs -> BOOLEAN]
    BY <1>1, <1>3 DEF IInv, HostTyped
  <2> QED
    BY <1>1, <1>2, <1>3, <2>1, <2>2, GoneOn
<1>4. CASE /\ worker' = worker
           /\ pc' = [pc EXCEPT ![r] = <<"create", "spawn-error.json">>]
  <2>1. "spawn-error.json" \in Created
    BY DEF Created, Receipts
  <2>2. /\ worker' \in [Runs -> {"none", "running", "exited", "reaped"}]
        /\ pid_record' \in [Runs -> BOOLEAN]
    BY <1>1, <1>4 DEF IInv, HostTyped
  <2>3. /\ <<"create", "spawn-error.json">> \in Places
        /\ <<"create", "spawn-error.json">> # At("returned")
        /\ ~AfterWorker(<<"create", "spawn-error.json">>)
    BY <2>1, AtReceipt
  <2> QED
    BY <1>1, <1>2, <1>4, <2>2, <2>3, GoneOn
<1> QED
  BY <1>3, <1>4 DEF Spawn, Goto

LEMMA RecordPidKeeps ==
    ASSUME IInv, NEW r \in Runs, RecordPid(r)
    PROVE  IInv'
<1>1. /\ pc[r] = At("pid")
      /\ pc' = [pc EXCEPT ![r] = At("wait")]
      /\ UNCHANGED <<request, owner, worker, result>>
  BY DEF RecordPid, Goto, workVars
<1>2. /\ \/ files' = files
         \/ SetFile(r, "runner.pid", TRUE)
         \/ SetFile(r, "runner.pid", FALSE)
      /\ pid_record' \in [Runs -> BOOLEAN]
  BY DEF RecordPid, IInv, HostTyped
<1>3. /\ owner[Dir(r)] = r
      /\ Whole(r, "request.json")
      /\ Whole(r, "invocation.json")
      /\ InvocationError(request[r]) = "ok"
  BY <1>1, OnWorker DEF Recording
<1>4. /\ At("wait") \in Places /\ At("wait") # At("returned")
      /\ ~BeforeWorker(At("wait")) /\ ~AfterWorker(At("wait"))
  BY AtStep, StepNames
<1>5. worker' \in [Runs -> {"none", "running", "exited", "reaped"}]
  BY <1>1 DEF IInv, HostTyped
<1> QED
  BY <1>1, <1>2, <1>3, <1>4, <1>5, GoneOn

LEMMA WaitKeeps ==
    ASSUME IInv, NEW r \in Runs, Wait(r)
    PROVE  IInv'
<1>1. /\ pc[r] = At("wait")
      /\ worker' = [worker EXCEPT ![r] = "reaped"]
      /\ UNCHANGED <<request, owner, files, pid_record>>
  BY DEF Wait, hostVars
<1>2. /\ worker' \in [Runs -> {"none", "running", "exited", "reaped"}]
      /\ worker'[r] = "reaped"
      /\ \A s \in Runs \ {r} : worker'[s] = worker[s]
  BY <1>1 DEF IInv, HostTyped
<1>3. /\ owner[Dir(r)] = r
      /\ Whole(r, "request.json")
      /\ Whole(r, "invocation.json")
      /\ InvocationError(request[r]) = "ok"
  BY <1>1, OnWorker DEF Recording
<1>4. CASE pc' = [pc EXCEPT ![r] = At("read")] /\ UNCHANGED result
  <2>1. /\ At("read") \in Places /\ At("read") # At("returned")
        /\ ~BeforeWorker(At("read"))
    BY AtStep, StepNames
  <2>2. pid_record' \in [Runs -> BOOLEAN]
    BY <1>1 DEF IInv, HostTyped
  <2> QED
    BY <1>1, <1>2, <1>3, <1>4, <2>1, <2>2, GoneOn
<1>5. CASE Return(r, "Io")
  <2>1. "Io" \in Results
    BY DEF Results
  <2>2. /\ pc' \in [Runs -> Places]
        /\ pc'[r] = At("returned")
        /\ \A s \in Runs \ {r} : pc'[s] = pc[s] /\ result'[s] = result[s]
        /\ result' \in [Runs -> Results]
        /\ result'[r] = "Io"
    BY <1>5, <2>1, Returned DEF IInv
  <2>3. StepOf(r) /\ HostTyped'
    BY <1>1, <1>2, <2>2 DEF StepOf, IInv, HostTyped
  <2>4. /\ ~BeforeWorker(At("returned")) /\ ~AfterWorker(At("returned"))
    BY AtStep, StepNames
  <2>5. Claimed(r)' /\ Recorded(r)'
    BY <1>1, <1>3 DEF Claimed, Recorded, Whole, File, Dir
  <2>6. Phase(r)' /\ Permitted(r)'
    BY <1>1, <1>2, <1>3, <2>2, <2>4 DEF Phase, Permitted
  <2> QED
    BY <2>3, <2>5, <2>6, Kept DEF Good
<1> QED
  BY <1>4, <1>5 DEF Wait, Goto

\* Read and Evaluate: what they do to the report is not part of the invariant.
LEMMA VerdictKeeps ==
    ASSUME IInv, NEW r \in Runs, Read(r) \/ Evaluate(r)
    PROVE  IInv'
<1>1. UNCHANGED <<request, owner, files, worker, pid_record, result>>
  BY DEF Read, ReadExcess, Evaluate, Goto, workVars
<1>2. /\ pid_record' \in [Runs -> BOOLEAN]
      /\ worker' \in [Runs -> {"none", "running", "exited", "reaped"}]
  BY <1>1 DEF IInv, HostTyped
<1>3. pc[r] \in {At("read"), At("evaluate")}
  BY DEF Read, ReadExcess, Evaluate
<1>4. /\ owner[Dir(r)] = r
      /\ Whole(r, "request.json")
      /\ Whole(r, "invocation.json")
      /\ InvocationError(request[r]) = "ok"
      /\ worker[r] = "reaped"
  BY <1>3, OnWorker DEF Recording
<1>5. PICK place \in {pc[r], At("evaluate"), <<"create", "adapter.json">>} :
         pc' = [pc EXCEPT ![r] = place]
  <2>1. CASE pc' = pc
    <3>1. pc' = [pc EXCEPT ![r] = pc[r]]
      BY <2>1 DEF IInv, HostTyped
    <3> QED
      BY <3>1
  <2> QED
    BY <2>1 DEF Read, ReadExcess, Evaluate, Goto
<1>6. /\ place \in Places /\ place # At("returned")
      /\ ~BeforeWorker(place)
  <2>1. "adapter.json" \in Created
    BY DEF Created, Receipts
  <2>2. /\ At("read") \in Places /\ At("read") # At("returned")
        /\ At("evaluate") \in Places /\ At("evaluate") # At("returned")
        /\ ~BeforeWorker(At("read")) /\ ~BeforeWorker(At("evaluate"))
    BY AtStep, StepNames
  <2>3. /\ <<"create", "adapter.json">> \in Places
        /\ <<"create", "adapter.json">> # At("returned")
        /\ ~BeforeWorker(<<"create", "adapter.json">>)
    BY <2>1, AtReceipt
  <2> QED
    BY <1>3, <1>5, <2>2, <2>3
<1> QED
  BY <1>1, <1>2, <1>4, <1>5, <1>6, GoneOn

LEMMA FailKeeps ==
    ASSUME IInv, NEW r \in Runs, Fail(r)
    PROVE  IInv'
<1>1. UNCHANGED <<request, owner, files, worker, pid_record>>
  BY DEF Fail, workVars, hostVars
<1>2. CASE pc[r] = At("wait") /\ Return(r, "WaitFailed")
  BY <1>1, <1>2, ReturnKeeps
<1>3. CASE pc[r][1] \in {"create_dir", "create", "write", "read"}
           /\ \E err \in {"Io", "Json"} : Return(r, err)
  <2>1. PICK err \in {"Io", "Json"} : Return(r, err)
    BY <1>3
  <2>2. BeforeWorker(pc[r]) \/ AfterWorker(pc[r])
    BY <1>3 DEF BeforeWorker, AfterWorker
  <2>3. worker[r] \in {"none", "reaped"}
    BY <2>2 DEF IInv, Good, Phase
  <2> QED
    BY <1>1, <2>1, <2>3, ReturnKeeps
<1> QED
  BY <1>2, <1>3 DEF Fail

LEMMA DieKeeps ==
    ASSUME IInv, NEW r \in Runs, Die(r)
    PROVE  IInv'
<1>1. UNCHANGED <<request, owner, files, worker, pid_record, result>>
  BY DEF Die, workVars, hostVars
<1>2. pc' = [pc EXCEPT ![r] = At("died")]
  BY DEF Die
<1>3. /\ At("died") \in Places /\ At("died") # At("returned")
      /\ ~Inside(At("died")) /\ ~Checked(At("died"))
      /\ ~RequestWritten(At("died")) /\ ~InvocationWritten(At("died"))
      /\ ~BeforeWorker(At("died")) /\ ~AfterWorker(At("died"))
  BY AtStep, StepNames DEF Outside, Unchecked
<1>4. /\ pc' \in [Runs -> Places]
      /\ pc'[r] = At("died")
      /\ \A s \in Runs \ {r} : pc'[s] = pc[s]
  BY <1>2, <1>3, Moved DEF IInv
<1>5. StepOf(r) /\ HostTyped'
  BY <1>1, <1>4 DEF StepOf, IInv, HostTyped
<1>6. Claimed(r)'
  BY <1>3, <1>4 DEF Claimed
<1>7. Recorded(r)'
  BY <1>1, <1>3, <1>4 DEF IInv, Good, Recorded, Whole, File, Dir
<1>8. Phase(r)' /\ Permitted(r)'
  BY <1>1, <1>3, <1>4 DEF IInv, Good, Phase, Permitted
<1> QED
  BY <1>5, <1>6, <1>7, <1>8, Kept DEF Good

-----------------------------------------------------------------------------
(* The workers.                                                            *)

LEMMA WorkerKeeps ==
    ASSUME IInv, NEW r \in Runs, WorkerPrints(r) \/ Linger(r) \/ Exit(r)
    PROVE  IInv'
<1>1. UNCHANGED <<pc, request, owner, files, pid_record, result>>
  BY DEF WorkerPrints, Linger, Emit, Exit, hostVars
<1>2. \/ worker' = worker
      \/ worker[r] = "running" /\ worker' = [worker EXCEPT ![r] = "exited"]
  BY DEF WorkerPrints, Linger, Emit, Exit
<1>3. /\ worker' \in [Runs -> {"none", "running", "exited", "reaped"}]
      /\ \A s \in Runs \ {r} : worker'[s] = worker[s]
      /\ \/ worker'[r] = worker[r]
         \/ worker[r] = "running" /\ worker'[r] = "exited"
  <2>1. ASSUME worker' = worker
        PROVE  /\ worker' \in [Runs -> {"none", "running", "exited", "reaped"}]
               /\ \A s \in Runs \ {r} : worker'[s] = worker[s]
               /\ worker'[r] = worker[r]
    BY <2>1 DEF IInv, HostTyped
  <2>2. ASSUME worker[r] = "running", worker' = [worker EXCEPT ![r] = "exited"]
        PROVE  /\ worker' \in [Runs -> {"none", "running", "exited", "reaped"}]
               /\ \A s \in Runs \ {r} : worker'[s] = worker[s]
               /\ worker'[r] = "exited"
    BY <2>2 DEF IInv, HostTyped
  <2> QED
    BY <1>2, <2>1, <2>2
<1>4. StepOf(r) /\ HostTyped'
  BY <1>1, <1>3 DEF StepOf, IInv, HostTyped
<1>5. Claimed(r)'
  BY <1>1 DEF IInv, Good, Claimed, Dir
<1>6. Recorded(r)'
  BY <1>1, <1>3 DEF IInv, Good, Recorded, Whole, File, Dir
<1>7. Phase(r)' /\ Permitted(r)'
  BY <1>1, <1>3 DEF IInv, Good, Phase, Permitted
<1> QED
  BY <1>4, <1>5, <1>6, <1>7, Kept DEF Good

-----------------------------------------------------------------------------
(* The theorems.                                                           *)

LEMMA InitHolds == Init => IInv
<1> SUFFICES ASSUME Init PROVE IInv
  OBVIOUS
<1>1. /\ At("invocation") \in Places
      /\ ~Inside(At("invocation")) /\ ~Checked(At("invocation"))
      /\ ~RequestWritten(At("invocation"))
      /\ ~InvocationWritten(At("invocation"))
      /\ ~AfterWorker(At("invocation"))
      /\ At("invocation") # At("returned")
  BY AtStep, StepNames DEF Outside, Unchecked
<1>2. HostTyped
  BY <1>1 DEF Init, HostTyped, NoFile, Results
<1>3. OwnReceipts
  BY DEF Init, OwnReceipts, File, NoFile
<1>4. ASSUME NEW r \in Runs PROVE Good(r)
  <2>1. pc[r] = At("invocation") /\ worker[r] = "none" /\ result[r] = "none"
    BY DEF Init
  <2> QED
    BY <1>1, <2>1 DEF Good, Claimed, Recorded, Phase, Permitted
<1> QED
  BY <1>2, <1>3, <1>4 DEF IInv

LEMMA NextHolds == IInv /\ [Next]_vars => IInv'
<1> SUFFICES ASSUME IInv, [Next]_vars PROVE IInv'
  OBVIOUS
<1>1. CASE UNCHANGED vars
  BY <1>1 DEF vars, IInv, HostTyped, OwnReceipts, Good, Claimed, Recorded,
              Phase, Permitted, Whole, File, Dir
<1>2. CASE Next
  <2>1. PICK r \in Runs : \/ Step(r) \/ Fail(r) \/ Die(r)
                          \/ WorkerPrints(r) \/ Linger(r) \/ Exit(r)
    BY <1>2 DEF Next
  <2>2. CASE Step(r)
    BY <2>2, InvokeKeeps, CreateDirKeeps, CreateKeeps, WriteKeeps, SpawnKeeps,
       RecordPidKeeps, WaitKeeps, VerdictKeeps DEF Step
  <2> QED
    BY <2>1, <2>2, FailKeeps, DieKeeps, WorkerKeeps
<1> QED
  BY <1>1, <1>2

\* The receipts of a directory are of one run, for any number of runs that are
\* given it, in any order and with any of them dying on the way.
THEOREM ReceiptsOwned == Spec => []OwnReceipts
<1>1. IInv => OwnReceipts
  BY DEF IInv
<1> QED
  BY <1>1, InitHolds, NextHolds, PTL DEF Spec

\* No worker starts before its request and its command are completely on
\* record.
THEOREM StartRecorded == Spec => []RecordedBeforeStart
<1>1. IInv => RecordedBeforeStart
  BY DEF IInv, Good, Recorded, RecordedBeforeStart
<1> QED
  BY <1>1, InitHolds, NextHolds, PTL DEF Spec

\* run does not return while its worker lives, unless wait itself failed.
THEOREM WorkerAwaited == Spec => []NeverDetaches
<1>1. IInv => NeverDetaches
  BY DEF IInv, Good, Phase, NeverDetaches
<1> QED
  BY <1>1, InitHolds, NextHolds, PTL DEF Spec

\* No request overflows the budget check, and a recovery worker that starts
\* has its observation and its cleanup within its total deadline.
THEOREM DeadlineFits == Spec => []WithinDeadline
<1>1. IInv => WithinDeadline
  <2> SUFFICES ASSUME IInv, NEW r \in Runs
               PROVE  /\ result[r] # "overflow"
                      /\ worker[r] # "none" /\ Recovery(request[r]) =>
                            /\ request[r].duration_secs + Grace
                                  < request[r].total_timeout_secs
                            /\ request[r].total_timeout_secs <= MaxSeconds
    BY DEF WithinDeadline
  <2>1. request[r] \in Requests
    BY DEF IInv, HostTyped
  <2> QED
    BY <2>1, BudgetFits DEF IInv, Good, Permitted
<1> QED
  BY <1>1, InitHolds, NextHolds, PTL DEF Spec

-----------------------------------------------------------------------------
(* The record: which receipts are complete at which place.                 *)

Later == {"spawn", "pid", "wait", "read", "evaluate"}

\* The places after which the worker's streams have their files.
StdoutOpen(place) ==
    \/ place[1] \in Later
    \/ /\ place[1] \in {"create", "write"}
       /\ place[2] \in {"worker.stderr.log", "spawn-error.json", "adapter.json"}
StderrOpen(place) ==
    \/ place[1] \in Later
    \/ /\ place[1] \in {"create", "write"}
       /\ place[2] \in {"spawn-error.json", "adapter.json"}

\* Where a run may be whose worker did not start.
Unstarted == {<<"write", "spawn-error.json">>, At("returned"), At("died")}

\* A directory that nobody has is empty, and a run has only what it was given.
Deeded(d) ==
    IF owner[d] = NoRun
    THEN \A f \in Receipts : File(d, f) = NoFile
    ELSE Dir(owner[d]) = d

Complete(r) == \A f \in Receipts \ {"spawn-error.json"} : Whole(r, f)

\* A directory has an error of the start only if its run never had a worker,
\* and a verdict only if that worker was waited for.
OneEnd(r) ==
    owner[Dir(r)] = r =>
        /\ File(Dir(r), "spawn-error.json") # NoFile =>
              worker[r] = "none" /\ pc[r] \in Unstarted
        /\ File(Dir(r), "adapter.json") # NoFile => worker[r] = "reaped"

Filed(r) ==
    /\ StdoutOpen(pc[r]) => Whole(r, "worker.stdout.json")
    /\ StderrOpen(pc[r]) => Whole(r, "worker.stderr.log")
    /\ pid_record[r] => Whole(r, "runner.pid")
    /\ AfterWorker(pc[r]) => pid_record[r]
    /\ result[r] # "none" => pc[r] = At("returned")
    /\ result[r] = "ok" => Complete(r)
    /\ OneEnd(r)

RInv == (\A d \in Dirs : Deeded(d)) /\ \A r \in Runs : Filed(r)

\* A step of r that leaves the pids of the others alone.
OwnStep(r) ==
    StepOf(r) /\ \A s \in Runs \ {r} : pid_record'[s] = pid_record[s]

-----------------------------------------------------------------------------
(* What a step of another run leaves alone.                                *)

\* Who has a complete receipt in its directory has the directory.
LEMMA WholeIsOwned ==
    ASSUME IInv, NEW r \in Runs, NEW f \in Receipts, Whole(r, f)
    PROVE  owner[Dir(r)] = r
BY DirTyped, RunnerAssumption DEF IInv, OwnReceipts, Whole

LEMMA OthersFiled ==
    ASSUME IInv, RInv, NEW r \in Runs, OwnStep(r), NEW s \in Runs, s # r
    PROVE  Filed(s)'
<1>1. Dir(r) \in Dirs /\ Dir(s) \in Dirs /\ Dir(s)' = Dir(s)
  BY DirTyped DEF IInv, OwnStep, StepOf, Dir
<1>2. /\ pc'[s] = pc[s] /\ worker'[s] = worker[s] /\ result'[s] = result[s]
      /\ pid_record'[s] = pid_record[s]
  BY DEF OwnStep, StepOf
<1>3. Filed(s)
  BY DEF RInv
<1>4. ASSUME NEW f \in Receipts, Whole(s, f) PROVE Whole(s, f)'
  <2>1. owner[Dir(s)] = s
    BY <1>4, WholeIsOwned
  <2>2. files'[Dir(s)][f] = files[Dir(s)][f]
    BY <2>1, OwnFilesStay DEF OwnStep
  <2> QED
    BY <1>1, <1>4, <2>2 DEF Whole, File
<1>5. Complete(s) => Complete(s)'
  BY <1>4 DEF Complete
<1>6. {"worker.stdout.json", "worker.stderr.log", "runner.pid",
       "spawn-error.json", "adapter.json"} \subseteq Receipts
  BY DEF Receipts
<1>7. owner'[Dir(s)] = s => owner[Dir(s)] = s
  BY <1>1 DEF OwnStep, StepOf, IInv, HostTyped
<1>8. OneEnd(s)'
  <2>1. CASE owner[Dir(s)] = s
    <3>1. \A f \in Receipts : File(Dir(s), f)' = File(Dir(s), f)
      BY <1>1, <2>1, OwnFilesStay DEF OwnStep, File
    <3>2. OneEnd(s)
      BY <1>3 DEF Filed
    <3>3. /\ File(Dir(s), "spawn-error.json")' # NoFile =>
                worker'[s] = "none" /\ pc'[s] \in Unstarted
          /\ File(Dir(s), "adapter.json")' # NoFile => worker'[s] = "reaped"
      BY <1>2, <1>6, <2>1, <3>1, <3>2 DEF OneEnd
    <3> QED
      BY <3>3 DEF OneEnd, Unstarted, At, NoFile
  <2>2. CASE owner[Dir(s)] # s
    BY <1>1, <1>7, <2>2 DEF OneEnd
  <2> QED
    BY <2>1, <2>2
<1>9. /\ StdoutOpen(pc'[s]) => Whole(s, "worker.stdout.json")'
      /\ StderrOpen(pc'[s]) => Whole(s, "worker.stderr.log")'
      /\ pid_record'[s] => Whole(s, "runner.pid")'
      /\ AfterWorker(pc'[s]) => pid_record'[s]
      /\ result'[s] # "none" => pc'[s] = At("returned")
      /\ result'[s] = "ok" => Complete(s)'
  BY <1>2, <1>3, <1>4, <1>5, <1>6 DEF Filed
<1> QED
  BY <1>8, <1>9 DEF Filed

LEMMA DeedsStay ==
    ASSUME IInv, RInv, NEW r \in Runs, OwnStep(r), NEW d \in Dirs
    PROVE  Deeded(d)'
<1>1. Dir(r) \in Dirs /\ request' = request
  BY DirTyped DEF IInv, OwnStep, StepOf
<1>2. Deeded(d)
  BY DEF RInv
<1>3. CASE UNCHANGED <<owner, files>>
  BY <1>1, <1>2, <1>3 DEF Deeded, File, Dir
<1>4. CASE /\ owner[Dir(r)] = NoRun
           /\ owner' = [owner EXCEPT ![Dir(r)] = r]
           /\ UNCHANGED files
  <2>1. CASE d = Dir(r)
    <3>1. owner'[d] = r /\ r # NoRun
      BY <1>1, <1>4, <2>1, RunnerAssumption DEF IInv, HostTyped
    <3> QED
      BY <1>1, <2>1, <3>1 DEF Deeded, Dir
  <2>2. CASE d # Dir(r)
    <3>1. owner'[d] = owner[d]
      BY <1>4, <2>2 DEF IInv, HostTyped
    <3> QED
      BY <1>1, <1>2, <1>4, <3>1 DEF Deeded, File, Dir
  <2> QED
    BY <2>1, <2>2
<1>5. CASE /\ owner[Dir(r)] = r
           /\ \E f \in Receipts, w \in BOOLEAN : SetFile(r, f, w)
           /\ UNCHANGED owner
  <2>1. CASE owner[d] = NoRun
    <3>1. d # Dir(r)
      BY <1>5, <2>1, RunnerAssumption
    <3>2. \A g \in Receipts : files'[d][g] = files[d][g]
      BY <1>5, <3>1, Written DEF IInv
    <3> QED
      BY <1>2, <1>5, <2>1, <3>2 DEF Deeded, File, NoFile
  <2>2. CASE owner[d] # NoRun
    BY <1>1, <1>2, <1>5, <2>2 DEF Deeded, Dir
  <2> QED
    BY <2>1, <2>2
<1> QED
  BY <1>3, <1>4, <1>5 DEF OwnStep, StepOf

LEMMA RecordKept ==
    ASSUME IInv, RInv, NEW r \in Runs, OwnStep(r), Filed(r)'
    PROVE  RInv'
BY OthersFiled, DeedsStay DEF RInv

\* The other runs' places, workers and results are not of a step of r.
LEMMA IsOwnStep ==
    ASSUME HostTyped, NEW r \in Runs, UNCHANGED <<request, owner, files>>,
           \/ pc' = pc
           \/ \E place : pc' = [pc EXCEPT ![r] = place],
           \/ worker' = worker
           \/ \E w : worker' = [worker EXCEPT ![r] = w],
           \/ result' = result
           \/ \E value : result' = [result EXCEPT ![r] = value],
           pid_record' = pid_record
    PROVE  OwnStep(r)
BY DEF HostTyped, OwnStep, StepOf

-----------------------------------------------------------------------------
(* The steps of a run that write nothing.                                  *)

LEMMA OpenAt ==
    ASSUME NEW s \in Steps \ {"create", "write"}
    PROVE  /\ StdoutOpen(At(s)) <=> s \in Later
           /\ StderrOpen(At(s)) <=> s \in Later
           /\ At(s) \in Unstarted <=> s \in {"returned", "died"}
<1>1. /\ StdoutOpen(At(s)) <=> s \in Later
      /\ StderrOpen(At(s)) <=> s \in Later
  BY DEF StdoutOpen, StderrOpen, At
<1>2. At(s) \in Unstarted <=> s \in {"returned", "died"}
  BY DEF Unstarted, At
<1> QED
  BY <1>1, <1>2

LEMMA OpenAtReceipt ==
    ASSUME NEW k \in {"create", "write"}, NEW f \in Created
    PROVE  /\ StdoutOpen(<<k, f>>) <=>
                 f \in {"worker.stderr.log", "spawn-error.json", "adapter.json"}
           /\ StderrOpen(<<k, f>>) <=> f \in {"spawn-error.json", "adapter.json"}
           /\ <<k, f>> \in Unstarted <=> k = "write" /\ f = "spawn-error.json"
<1>1. /\ StdoutOpen(<<k, f>>) <=>
             f \in {"worker.stderr.log", "spawn-error.json", "adapter.json"}
      /\ StderrOpen(<<k, f>>) <=> f \in {"spawn-error.json", "adapter.json"}
  BY DEF StdoutOpen, StderrOpen, Later
<1>2. <<k, f>> \in Unstarted <=> k = "write" /\ f = "spawn-error.json"
  BY DEF Unstarted, At
<1> QED
  BY <1>1, <1>2

\* A run that moves without writing: the receipts its new place asks for were
\* asked for by the old one.
LEMMA MoveKeeps ==
    ASSUME IInv, RInv, NEW r \in Runs, OwnStep(r),
           UNCHANGED <<owner, files, pid_record>>,
           StdoutOpen(pc'[r]) => StdoutOpen(pc[r]),
           StderrOpen(pc'[r]) => StderrOpen(pc[r]),
           AfterWorker(pc'[r]) => pid_record[r],
           result'[r] # "none" => pc'[r] = At("returned"),
           result'[r] = "ok" => result[r] = "ok",
           worker[r] = "none" /\ pc[r] \in Unstarted =>
              worker'[r] = "none" /\ pc'[r] \in Unstarted,
           worker[r] = "reaped" => worker'[r] = "reaped"
    PROVE  RInv'
<1>1. Dir(r)' = Dir(r)
  BY DEF OwnStep, StepOf, Dir
<1>2. \A f \in Receipts : Whole(r, f) => Whole(r, f)'
  BY <1>1 DEF Whole, File
<1>3. Filed(r)
  BY DEF RInv
<1>4. Complete(r) => Complete(r)'
  BY <1>2 DEF Complete
<1>5. OneEnd(r)'
  BY <1>1, <1>3 DEF Filed, OneEnd, File, NoFile
<1>6. {"worker.stdout.json", "worker.stderr.log", "runner.pid"} \subseteq Receipts
  BY DEF Receipts
<1>7. Filed(r)'
  BY <1>2, <1>3, <1>4, <1>5, <1>6 DEF Filed
<1> QED
  BY <1>7, RecordKept

\* Returning, or dying, asks for nothing.
LEMMA StopKeeps ==
    ASSUME IInv, RInv, NEW r \in Runs,
           UNCHANGED <<request, owner, files, pid_record>>,
           \/ \E value \in Results \ {"ok"} : Return(r, value)
           \/ /\ pc[r] # At("returned")
              /\ pc' = [pc EXCEPT ![r] = At("died")] /\ UNCHANGED result,
           \/ worker' = worker
           \/ worker[r] # "none" /\ worker' = [worker EXCEPT ![r] = "reaped"]
    PROVE  RInv'
<1>1. OwnStep(r)
  BY IsOwnStep DEF IInv, Return
<1>2. /\ pc \in [Runs -> Places] /\ result \in [Runs -> Results]
      /\ worker \in [Runs -> {"none", "running", "exited", "reaped"}]
  BY DEF IInv, HostTyped
<1>3. /\ pc'[r] \in {At("returned"), At("died")}
      /\ result'[r] # "none" => pc'[r] = At("returned")
      /\ result'[r] # "ok"
  <2>1. CASE \E value \in Results \ {"ok"} : Return(r, value)
    BY <1>2, <2>1 DEF Return
  <2>2. CASE /\ pc[r] # At("returned")
             /\ pc' = [pc EXCEPT ![r] = At("died")] /\ UNCHANGED result
    <3>1. result[r] = "none"
      BY <2>2 DEF RInv, Filed
    <3> QED
      BY <1>2, <2>2, <3>1
  <2> QED
    BY <2>1, <2>2
<1>4. /\ ~StdoutOpen(pc'[r]) /\ ~StderrOpen(pc'[r]) /\ ~AfterWorker(pc'[r])
      /\ pc'[r] \in Unstarted
  BY <1>3, AtStep, OpenAt, StepNames DEF Later
<1>5. /\ worker[r] = "none" => worker'[r] = "none"
      /\ worker[r] = "reaped" => worker'[r] = "reaped"
  BY <1>2
<1> QED
  BY <1>1, <1>3, <1>4, <1>5, MoveKeeps

\* A run that goes on to a place that asks for no more than the one it left.
LEMMA GotoKeeps ==
    ASSUME IInv, RInv, NEW r \in Runs, NEW place \in Places, Goto(r, place),
           UNCHANGED <<request, owner, files, pid_record>>,
           pc[r] # At("returned"),
           pc[r] \notin Unstarted,
           StdoutOpen(place) => StdoutOpen(pc[r]),
           StderrOpen(place) => StderrOpen(pc[r]),
           AfterWorker(place) => pid_record[r],
           \/ worker' = worker
           \/ \E w : worker' = [worker EXCEPT ![r] = w] /\ worker[r] # "reaped"
    PROVE  RInv'
<1>1. OwnStep(r)
  BY IsOwnStep DEF IInv, Goto
<1>2. pc'[r] = place /\ result'[r] = "none"
  BY DEF Goto, IInv, HostTyped, RInv, Filed
<1>3. worker[r] = "reaped" => worker'[r] = "reaped"
  OBVIOUS
<1> QED
  BY <1>1, <1>2, <1>3, MoveKeeps

LEMMA InvokeRecords ==
    ASSUME IInv, RInv, NEW r \in Runs, Invoke(r)
    PROVE  RInv'
<1>1. UNCHANGED <<request, owner, files, worker, pid_record>>
  BY DEF Invoke, workVars, hostVars
<1>2. pc[r] = At("invocation")
  BY DEF Invoke
<1>3. CASE Goto(r, At("create_dir"))
  <2>1. /\ At("create_dir") \in Places
        /\ ~StdoutOpen(At("create_dir")) /\ ~StderrOpen(At("create_dir"))
        /\ ~AfterWorker(At("create_dir"))
        /\ At("invocation") # At("returned") /\ At("invocation") \notin Unstarted
    BY AtStep, OpenAt, StepNames DEF Later
  <2> QED
    BY <1>1, <1>2, <1>3, <2>1, GotoKeeps
<1>4. CASE Return(r, InvocationError(request[r]))
           /\ InvocationError(request[r]) # "ok"
  <2>1. InvocationError(request[r]) \in Results \ {"ok"}
    BY <1>4, BudgetFits DEF IInv, HostTyped, Results
  <2> QED
    BY <1>1, <1>4, <2>1, StopKeeps
<1> QED
  BY <1>3, <1>4 DEF Invoke

LEMMA SpawnRecords ==
    ASSUME IInv, RInv, NEW r \in Runs, Spawn(r)
    PROVE  RInv'
<1>1. pc[r] = At("spawn") /\ UNCHANGED <<request, owner, files, pid_record>>
  BY DEF Spawn, hostVars
<1>2. worker[r] = "none"
  BY <1>1, AtStep, StepNames DEF IInv, Good, Phase
<1>3. /\ At("spawn") # At("returned") /\ At("spawn") \notin Unstarted
      /\ StdoutOpen(At("spawn")) /\ StderrOpen(At("spawn"))
  BY AtStep, OpenAt, StepNames DEF Later
<1>4. CASE worker' = [worker EXCEPT ![r] = "running"] /\ Goto(r, At("pid"))
  <2>1. At("pid") \in Places /\ ~AfterWorker(At("pid"))
    BY AtStep, StepNames
  <2> QED
    BY <1>1, <1>2, <1>3, <1>4, <2>1, GotoKeeps
<1>5. CASE Goto(r, <<"create", "spawn-error.json">>) /\ worker' = worker
  <2>1. "spawn-error.json" \in Created
    BY DEF Created, Receipts
  <2>2. /\ <<"create", "spawn-error.json">> \in Places
        /\ ~AfterWorker(<<"create", "spawn-error.json">>)
    BY <2>1, AtReceipt
  <2> QED
    BY <1>1, <1>3, <1>5, <2>2, GotoKeeps
<1> QED
  BY <1>4, <1>5 DEF Spawn

LEMMA WaitRecords ==
    ASSUME IInv, RInv, NEW r \in Runs, Wait(r)
    PROVE  RInv'
<1>1. /\ pc[r] = At("wait") /\ worker[r] = "exited"
      /\ worker' = [worker EXCEPT ![r] = "reaped"]
      /\ UNCHANGED <<request, owner, files, pid_record>>
  BY DEF Wait, hostVars
<1>2. CASE pid_record[r] /\ Goto(r, At("read"))
  <2>1. /\ At("wait") # At("returned") /\ At("wait") \notin Unstarted
        /\ StdoutOpen(At("wait")) /\ StderrOpen(At("wait"))
        /\ At("read") \in Places
    BY AtStep, OpenAt, StepNames DEF Later
  <2> QED
    BY <1>1, <1>2, <2>1, GotoKeeps
<1>3. CASE Return(r, "Io")
  <2>1. "Io" \in Results \ {"ok"}
    BY DEF Results
  <2> QED
    BY <1>1, <1>3, <2>1, StopKeeps
<1> QED
  BY <1>2, <1>3 DEF Wait

LEMMA VerdictRecords ==
    ASSUME IInv, RInv, NEW r \in Runs, Read(r) \/ Evaluate(r)
    PROVE  RInv'
<1>1. UNCHANGED <<request, owner, files, worker, pid_record>>
  BY DEF Read, ReadExcess, Evaluate, workVars
<1>2. pc[r] \in {At("read"), At("evaluate")}
  BY DEF Read, ReadExcess, Evaluate
<1>3. /\ pc[r] # At("returned") /\ pc[r] \notin Unstarted
      /\ StdoutOpen(pc[r]) /\ StderrOpen(pc[r]) /\ AfterWorker(pc[r])
  BY <1>2, AtStep, OpenAt, StepNames DEF Later
<1>4. pid_record[r]
  BY <1>3 DEF RInv, Filed
<1>5. CASE pc' = pc /\ result' = result
  <2>1. pc[r] \in Places /\ pc' = [pc EXCEPT ![r] = pc[r]]
    BY <1>5 DEF IInv, HostTyped
  <2> QED
    BY <1>1, <1>3, <1>4, <1>5, <2>1, GotoKeeps DEF Goto
<1>6. CASE Goto(r, At("evaluate"))
  <2>1. At("evaluate") \in Places
    BY AtStep, StepNames
  <2> QED
    BY <1>1, <1>3, <1>4, <1>6, <2>1, GotoKeeps
<1>7. CASE Goto(r, <<"create", "adapter.json">>)
  <2>1. <<"create", "adapter.json">> \in Places
    BY DEF Places, Created, Receipts
  <2> QED
    BY <1>1, <1>3, <1>4, <1>7, <2>1, GotoKeeps
<1> QED
  BY <1>5, <1>6, <1>7 DEF Read, ReadExcess, Evaluate

LEMMA StopRecords ==
    ASSUME IInv, RInv, NEW r \in Runs, Fail(r) \/ Die(r)
    PROVE  RInv'
<1>1. UNCHANGED <<request, owner, files, worker, pid_record>>
  BY DEF Fail, Die, workVars, hostVars
<1>2. {"Io", "Json", "WaitFailed"} \subseteq Results \ {"ok"}
  BY DEF Results
<1>3. CASE Fail(r)
  <2>1. \E value \in {"Io", "Json", "WaitFailed"} : Return(r, value)
    BY <1>3 DEF Fail
  <2> QED
    BY <1>1, <1>2, <2>1, StopKeeps
<1>4. CASE Die(r)
  BY <1>1, <1>4, StopKeeps DEF Die
<1> QED
  BY <1>3, <1>4

LEMMA WorkerRecords ==
    ASSUME IInv, RInv, NEW r \in Runs, WorkerPrints(r) \/ Linger(r) \/ Exit(r)
    PROVE  RInv'
<1>1. UNCHANGED <<pc, request, owner, files, pid_record, result>>
  BY DEF WorkerPrints, Linger, Emit, Exit, hostVars
<1>2. \/ worker' = worker
      \/ worker[r] = "running" /\ worker' = [worker EXCEPT ![r] = "exited"]
  BY DEF WorkerPrints, Linger, Emit, Exit
<1>3. OwnStep(r)
  BY <1>1, <1>2, IsOwnStep DEF IInv
<1>4. /\ worker[r] = "none" => worker'[r] = "none"
      /\ worker[r] = "reaped" => worker'[r] = "reaped"
  BY <1>2 DEF IInv, HostTyped
<1> QED
  BY <1>1, <1>3, <1>4, MoveKeeps DEF RInv, Filed

-----------------------------------------------------------------------------
(* The steps of a run that write.                                          *)

\* A directory is empty when a run gets it.
LEMMA CreateDirRecords ==
    ASSUME IInv, RInv, NEW r \in Runs, CreateDir(r)
    PROVE  RInv'
<1>1. Dir(r) \in Dirs
  BY DirTyped DEF IInv
<1>2. pc[r] = At("create_dir") /\ UNCHANGED <<request, files, worker, pid_record>>
  BY DEF CreateDir, workVars, hostVars
<1>3. CASE owner[Dir(r)] = NoRun
  <2>1. /\ owner' = [owner EXCEPT ![Dir(r)] = r]
        /\ pc' = [pc EXCEPT ![r] = <<"create", "request.json">>]
        /\ UNCHANGED result
    BY <1>3 DEF CreateDir, Goto
  <2>2. OwnStep(r)
    BY <1>2, <1>3, <2>1 DEF OwnStep, StepOf, IInv, HostTyped
  <2>3. pc'[r] = <<"create", "request.json">>
    BY <2>1 DEF IInv, HostTyped
  <2>4. /\ ~StdoutOpen(pc'[r]) /\ ~StderrOpen(pc'[r]) /\ ~AfterWorker(pc'[r])
    BY <2>3, AtReceipt, OpenAtReceipt, StepNames
  <2>5. Dir(r)' = Dir(r)
    BY <1>2 DEF Dir
  <2>6. \A f \in Receipts : File(Dir(r), f)' = NoFile
    BY <1>1, <1>2, <1>3, <2>5 DEF RInv, Deeded, File
  <2>7. OneEnd(r)'
    <3>1. {"spawn-error.json", "adapter.json"} \subseteq Receipts
      BY DEF Receipts
    <3> QED
      BY <2>5, <2>6, <3>1 DEF OneEnd, NoFile
  <2>8. result'[r] = "none"
    <3>1. pc[r] # At("returned")
      BY <1>2, AtStep, StepNames
    <3> QED
      BY <2>1, <3>1 DEF RInv, Filed
  <2>9. pid_record'[r] => Whole(r, "runner.pid")'
    BY <1>2, <2>5 DEF RInv, Filed, Whole, File
  <2>10. Filed(r)'
    BY <2>4, <2>7, <2>8, <2>9 DEF Filed
  <2> QED
    BY <2>2, <2>10, RecordKept
<1>4. CASE Return(r, "Io") /\ UNCHANGED owner
  <2>1. "Io" \in Results \ {"ok"}
    BY DEF Results
  <2> QED
    BY <1>2, <1>4, <2>1, StopKeeps
<1> QED
  BY <1>3, <1>4 DEF CreateDir

\* A run at a receipt: what its record says so far.
LEMMA AtFile ==
    ASSUME IInv, RInv, NEW r \in Runs, NEW k \in {"create", "write"},
           NEW f \in Receipts, pc[r] = <<k, f>>
    PROVE  /\ result[r] = "none"
           /\ f \in {"worker.stderr.log", "spawn-error.json", "adapter.json"} =>
                 Whole(r, "worker.stdout.json")
           /\ f \in {"spawn-error.json", "adapter.json"} =>
                 Whole(r, "worker.stderr.log")
           /\ f = "adapter.json" => pid_record[r]
           /\ pid_record[r] => Whole(r, "runner.pid")
           /\ File(Dir(r), "spawn-error.json") # NoFile => f = "spawn-error.json"
           /\ File(Dir(r), "adapter.json") # NoFile => worker[r] = "reaped"
<1>1. f \in Created /\ owner[Dir(r)] = r
  BY OnReceipt
<1>2. Filed(r)
  BY DEF RInv
<1>3. result[r] = "none"
  BY <1>1, <1>2, AtReceipt DEF Filed
<1>4. /\ f \in {"worker.stderr.log", "spawn-error.json", "adapter.json"} =>
             Whole(r, "worker.stdout.json")
      /\ f \in {"spawn-error.json", "adapter.json"} =>
             Whole(r, "worker.stderr.log")
      /\ f = "adapter.json" => pid_record[r]
  BY <1>1, <1>2, AtReceipt, OpenAtReceipt DEF Filed
<1>5. OneEnd(r) /\ (pid_record[r] => Whole(r, "runner.pid"))
  BY <1>2 DEF Filed
<1>6. /\ File(Dir(r), "spawn-error.json") # NoFile => f = "spawn-error.json"
      /\ File(Dir(r), "adapter.json") # NoFile => worker[r] = "reaped"
  BY <1>1, <1>5, OpenAtReceipt DEF OneEnd
<1> QED
  BY <1>3, <1>4, <1>5, <1>6

\* A write of a receipt leaves the others of the directory as they are.
LEMMA OtherFiles ==
    ASSUME IInv, NEW r \in Runs, NEW f \in Receipts, NEW w \in BOOLEAN,
           SetFile(r, f, w), request' = request
    PROVE  /\ Dir(r)' = Dir(r)
           /\ \A g \in Receipts \ {f} :
                 /\ File(Dir(r), g)' = File(Dir(r), g)
                 /\ Whole(r, g) => Whole(r, g)'
           /\ w => Whole(r, f)'
<1>1. Dir(r) \in Dirs /\ Dir(r)' = Dir(r)
  BY DirTyped DEF IInv, Dir
<1>2. \A g \in Receipts \ {f} : files'[Dir(r)][g] = files[Dir(r)][g]
  BY <1>1, Written DEF IInv
<1>3. \A g \in Receipts \ {f} : Whole(r, g) => Whole(r, g)'
  BY RecordsStay
<1>4. w => Whole(r, f)'
  BY RecordsStay
<1> QED
  BY <1>1, <1>2, <1>3, <1>4 DEF File

\* A run that is at a receipt and writes to it, wherever it goes from there.
LEMMA ReceiptKeeps ==
    ASSUME IInv, RInv, NEW r \in Runs, NEW k \in {"create", "write"},
           NEW f \in Receipts, pc[r] = <<k, f>>,
           NEW w \in BOOLEAN, SetFile(r, f, w), OwnStep(r),
           UNCHANGED <<request, owner, worker, pid_record>>,
           StdoutOpen(pc'[r]) => Whole(r, "worker.stdout.json")',
           StderrOpen(pc'[r]) => Whole(r, "worker.stderr.log")',
           AfterWorker(pc'[r]) => pid_record[r],
           result'[r] # "none" => pc'[r] = At("returned"),
           result'[r] = "ok" => Complete(r)',
           f = "spawn-error.json" => pc'[r] \in Unstarted
    PROVE  RInv'
<1>1. /\ f \in Created /\ owner[Dir(r)] = r
      /\ f # "adapter.json" => worker[r] = "none"
      /\ f = "adapter.json" => worker[r] = "reaped"
  BY OnReceipt
<1>2. /\ pid_record[r] => Whole(r, "runner.pid")
      /\ File(Dir(r), "spawn-error.json") # NoFile => f = "spawn-error.json"
      /\ File(Dir(r), "adapter.json") # NoFile => worker[r] = "reaped"
  BY AtFile
<1>3. /\ Dir(r)' = Dir(r)
      /\ \A g \in Receipts \ {f} :
            /\ File(Dir(r), g)' = File(Dir(r), g)
            /\ Whole(r, g) => Whole(r, g)'
  BY OtherFiles
<1>4. {"spawn-error.json", "adapter.json", "runner.pid"} \subseteq Receipts
      /\ f # "runner.pid"
  BY <1>1 DEF Receipts, Created
<1>5. pid_record'[r] => Whole(r, "runner.pid")'
  BY <1>2, <1>3, <1>4
<1>6. File(Dir(r), "spawn-error.json")' # NoFile => f = "spawn-error.json"
  BY <1>2, <1>3, <1>4
<1>7. File(Dir(r), "adapter.json")' # NoFile => worker[r] = "reaped"
  BY <1>1, <1>2, <1>3, <1>4
<1>8. OneEnd(r)'
  BY <1>1, <1>3, <1>6, <1>7 DEF OneEnd, NoFile
<1>9. Filed(r)'
  BY <1>5, <1>8 DEF Filed
<1> QED
  BY <1>9, RecordKept

\* A receipt is complete: the next one is asked for, or all of them are there.
LEMMA CompletedRecords ==
    ASSUME IInv, RInv, NEW r \in Runs, NEW k \in {"create", "write"},
           NEW f \in Receipts, pc[r] = <<k, f>>,
           SetFile(r, f, TRUE), Continue(r, f),
           UNCHANGED <<request, owner, worker, pid_record>>
    PROVE  RInv'
<1>1. /\ f \in Created /\ owner[Dir(r)] = r
      /\ f # "request.json" => Whole(r, "request.json")
      /\ f \notin {"request.json", "invocation.json"} =>
            Whole(r, "invocation.json")
  BY OnReceipt
<1>2. /\ result[r] = "none"
      /\ f \in {"worker.stderr.log", "spawn-error.json", "adapter.json"} =>
            Whole(r, "worker.stdout.json")
      /\ f \in {"spawn-error.json", "adapter.json"} =>
            Whole(r, "worker.stderr.log")
      /\ f = "adapter.json" => pid_record[r]
      /\ pid_record[r] => Whole(r, "runner.pid")
  BY AtFile
<1>3. /\ \A g \in Receipts \ {f} : Whole(r, g) => Whole(r, g)'
      /\ Whole(r, f)'
  BY OtherFiles
<1>4. {"request.json", "invocation.json", "worker.stdout.json",
       "worker.stderr.log", "spawn-error.json", "adapter.json",
       "runner.pid"} = Receipts
  BY StepNames
<1>5. ASSUME \/ \E place : pc' = [pc EXCEPT ![r] = place],
             \/ result' = result
             \/ \E value : result' = [result EXCEPT ![r] = value]
      PROVE  OwnStep(r)
  BY <1>1, <1>5 DEF OwnStep, StepOf, IInv, HostTyped
<1>6. ASSUME NEW place \in Places, Goto(r, place),
             StdoutOpen(place) => Whole(r, "worker.stdout.json")',
             StderrOpen(place) => Whole(r, "worker.stderr.log")',
             ~AfterWorker(place), f # "spawn-error.json"
      PROVE  RInv'
  <2>1. pc'[r] = place /\ result'[r] = "none" /\ OwnStep(r)
    BY <1>2, <1>5, <1>6 DEF Goto, IInv, HostTyped
  <2> QED
    BY <1>6, <2>1, ReceiptKeeps
<1>7. CASE f = "request.json" /\ Goto(r, <<"create", "invocation.json">>)
  <2>1. "invocation.json" \in Created
    BY DEF Created, Receipts
  <2> QED
    BY <1>6, <1>7, <2>1, AtReceipt, OpenAtReceipt
<1>8. CASE f = "invocation.json" /\ Goto(r, <<"create", "worker.stdout.json">>)
  <2>1. "worker.stdout.json" \in Created
    BY DEF Created, Receipts
  <2> QED
    BY <1>6, <1>8, <2>1, AtReceipt, OpenAtReceipt
<1>9. CASE f = "worker.stdout.json" /\ Goto(r, <<"create", "worker.stderr.log">>)
  <2>1. "worker.stderr.log" \in Created
    BY DEF Created, Receipts
  <2> QED
    BY <1>3, <1>6, <1>9, <2>1, AtReceipt, OpenAtReceipt
<1>10. CASE f = "worker.stderr.log" /\ Goto(r, At("spawn"))
  <2>1. At("spawn") \in Places /\ ~AfterWorker(At("spawn"))
    BY AtStep, StepNames
  <2>2. Whole(r, "worker.stdout.json")'
    BY <1>2, <1>3, <1>4, <1>10
  <2> QED
    BY <1>3, <1>6, <1>10, <2>1, <2>2
<1>11. CASE f \in {"spawn-error.json", "adapter.json"}
            /\ \E value : Return(r, value)
  <2>1. PICK value : Return(r, value)
    BY <1>11
  <2>2. pc'[r] = At("returned") /\ OwnStep(r)
    BY <1>5, <2>1 DEF Return, IInv, HostTyped
  <2>3. /\ ~StdoutOpen(pc'[r]) /\ ~StderrOpen(pc'[r]) /\ ~AfterWorker(pc'[r])
        /\ pc'[r] \in Unstarted
    BY <2>2, AtStep, OpenAt, StepNames DEF Later
  <2>4. f = "adapter.json" => Complete(r)'
    BY <1>1, <1>2, <1>3, <1>4 DEF Complete
  <2>5. f = "spawn-error.json" => result'[r] # "ok"
    <3> SUFFICES ASSUME f = "spawn-error.json" PROVE result'[r] # "ok"
      OBVIOUS
    <3>1. Return(r, "Io")
      BY DEF Continue
    <3> QED
      BY <3>1 DEF Return, IInv, HostTyped
  <2> QED
    BY <1>11, <2>2, <2>3, <2>4, <2>5, ReceiptKeeps
<1> QED
  BY <1>1, <1>7, <1>8, <1>9, <1>10, <1>11, Continued DEF IInv

LEMMA CreateRecords ==
    ASSUME IInv, RInv, NEW r \in Runs, Create(r)
    PROVE  RInv'
<1>1. PICK f \in Receipts :
         /\ pc[r] = <<"create", f>>
         /\ IF File(Dir(r), f) = NoFile
            THEN /\ SetFile(r, f, f \in Streams)
                 /\ IF f \in Streams
                    THEN Continue(r, f)
                    ELSE Goto(r, <<"write", f>>)
            ELSE Return(r, "Io") /\ UNCHANGED files
  BY DEF Create
<1>2. UNCHANGED <<request, owner, worker, pid_record>>
  BY DEF Create, workVars, hostVars
<1>3. CASE File(Dir(r), f) # NoFile
  <2>1. "Io" \in Results \ {"ok"}
    BY DEF Results
  <2> QED
    BY <1>1, <1>2, <1>3, <2>1, StopKeeps
<1>4. CASE File(Dir(r), f) = NoFile /\ f \in Streams
  <2>1. SetFile(r, f, TRUE) /\ Continue(r, f)
    BY <1>1, <1>4
  <2> QED
    BY <1>1, <1>2, <2>1, CompletedRecords
<1>5. CASE File(Dir(r), f) = NoFile /\ f \notin Streams
  <2>1. /\ SetFile(r, f, FALSE)
        /\ Goto(r, <<"write", f>>)
    <3>1. (f \in Streams) = FALSE
      BY <1>5
    <3>2. SetFile(r, f, FALSE)
      BY <1>1, <1>5, <3>1 DEF SetFile
    <3>3. Goto(r, <<"write", f>>)
      BY <1>1, <1>5
    <3> QED
      BY <3>2, <3>3
  <2>2. f \in Created /\ owner[Dir(r)] = r
    BY <1>1, OnReceipt
  <2>3. /\ result[r] = "none"
        /\ f \in {"spawn-error.json", "adapter.json"} =>
              Whole(r, "worker.stdout.json") /\ Whole(r, "worker.stderr.log")
        /\ f = "adapter.json" => pid_record[r]
    BY <1>1, AtFile
  <2>4. OwnStep(r) /\ pc'[r] = <<"write", f>> /\ result'[r] = "none"
    <3>1. \A s \in Runs \ {r} : pc'[s] = pc[s]
      BY <2>1 DEF Goto, IInv, HostTyped
    <3>2. pc'[r] = <<"write", f>> /\ result' = result
      BY <2>1 DEF Goto, IInv, HostTyped
    <3> QED
      BY <1>2, <2>1, <2>2, <2>3, <3>1, <3>2 DEF OwnStep, StepOf
  <2>5. /\ StdoutOpen(pc'[r]) => f \in {"spawn-error.json", "adapter.json"}
        /\ StderrOpen(pc'[r]) => f \in {"spawn-error.json", "adapter.json"}
        /\ AfterWorker(pc'[r]) => f = "adapter.json"
        /\ f = "spawn-error.json" => pc'[r] \in Unstarted
    BY <1>5, <2>2, <2>4, AtReceipt, OpenAtReceipt DEF Streams
  <2>6. f \in {"spawn-error.json", "adapter.json"} =>
           Whole(r, "worker.stdout.json")' /\ Whole(r, "worker.stderr.log")'
    <3>1. {"worker.stdout.json", "worker.stderr.log"} \subseteq Receipts \ {f}
      BY <1>5 DEF Streams, Receipts
    <3> QED
      BY <1>2, <2>1, <2>3, <3>1, OtherFiles
  <2> QED
    BY <1>1, <1>2, <2>1, <2>3, <2>4, <2>5, <2>6, ReceiptKeeps
<1> QED
  BY <1>3, <1>4, <1>5

LEMMA WriteRecords ==
    ASSUME IInv, RInv, NEW r \in Runs, Write(r)
    PROVE  RInv'
BY CompletedRecords DEF Write, workVars, hostVars

\* runner.pid, whichever way its write ends.
LEMMA RecordPidRecords ==
    ASSUME IInv, RInv, NEW r \in Runs, RecordPid(r)
    PROVE  RInv'
<1>1. /\ pc[r] = At("pid") /\ Goto(r, At("wait"))
      /\ UNCHANGED <<request, owner, worker>>
  BY DEF RecordPid, workVars
<1>2. PICK ok \in BOOLEAN :
         /\ ok => SetFile(r, "runner.pid", TRUE)
         /\ ~ok => \/ SetFile(r, "runner.pid", FALSE)
                   \/ UNCHANGED files
         /\ pid_record' = [pid_record EXCEPT ![r] = ok]
  BY DEF RecordPid
<1>3. /\ pid_record'[r] = ok
      /\ \A s \in Runs \ {r} : pid_record'[s] = pid_record[s]
  BY <1>2 DEF IInv, HostTyped
<1>4. "runner.pid" \in Receipts
      /\ {"worker.stdout.json", "worker.stderr.log", "spawn-error.json",
          "adapter.json"} \subseteq Receipts \ {"runner.pid"}
  BY DEF Receipts
<1>5. pc'[r] = At("wait") /\ result'[r] = result[r]
      /\ \A s \in Runs \ {r} : pc'[s] = pc[s] /\ result'[s] = result[s]
  BY <1>1 DEF Goto, IInv, HostTyped
<1>6. owner[Dir(r)] = r /\ At("pid") # At("returned") /\ At("pid") \notin Unstarted
      /\ StdoutOpen(At("pid")) /\ StderrOpen(At("pid"))
      /\ ~AfterWorker(At("wait"))
  BY <1>1, AtStep, OpenAt, StepNames DEF IInv, Good, Claimed, Outside, Later
<1>7. OwnStep(r)
  BY <1>1, <1>2, <1>3, <1>4, <1>5, <1>6 DEF OwnStep, StepOf
<1>8. /\ Dir(r)' = Dir(r)
      /\ \A g \in Receipts \ {"runner.pid"} :
            /\ File(Dir(r), g)' = File(Dir(r), g)
            /\ Whole(r, g) => Whole(r, g)'
      /\ ok => Whole(r, "runner.pid")'
  <2>1. CASE UNCHANGED files /\ ~ok
    BY <1>1, <2>1 DEF File, Whole, Dir
  <2>2. CASE SetFile(r, "runner.pid", FALSE) /\ ~ok
    BY <1>1, <1>4, <2>2, OtherFiles
  <2>3. CASE SetFile(r, "runner.pid", TRUE)
    BY <1>1, <1>4, <2>3, OtherFiles
  <2> QED
    BY <1>2, <2>1, <2>2, <2>3
<1>9. Filed(r)
  BY DEF RInv
<1>10. result[r] = "none"
  BY <1>1, <1>6, <1>9 DEF Filed
<1>11. OneEnd(r)'
  <2>1. /\ File(Dir(r), "spawn-error.json") = NoFile
        /\ File(Dir(r), "adapter.json") # NoFile => worker[r] = "reaped"
    BY <1>1, <1>6, <1>9 DEF Filed, OneEnd
  <2>2. /\ File(Dir(r), "spawn-error.json")' = NoFile
        /\ File(Dir(r), "adapter.json")' # NoFile => worker[r] = "reaped"
    BY <1>4, <1>8, <2>1
  <2> QED
    BY <1>1, <2>2 DEF OneEnd, NoFile
<1>12. /\ Whole(r, "worker.stdout.json")'
       /\ Whole(r, "worker.stderr.log")'
  BY <1>1, <1>4, <1>6, <1>8, <1>9 DEF Filed
<1>13. Filed(r)'
  BY <1>3, <1>5, <1>6, <1>8, <1>10, <1>11, <1>12 DEF Filed
<1> QED
  BY <1>7, <1>13, RecordKept

-----------------------------------------------------------------------------
(* The record, for good.                                                   *)

LEMMA RecordInitHolds == Init => RInv
<1> SUFFICES ASSUME Init PROVE RInv
  OBVIOUS
<1>1. /\ ~StdoutOpen(At("invocation")) /\ ~StderrOpen(At("invocation"))
      /\ ~AfterWorker(At("invocation"))
  BY AtStep, OpenAt, StepNames DEF Later
<1>2. ASSUME NEW d \in Dirs PROVE Deeded(d)
  BY DEF Init, Deeded, File
<1>3. ASSUME NEW r \in Runs PROVE Filed(r)
  <2>1. pc[r] = At("invocation") /\ result[r] = "none" /\ ~pid_record[r]
    BY DEF Init
  <2>2. Dir(r) \in Dirs
    BY DirTyped, InitHolds DEF IInv
  <2>3. owner[Dir(r)] # r
    BY <2>2, RunnerAssumption DEF Init
  <2> QED
    BY <1>1, <2>1, <2>3 DEF Filed, OneEnd
<1> QED
  BY <1>2, <1>3 DEF RInv

LEMMA RecordNextHolds == IInv /\ RInv /\ [Next]_vars => RInv'
<1> SUFFICES ASSUME IInv, RInv, [Next]_vars PROVE RInv'
  OBVIOUS
<1>1. CASE UNCHANGED vars
  BY <1>1 DEF vars, RInv, Deeded, Filed, OneEnd, Complete, Whole, File, Dir
<1>2. CASE Next
  <2>1. PICK r \in Runs : \/ Step(r) \/ Fail(r) \/ Die(r)
                          \/ WorkerPrints(r) \/ Linger(r) \/ Exit(r)
    BY <1>2 DEF Next
  <2>2. CASE Step(r)
    BY <2>2, InvokeRecords, CreateDirRecords, CreateRecords, WriteRecords,
       SpawnRecords, RecordPidRecords, WaitRecords, VerdictRecords DEF Step
  <2> QED
    BY <2>1, <2>2, StopRecords, WorkerRecords
<1> QED
  BY <1>1, <1>2

\* A returned outcome is completely on record, and no directory holds both a
\* verdict and an error of the start, whoever else was given the directory.
THEOREM OutcomeRecorded == Spec => []OutcomeOnRecord
<1>1. IInv /\ RInv => OutcomeOnRecord
  <2> SUFFICES ASSUME IInv, RInv, NEW r \in Runs
               PROVE  /\ result[r] = "ok" => Complete(r)
                      /\ File(Dir(r), "spawn-error.json") # NoFile =>
                            File(Dir(r), "adapter.json") = NoFile
    BY DEF OutcomeOnRecord, Complete
  <2>1. result[r] = "ok" => Complete(r)
    BY DEF RInv, Filed
  <2>2. ASSUME File(Dir(r), "spawn-error.json") # NoFile
        PROVE  File(Dir(r), "adapter.json") = NoFile
    <3> DEFINE o == owner[Dir(r)]
    <3>1. Dir(r) \in Dirs /\ {"spawn-error.json", "adapter.json"} \subseteq Receipts
      BY DirTyped DEF IInv, Receipts
    <3>2. o # NoRun
      BY <2>2, <3>1 DEF RInv, Deeded
    <3>3. o \in Runs /\ Dir(o) = Dir(r)
      BY <3>1, <3>2 DEF IInv, HostTyped, RInv, Deeded
    <3>4. OneEnd(o) /\ owner[Dir(o)] = o
      BY <3>3 DEF RInv, Filed
    <3>5. worker[o] = "none"
      BY <2>2, <3>3, <3>4 DEF OneEnd
    <3> QED
      BY <3>3, <3>4, <3>5 DEF OneEnd
  <2> QED
    BY <2>1, <2>2
<1> QED
  BY <1>1, InitHolds, NextHolds, RecordInitHolds, RecordNextHolds, PTL DEF Spec

-----------------------------------------------------------------------------
(* The verdict: invariants of the report and of what was read of it.       *)

Units == 0..DocSize

ReportTyped ==
    /\ report \in [Dirs -> Seq(Units)]
    /\ status \in [Runs -> Exits \cup {"none"}]
    /\ bytes \in [Runs -> Seq(Units)]
    /\ hashed \in [Runs -> Seq(Units)]
    /\ outcome \in [Runs -> [exit : Exits \cup {"none"}, parsed : BOOLEAN,
                             verified : BOOLEAN, hash : Seq(Units)]]

\* What was read is a prefix of the report, kept up to a unit over the limit.
Retained(r) ==
    /\ IsPrefix(hashed[r], report[Dir(r)])
    /\ bytes[r] = Take(hashed[r], Limit(r) + 1)

Judged(r) ==
    outcome[r] # NoOutcome =>
        /\ worker[r] = "reaped"
        /\ outcome[r].exit = status[r]
        /\ IsPrefix(outcome[r].hash, report[Dir(r)])
        /\ outcome[r].parsed =>
              outcome[r].hash = Document /\ DocSize <= Limit(r)
        /\ outcome[r].verified => outcome[r].parsed /\ status[r] = "0"

VInv == ReportTyped /\ \A r \in Runs : Retained(r) /\ Judged(r)

-----------------------------------------------------------------------------
(* Reading a sequence that grows.                                          *)

LEMMA PrefixPointwise ==
    ASSUME NEW S, NEW s \in Seq(S), NEW t \in Seq(S)
    PROVE  IsPrefix(s, t) <=>
              Len(s) <= Len(t) /\ \A i \in 1..Len(s) : s[i] = t[i]
<1>1. /\ SubSeq(s, 1, Len(s)) \in Seq(S)
      /\ Len(SubSeq(s, 1, Len(s))) = Len(s)
      /\ \A i \in 1..Len(s) : SubSeq(s, 1, Len(s))[i] = s[i]
  <2>1. SubSeq(s, 1, Len(s)) = s
    BY SubSeqFull
  <2> QED
    BY <2>1
<1>2. ASSUME Len(s) <= Len(t)
      PROVE  /\ SubSeq(t, 1, Len(s)) \in Seq(S)
             /\ Len(SubSeq(t, 1, Len(s))) = Len(s)
             /\ \A i \in 1..Len(s) : SubSeq(t, 1, Len(s))[i] = t[i]
  <2>1. Len(s) \in Nat /\ Len(t) \in Nat
    BY LenProperties
  <2>2. \A i \in 1..Len(s) : t[i] \in S
    BY <1>2, <2>1, ElementOfSeq
  <2>3. /\ SubSeq(t, 1, Len(s)) \in Seq(S)
        /\ Len(SubSeq(t, 1, Len(s))) = IF 1 <= Len(s) THEN Len(s) - 1 + 1 ELSE 0
        /\ \A i \in 1..(Len(s) - 1 + 1) : SubSeq(t, 1, Len(s))[i] = t[1 + i - 1]
    BY <2>1, <2>2, SubSeqProperties
  <2> QED
    BY <2>1, <2>3
<1>3. ASSUME Len(s) <= Len(t), \A i \in 1..Len(s) : s[i] = t[i]
      PROVE  SubSeq(s, 1, Len(s)) = SubSeq(t, 1, Len(s))
  BY <1>1, <1>2, <1>3, SeqEqual
<1>4. ASSUME Len(s) <= Len(t), SubSeq(s, 1, Len(s)) = SubSeq(t, 1, Len(s)),
             NEW i \in 1..Len(s)
      PROVE  s[i] = t[i]
  BY <1>1, <1>2, <1>4
<1> QED
  BY <1>3, <1>4 DEF IsPrefix

LEMMA PrefixGrows ==
    ASSUME NEW S, NEW s \in Seq(S), NEW t \in Seq(S), NEW e \in S,
           IsPrefix(s, t)
    PROVE  IsPrefix(s, Append(t, e))
<1>1. Len(s) <= Len(t) /\ \A i \in 1..Len(s) : s[i] = t[i]
  BY PrefixPointwise
<1>2. /\ Append(t, e) \in Seq(S)
      /\ Len(Append(t, e)) = Len(t) + 1
      /\ \A i \in 1..Len(t) : Append(t, e)[i] = t[i]
  BY AppendProperties
<1>3. Len(s) \in Nat /\ Len(t) \in Nat
  BY LenProperties
<1>4. Len(s) <= Len(Append(t, e)) /\ \A i \in 1..Len(s) : s[i] = Append(t, e)[i]
  BY <1>1, <1>2, <1>3
<1> QED
  BY <1>2, <1>4, PrefixPointwise

LEMMA TakeProperties ==
    ASSUME NEW S, NEW s \in Seq(S), NEW n \in Nat
    PROVE  /\ Take(s, n) \in Seq(S)
           /\ Len(Take(s, n)) = IF n < Len(s) THEN n ELSE Len(s)
           /\ \A i \in 1..Len(Take(s, n)) : Take(s, n)[i] = s[i]
           /\ Len(Take(s, n)) < n => Take(s, n) = s
<1> DEFINE m == IF n < Len(s) THEN n ELSE Len(s)
<1>1. Len(s) \in Nat
  BY LenProperties
<1>2. m \in Nat /\ m <= Len(s) /\ m <= n
  BY <1>1
<1>3. Take(s, n) = SubSeq(s, 1, m)
  BY DEF Take
<1> HIDE DEF m
<1>4. \A i \in 1..m : s[i] \in S
  BY <1>1, <1>2, ElementOfSeq
<1>5. /\ SubSeq(s, 1, m) \in Seq(S)
      /\ Len(SubSeq(s, 1, m)) = IF 1 <= m THEN m - 1 + 1 ELSE 0
      /\ \A i \in 1..(m - 1 + 1) : SubSeq(s, 1, m)[i] = s[1 + i - 1]
  BY <1>2, <1>4, SubSeqProperties
<1>6. /\ Len(SubSeq(s, 1, m)) = m
      /\ \A i \in 1..m : SubSeq(s, 1, m)[i] = s[i]
  BY <1>2, <1>5
<1>7. m < n => m = Len(s)
  BY <1>1 DEF m
<1>8. m = Len(s) => SubSeq(s, 1, m) = s
  BY SubSeqFull
<1> QED
  BY <1>3, <1>5, <1>6, <1>7, <1>8 DEF m

\* Keeping n of what is read chunk by chunk keeps the first n of it all.
LEMMA TakeOn ==
    ASSUME NEW S, NEW s \in Seq(S), NEW c \in Seq(S), NEW n \in Nat
    PROVE  Take(s, n) \o Take(c, n - Len(Take(s, n))) = Take(s \o c, n)
<1> DEFINE k == Take(s, n)
           l == Take(c, n - Len(k))
           a == Take(s \o c, n)
<1>1. Len(s) \in Nat /\ Len(c) \in Nat
  BY LenProperties
<1>2. /\ k \in Seq(S)
      /\ Len(k) = IF n < Len(s) THEN n ELSE Len(s)
      /\ \A i \in 1..Len(k) : k[i] = s[i]
  BY TakeProperties
<1>3. n - Len(k) \in Nat
  BY <1>1, <1>2
<1>4. /\ l \in Seq(S)
      /\ Len(l) = IF n - Len(k) < Len(c) THEN n - Len(k) ELSE Len(c)
      /\ \A i \in 1..Len(l) : l[i] = c[i]
  <2> HIDE DEF k
  <2> QED
    BY <1>3, TakeProperties
<1>5. /\ s \o c \in Seq(S)
      /\ Len(s \o c) = Len(s) + Len(c)
      /\ \A i \in 1..(Len(s) + Len(c)) :
            (s \o c)[i] = IF i <= Len(s) THEN s[i] ELSE c[i - Len(s)]
  BY ConcatProperties
<1>6. /\ a \in Seq(S)
      /\ Len(a) = IF n < Len(s \o c) THEN n ELSE Len(s \o c)
      /\ \A i \in 1..Len(a) : a[i] = (s \o c)[i]
  BY <1>5, TakeProperties
<1> HIDE DEF k, l, a
<1>7. /\ k \o l \in Seq(S)
      /\ Len(k \o l) = Len(k) + Len(l)
      /\ \A i \in 1..(Len(k) + Len(l)) :
            (k \o l)[i] = IF i <= Len(k) THEN k[i] ELSE l[i - Len(k)]
  <2>1. k \in Seq(S) /\ l \in Seq(S)
    BY <1>2, <1>4
  <2> QED
    BY ONLY <2>1, ConcatProperties
<1>8. Len(k) \in Nat /\ Len(l) \in Nat /\ Len(a) \in Nat
  BY <1>2, <1>4, <1>6, LenProperties
<1>9. Len(k \o l) = Len(a)
  <2>1. CASE n < Len(s)
    BY <1>1, <1>2, <1>4, <1>5, <1>6, <1>7, <2>1
  <2>2. CASE ~(n < Len(s))
    BY <1>1, <1>2, <1>4, <1>5, <1>6, <1>7, <2>2
  <2> QED
    BY <2>1, <2>2
<1>10. ASSUME NEW i \in 1..Len(a) PROVE (k \o l)[i] = a[i]
  <2>1. i <= Len(k) + Len(l)
    BY <1>7, <1>8, <1>9
  <2>2. CASE i <= Len(k)
    <3>1. i <= Len(s) /\ i <= Len(s) + Len(c)
      BY <1>1, <1>2, <1>8, <2>2
    <3>2. (s \o c)[i] = s[i]
      BY <1>5, <1>8, <3>1
    <3>3. (k \o l)[i] = k[i] /\ k[i] = s[i]
      BY <1>2, <1>7, <1>8, <2>1, <2>2
    <3> QED
      BY <1>6, <3>2, <3>3
  <2>3. CASE i > Len(k)
    <3>1. i <= n /\ i <= Len(s) + Len(c)
      BY <1>1, <1>5, <1>6, <1>8
    <3>2. Len(k) = Len(s)
      BY <1>1, <1>2, <2>3, <3>1
    <3>3. (s \o c)[i] = c[i - Len(s)]
      BY <1>1, <1>5, <1>8, <2>3, <3>1, <3>2
    <3>4. (k \o l)[i] = l[i - Len(k)]
      BY <1>7, <1>8, <2>1, <2>3
    <3>5. i - Len(k) \in 1..Len(l)
      BY <1>8, <2>1, <2>3
    <3> QED
      BY <1>4, <1>6, <3>2, <3>3, <3>4, <3>5
  <2>4. i <= Len(k) \/ i > Len(k)
    BY <1>8
  <2> QED
    BY <2>2, <2>3, <2>4
<1>11. k \o l = a
  BY <1>6, <1>7, <1>9, <1>10, SeqEqual
<1> QED
  BY <1>11 DEF k, l, a

\* A chunk of what is left to read continues the prefix that was read.
LEMMA PrefixReadOn ==
    ASSUME NEW S, NEW s \in Seq(S), NEW t \in Seq(S), IsPrefix(s, t),
           NEW n \in 1..Len(SubSeq(t, Len(s) + 1, Len(t)))
    PROVE  LET chunk == SubSeq(SubSeq(t, Len(s) + 1, Len(t)), 1, n)
           IN  chunk \in Seq(S) /\ IsPrefix(s \o chunk, t)
<1> DEFINE u == SubSeq(t, Len(s) + 1, Len(t))
           c == SubSeq(u, 1, n)
<1>1. Len(s) \in Nat /\ Len(t) \in Nat
  BY LenProperties
<1>2. Len(s) <= Len(t) /\ \A i \in 1..Len(s) : s[i] = t[i]
  BY PrefixPointwise
<1>3. \A i \in (Len(s) + 1)..Len(t) : t[i] \in S
  BY <1>1, ElementOfSeq
<1>4. /\ u \in Seq(S)
      /\ Len(u) = IF Len(s) + 1 <= Len(t) THEN Len(t) - (Len(s) + 1) + 1 ELSE 0
      /\ \A i \in 1..(Len(t) - (Len(s) + 1) + 1) : u[i] = t[(Len(s) + 1) + i - 1]
  BY <1>1, <1>3, SubSeqProperties
<1>5. Len(u) = Len(t) - Len(s) /\ \A i \in 1..Len(u) : u[i] = t[Len(s) + i]
  BY <1>1, <1>2, <1>4
<1>6. n \in 1..Len(u)
  OBVIOUS
<1> HIDE DEF u
<1>7. \A i \in 1..n : u[i] \in S
  BY <1>1, <1>4, <1>5, <1>6, ElementOfSeq
<1>8. /\ c \in Seq(S)
      /\ Len(c) = IF 1 <= n THEN n - 1 + 1 ELSE 0
      /\ \A i \in 1..(n - 1 + 1) : c[i] = u[1 + i - 1]
  BY <1>6, <1>7, SubSeqProperties
<1>9. Len(c) = n /\ \A i \in 1..n : c[i] = t[Len(s) + i]
  BY <1>1, <1>5, <1>6, <1>8
<1> HIDE DEF c
<1>10. /\ s \o c \in Seq(S)
       /\ Len(s \o c) = Len(s) + Len(c)
       /\ \A i \in 1..(Len(s) + Len(c)) :
             (s \o c)[i] = IF i <= Len(s) THEN s[i] ELSE c[i - Len(s)]
  BY <1>8, ConcatProperties
<1>11. Len(s \o c) <= Len(t)
  BY <1>1, <1>5, <1>6, <1>9, <1>10
<1>12. ASSUME NEW i \in 1..Len(s \o c) PROVE (s \o c)[i] = t[i]
  <2>1. CASE i <= Len(s)
    BY <1>1, <1>2, <1>6, <1>9, <1>10, <2>1
  <2>2. CASE i > Len(s)
    <3>1. i - Len(s) \in 1..n /\ Len(s) + (i - Len(s)) = i
      BY <1>1, <1>6, <1>9, <1>10, <2>2
    <3>2. (s \o c)[i] = c[i - Len(s)]
      BY <1>1, <1>6, <1>9, <1>10, <2>2
    <3> QED
      BY <1>9, <3>1, <3>2
  <2> QED
    BY <1>1, <1>6, <1>9, <1>10, <2>1, <2>2
<1>13. IsPrefix(s \o c, t)
  BY <1>10, <1>11, <1>12, PrefixPointwise
<1> QED
  BY <1>8, <1>13 DEF c, u

-----------------------------------------------------------------------------
(* The verdict, step by step.                                              *)

LEMMA LimitTyped ==
    ASSUME NEW r \in Runs
    PROVE  Limit(r) \in Nat /\ Limit(r) + 1 \in Nat
BY RunnerAssumption DEF Limit

\* A step that reads and judges nothing for s, of whatever run it is.
LEMMA VerdictStays ==
    ASSUME IInv, VInv, NEW s \in Runs, request' = request,
           hashed'[s] = hashed[s], bytes'[s] = bytes[s],
           outcome'[s] = outcome[s],
           \/ report'[Dir(s)] = report[Dir(s)]
           \/ \E e \in Units : report'[Dir(s)] = Append(report[Dir(s)], e),
           worker[s] = "reaped" => worker'[s] = "reaped" /\ status'[s] = status[s]
    PROVE  Retained(s)' /\ Judged(s)'
<1>1. Dir(s) \in Dirs /\ Dir(s)' = Dir(s) /\ Limit(s)' = Limit(s)
  BY DirTyped DEF IInv, Dir, Limit
<1>2. report[Dir(s)] \in Seq(Units) /\ hashed[s] \in Seq(Units)
      /\ outcome[s].hash \in Seq(Units)
  BY <1>1 DEF VInv, ReportTyped
<1>3. ASSUME NEW h \in Seq(Units), IsPrefix(h, report[Dir(s)])
      PROVE  IsPrefix(h, report'[Dir(s)])
  <2>1. CASE report'[Dir(s)] = report[Dir(s)]
    BY <1>3, <2>1
  <2>2. CASE \E e \in Units : report'[Dir(s)] = Append(report[Dir(s)], e)
    BY <1>2, <1>3, <2>2, PrefixGrows
  <2> QED
    BY <2>1, <2>2
<1>4. Retained(s)'
  BY <1>1, <1>2, <1>3 DEF VInv, Retained
<1>5. Judged(s)'
  <2> SUFFICES ASSUME outcome'[s] # NoOutcome
               PROVE  /\ worker'[s] = "reaped"
                      /\ outcome'[s].exit = status'[s]
                      /\ IsPrefix(outcome'[s].hash, report'[Dir(s)])
                      /\ outcome'[s].parsed =>
                            outcome'[s].hash = Document /\ DocSize <= Limit(s)
                      /\ outcome'[s].verified =>
                            outcome'[s].parsed /\ status'[s] = "0"
    BY <1>1 DEF Judged
  <2>1. outcome[s] # NoOutcome
    OBVIOUS
  <2>2. /\ worker[s] = "reaped"
        /\ outcome[s].exit = status[s]
        /\ IsPrefix(outcome[s].hash, report[Dir(s)])
        /\ outcome[s].parsed =>
              outcome[s].hash = Document /\ DocSize <= Limit(s)
        /\ outcome[s].verified => outcome[s].parsed /\ status[s] = "0"
    BY <2>1 DEF VInv, Judged
  <2> QED
    BY <1>2, <1>3, <2>2
<1> QED
  BY <1>4, <1>5

\* A step that touches nothing the verdict is made of.
LEMMA QuietKeeps ==
    ASSUME IInv, VInv,
           UNCHANGED <<request, report, worker, status, bytes, hashed, outcome>>
    PROVE  VInv'
<1>1. ReportTyped'
  BY DEF VInv, ReportTyped
<1>2. ASSUME NEW s \in Runs PROVE Retained(s)' /\ Judged(s)'
  BY VerdictStays
<1> QED
  BY <1>1, <1>2 DEF VInv

\* Once a worker is reaped it stays so, with its exit status.
LEMMA ReapedStays ==
    ASSUME IInv, VInv, NEW r \in Runs, Spawn(r) \/ Wait(r) \/ Exit(r)
    PROVE  /\ \A s \in Runs : worker[s] = "reaped" =>
                 worker'[s] = "reaped" /\ status'[s] = status[s]
           /\ status' \in [Runs -> Exits \cup {"none"}]
<1>1. worker \in [Runs -> {"none", "running", "exited", "reaped"}]
      /\ status \in [Runs -> Exits \cup {"none"}]
  BY DEF IInv, HostTyped, VInv, ReportTyped
<1>2. CASE Spawn(r)
  <2>1. worker[r] = "none"
    BY <1>2, AtStep, StepNames DEF Spawn, IInv, Good, Phase
  <2>2. status' = status
    BY <1>2 DEF Spawn
  <2>3. worker' = [worker EXCEPT ![r] = "running"] \/ worker' = worker
    BY <1>2 DEF Spawn
  <2> QED
    BY <1>1, <2>1, <2>2, <2>3
<1>3. CASE Wait(r)
  BY <1>1, <1>3 DEF Wait
<1>4. CASE Exit(r)
  BY <1>1, <1>4 DEF Exit
<1> QED
  BY <1>2, <1>3, <1>4

LEMMA WorkerEventKeeps ==
    ASSUME IInv, VInv, NEW r \in Runs, Spawn(r) \/ Wait(r) \/ Exit(r)
    PROVE  VInv'
<1>1. UNCHANGED <<request, report, bytes, hashed, outcome>>
  BY DEF Spawn, Wait, Exit, hostVars
<1>2. /\ \A s \in Runs : worker[s] = "reaped" =>
             worker'[s] = "reaped" /\ status'[s] = status[s]
      /\ status' \in [Runs -> Exits \cup {"none"}]
  BY ReapedStays
<1>3. ReportTyped'
  BY <1>1, <1>2 DEF VInv, ReportTyped
<1>4. ASSUME NEW s \in Runs PROVE Retained(s)' /\ Judged(s)'
  BY <1>1, <1>2, VerdictStays
<1> QED
  BY <1>3, <1>4 DEF VInv

\* Whoever writes to a report adds to it, or to what is behind its units.
LEMMA PrintKeeps ==
    ASSUME IInv, VInv, NEW r \in Runs, WorkerPrints(r) \/ Linger(r)
    PROVE  VInv'
<1>1. Dir(r) \in Dirs /\ report \in [Dirs -> Seq(Units)]
  BY DirTyped DEF IInv, VInv, ReportTyped
<1>2. UNCHANGED <<request, worker, status, bytes, hashed, outcome>>
  BY DEF WorkerPrints, Linger, Emit, hostVars
<1>3. PICK e \in Units : Emit(r, e)
  <2>1. CASE WorkerPrints(r)
    BY <2>1 DEF WorkerPrints, Units
  <2>2. CASE Linger(r)
    <3>1. 0 \in Units
      BY RunnerAssumption DEF Units
    <3> QED
      BY <2>2, <3>1 DEF Linger
  <2> QED
    BY <2>1, <2>2
<1>4. Append(report[Dir(r)], e) \in Seq(Units)
  BY <1>1, AppendProperties
<1>5. /\ report' \in [Dirs -> Seq(Units)]
      /\ \A d \in Dirs : report'[d] = report[d]
                         \/ report'[d] = Append(report[d], e)
  <2>1. \/ report' = report
        \/ report' = [report EXCEPT ![Dir(r)] = Append(report[Dir(r)], e)]
    BY <1>3 DEF Emit
  <2> QED
    BY <1>1, <1>4, <2>1
<1>6. ReportTyped'
  BY <1>2, <1>5 DEF VInv, ReportTyped
<1>7. ASSUME NEW s \in Runs PROVE Retained(s)' /\ Judged(s)'
  <2>1. Dir(s) \in Dirs
    BY DirTyped DEF IInv
  <2> QED
    BY <1>2, <1>5, <2>1, VerdictStays
<1> QED
  BY <1>6, <1>7 DEF VInv

\* A chunk of the report is hashed whole and kept up to the limit.
LEMMA ReadKeeps ==
    ASSUME IInv, VInv, NEW r \in Runs, Read(r)
    PROVE  VInv'
<1>1. UNCHANGED <<request, report, worker, status, outcome>>
  BY DEF Read
<1>2. CASE UNCHANGED <<bytes, hashed>>
  BY <1>1, <1>2, QuietKeeps
<1>3. CASE \E n \in 1..Len(Unread(r)) :
              LET chunk == SubSeq(Unread(r), 1, n)
              IN  /\ hashed' = [hashed EXCEPT ![r] = @ \o chunk]
                  /\ bytes' = [bytes EXCEPT ![r] = Retain(r, chunk)]
  <2>1. PICK n \in 1..Len(Unread(r)) :
           LET chunk == SubSeq(Unread(r), 1, n)
           IN  /\ hashed' = [hashed EXCEPT ![r] = @ \o chunk]
               /\ bytes' = [bytes EXCEPT ![r] = Retain(r, chunk)]
    BY <1>3
  <2> DEFINE chunk == SubSeq(Unread(r), 1, n)
  <2>2. /\ hashed' = [hashed EXCEPT ![r] = hashed[r] \o chunk]
        /\ bytes' = [bytes EXCEPT ![r] = Retain(r, chunk)]
    BY <2>1
  <2>3. /\ Dir(r) \in Dirs /\ Dir(r)' = Dir(r)
        /\ Limit(r) + 1 \in Nat /\ Limit(r)' = Limit(r)
    BY <1>1, DirTyped, LimitTyped DEF IInv, Dir, Limit
  <2>4. /\ hashed \in [Runs -> Seq(Units)]
        /\ bytes \in [Runs -> Seq(Units)]
        /\ report[Dir(r)] \in Seq(Units)
        /\ IsPrefix(hashed[r], report[Dir(r)])
        /\ bytes[r] = Take(hashed[r], Limit(r) + 1)
    BY <2>3 DEF VInv, ReportTyped, Retained
  <2>5. chunk \in Seq(Units) /\ IsPrefix(hashed[r] \o chunk, report[Dir(r)])
    <3>1. n \in 1..Len(SubSeq(report[Dir(r)], Len(hashed[r]) + 1,
                              Len(report[Dir(r)])))
      BY DEF Unread
    <3>2. hashed[r] \in Seq(Units)
      BY <2>4
    <3> QED
      BY <2>4, <3>1, <3>2, PrefixReadOn DEF Unread
  <2> HIDE DEF chunk
  <2>6. Retain(r, chunk) = Take(hashed[r] \o chunk, Limit(r) + 1)
    <3> DEFINE n1 == Limit(r) + 1
    <3>1. n1 \in Nat /\ hashed[r] \in Seq(Units)
      BY <2>3, <2>4
    <3>2. bytes[r] = Take(hashed[r], n1)
      BY <2>4
    <3>3. Retain(r, chunk) = bytes[r] \o Take(chunk, n1 - Len(bytes[r]))
      <4>1. Len(bytes[r]) \in Nat /\ Limit(r) \in Nat
        BY LimitTyped, LenProperties DEF VInv, ReportTyped
      <4>2. Limit(r) + 1 - Len(bytes[r]) = n1 - Len(bytes[r])
        BY <4>1
      <4> QED
        BY <4>2 DEF Retain
    <3> HIDE DEF n1
    <3>4. Retain(r, chunk) = Take(hashed[r] \o chunk, n1)
      BY <2>5, <3>1, <3>2, <3>3, TakeOn
    <3> QED
      BY <3>4 DEF n1
  <2>7. /\ hashed[r] \o chunk \in Seq(Units)
        /\ Take(hashed[r] \o chunk, Limit(r) + 1) \in Seq(Units)
    <3>1. hashed[r] \o chunk \in Seq(Units)
      BY <2>4, <2>5, ConcatProperties
    <3> QED
      BY <2>3, <3>1, TakeProperties
  <2>8. /\ hashed' \in [Runs -> Seq(Units)]
        /\ bytes' \in [Runs -> Seq(Units)]
        /\ hashed'[r] = hashed[r] \o chunk
        /\ bytes'[r] = Take(hashed[r] \o chunk, Limit(r) + 1)
        /\ \A s \in Runs \ {r} : hashed'[s] = hashed[s] /\ bytes'[s] = bytes[s]
    BY <2>2, <2>4, <2>6, <2>7
  <2>9. ReportTyped'
    BY <1>1, <2>8 DEF VInv, ReportTyped
  <2>10. Retained(r)'
    BY <1>1, <2>3, <2>5, <2>8 DEF Retained
  <2>11. Judged(r)'
    BY <1>1, <2>3 DEF VInv, Judged
  <2>12. ASSUME NEW s \in Runs \ {r} PROVE Retained(s)' /\ Judged(s)'
    BY <1>1, <2>8, VerdictStays
  <2> QED
    BY <2>9, <2>10, <2>11, <2>12 DEF VInv
<1> QED
  BY <1>2, <1>3 DEF Read, ReadExcess

\* What parses was kept whole, and what was kept whole was hashed whole.
LEMMA EvaluateKeeps ==
    ASSUME IInv, VInv, NEW r \in Runs, Evaluate(r)
    PROVE  VInv'
<1>1. UNCHANGED <<request, report, worker, status, bytes, hashed>>
  BY DEF Evaluate, workVars
<1>2. worker[r] = "reaped"
  BY AtStep, StepNames DEF Evaluate, IInv, Good, Phase
<1> DEFINE parsed == Len(bytes[r]) <= Limit(r) /\ bytes[r] = Document
<1>3. PICK verified \in BOOLEAN :
         /\ verified => parsed /\ status[r] = "0"
         /\ outcome' = [outcome EXCEPT ![r] =
               [exit |-> status[r], parsed |-> parsed,
                verified |-> verified, hash |-> hashed[r]]]
  BY DEF Evaluate
<1>4. /\ Dir(r) \in Dirs /\ Dir(r)' = Dir(r)
      /\ Limit(r) \in Nat /\ Limit(r) + 1 \in Nat /\ Limit(r)' = Limit(r)
  BY <1>1, DirTyped, LimitTyped DEF IInv, Dir, Limit
<1>5. /\ hashed[r] \in Seq(Units)
      /\ IsPrefix(hashed[r], report[Dir(r)])
      /\ bytes[r] = Take(hashed[r], Limit(r) + 1)
      /\ status[r] \in Exits \cup {"none"}
  BY DEF VInv, ReportTyped, Retained
<1>6. ASSUME parsed PROVE hashed[r] = Document /\ DocSize <= Limit(r)
  <2>1. Len(bytes[r]) \in Nat
    BY <1>4, <1>5, TakeProperties, LenProperties
  <2>2. Len(bytes[r]) < Limit(r) + 1
    BY <1>4, <1>6, <2>1
  <2>3. Take(hashed[r], Limit(r) + 1) = hashed[r]
    BY <1>4, <1>5, <2>2, TakeProperties
  <2>4. Len(Document) = DocSize
    BY RunnerAssumption DEF Document
  <2> QED
    BY <1>5, <1>6, <2>3, <2>4
<1>7. parsed \in BOOLEAN
  OBVIOUS
<1> HIDE DEF parsed
<1>8. /\ outcome'[r] = [exit |-> status[r], parsed |-> parsed,
                        verified |-> verified, hash |-> hashed[r]]
      /\ \A s \in Runs \ {r} : outcome'[s] = outcome[s]
      /\ outcome' \in [Runs -> [exit : Exits \cup {"none"}, parsed : BOOLEAN,
                                verified : BOOLEAN, hash : Seq(Units)]]
  BY <1>3, <1>5, <1>7 DEF VInv, ReportTyped
<1>9. ReportTyped'
  BY <1>1, <1>8 DEF VInv, ReportTyped
<1>10. Retained(r)'
  BY <1>1, <1>4, <1>5 DEF Retained
<1>11. Judged(r)'
  BY <1>1, <1>2, <1>3, <1>4, <1>5, <1>6, <1>8 DEF Judged
<1>12. ASSUME NEW s \in Runs \ {r} PROVE Retained(s)' /\ Judged(s)'
  BY <1>1, <1>8, VerdictStays
<1> QED
  BY <1>9, <1>10, <1>11, <1>12 DEF VInv

LEMMA VerdictInitHolds == Init => VInv
<1> SUFFICES ASSUME Init PROVE VInv
  OBVIOUS
<1>1. <<>> \in Seq(Units) /\ Len(<<>>) = 0
  OBVIOUS
<1>2. ReportTyped
  BY <1>1 DEF Init, ReportTyped, NoOutcome
<1>3. ASSUME NEW r \in Runs PROVE Retained(r) /\ Judged(r)
  <2>1. Dir(r) \in Dirs
    BY DirTyped, InitHolds DEF IInv
  <2>2. hashed[r] = <<>> /\ bytes[r] = <<>> /\ outcome[r] = NoOutcome
        /\ report[Dir(r)] = <<>>
    BY <2>1 DEF Init
  <2>3. IsPrefix(hashed[r], report[Dir(r)])
    BY <1>1, <2>2 DEF IsPrefix
  <2>4. Limit(r) + 1 \in Nat /\ 0 < Limit(r) + 1
    BY LimitTyped
  <2>5. Take(<<>>, Limit(r) + 1) = <<>>
    BY <1>1, <2>4, SubSeqEmpty DEF Take
  <2> QED
    BY <2>2, <2>3, <2>5 DEF Retained, Judged
<1> QED
  BY <1>2, <1>3 DEF VInv

LEMMA VerdictNextHolds == IInv /\ VInv /\ [Next]_vars => VInv'
<1> SUFFICES ASSUME IInv, VInv, [Next]_vars PROVE VInv'
  OBVIOUS
<1>1. CASE UNCHANGED vars
  BY <1>1, QuietKeeps DEF vars
<1>2. CASE Next
  <2>1. PICK r \in Runs : \/ Step(r) \/ Fail(r) \/ Die(r)
                          \/ WorkerPrints(r) \/ Linger(r) \/ Exit(r)
    BY <1>2 DEF Next
  <2>2. CASE Invoke(r) \/ CreateDir(r) \/ Create(r) \/ Write(r) \/ RecordPid(r)
             \/ Fail(r) \/ Die(r)
    <3>1. UNCHANGED <<request, report, worker, status, bytes, hashed, outcome>>
      BY <2>2 DEF Invoke, CreateDir, Create, Write, RecordPid, Fail, Die,
                  workVars, hostVars
    <3> QED
      BY <3>1, QuietKeeps
  <2> QED
    BY <2>1, <2>2, WorkerEventKeeps, PrintKeeps, ReadKeeps, EvaluateKeeps DEF Step
<1> QED
  BY <1>1, <1>2

\* The verdict, the hash and the retained report are of the same bytes, however
\* the report grows while it is read and whatever the limits are.
THEOREM VerdictHashed == Spec => []VerdictOfHashedBytes
<1>1. VInv => VerdictOfHashedBytes
  BY DEF VInv, Judged, VerdictOfHashedBytes
<1> QED
  BY <1>1, InitHolds, NextHolds, VerdictInitHolds, VerdictNextHolds, PTL DEF Spec

\* Whether more is behind a report is set and reset, and nothing else.
ExcessTyped == excess \in [Dirs -> BOOLEAN]

LEMMA ExcessNextHolds == ExcessTyped /\ [Next]_vars => ExcessTyped'
<1> SUFFICES ASSUME ExcessTyped, [Next]_vars PROVE ExcessTyped'
  OBVIOUS
<1>1. CASE UNCHANGED vars
  BY <1>1 DEF vars, ExcessTyped
<1>2. CASE Next
  <2>1. PICK r \in Runs : \/ Step(r) \/ Fail(r) \/ Die(r)
                          \/ WorkerPrints(r) \/ Linger(r) \/ Exit(r)
    BY <1>2 DEF Next
  <2>2. CASE WorkerPrints(r) \/ Linger(r) \/ Read(r)
    <3>1. \E b \in BOOLEAN : \/ excess' = excess
                             \/ excess' = [excess EXCEPT ![Dir(r)] = b]
      BY <2>2 DEF WorkerPrints, Linger, Emit, Read, ReadExcess
    <3> QED
      BY <3>1 DEF ExcessTyped
  <2>3. CASE \/ Invoke(r) \/ CreateDir(r) \/ Create(r) \/ Write(r) \/ Spawn(r)
             \/ RecordPid(r) \/ Wait(r) \/ Evaluate(r) \/ Fail(r) \/ Die(r)
             \/ Exit(r)
    <3>1. excess' = excess
      BY <2>3 DEF Invoke, CreateDir, Create, Write, Spawn, RecordPid, Wait,
                  Evaluate, Fail, Die, Exit, workVars
    <3> QED
      BY <3>1 DEF ExcessTyped
  <2> QED
    BY <2>1, <2>2, <2>3 DEF Step
<1> QED
  BY <1>1, <1>2

\* Types, and with them the memory a run keeps of a report: one unit more than
\* its limit, however long the report gets.
THEOREM RunnerTypes == Spec => []TypeOK
<1>1. IInv /\ VInv /\ ExcessTyped => TypeOK
  <2> SUFFICES ASSUME IInv, VInv, ExcessTyped PROVE TypeOK
    OBVIOUS
  <2>1. pc \in [Runs -> Steps \X (Receipts \cup {""})]
    <3>1. Places \subseteq Steps \X (Receipts \cup {""})
      BY DEF Places, Steps, Created
    <3> QED
      BY <3>1 DEF IInv, HostTyped
  <2>2. ASSUME NEW r \in Runs PROVE Len(bytes[r]) <= Limit(r) + 1
    <3>1. /\ hashed[r] \in Seq(Units)
          /\ bytes[r] = Take(hashed[r], Limit(r) + 1)
      BY DEF VInv, ReportTyped, Retained
    <3>2. Limit(r) + 1 \in Nat /\ Len(hashed[r]) \in Nat
      BY <3>1, LimitTyped, LenProperties
    <3>3. Len(bytes[r]) = IF Limit(r) + 1 < Len(hashed[r])
                          THEN Limit(r) + 1 ELSE Len(hashed[r])
      BY <3>1, <3>2, TakeProperties
    <3> QED
      BY <3>2, <3>3
  <2> QED
    BY <2>1, <2>2 DEF IInv, HostTyped, VInv, ReportTyped, ExcessTyped,
                        Units, Results, TypeOK
<1>2. Init => ExcessTyped
  BY DEF Init, ExcessTyped
<1> QED
  BY <1>1, <1>2, InitHolds, NextHolds, VerdictInitHolds, VerdictNextHolds,
     ExcessNextHolds, PTL DEF Spec

-----------------------------------------------------------------------------
(***************************************************************************)
(* HostRunner implements the safety part of RunnerService: every step of a *)
(* run, of its worker or of what the worker leaves behind is a step of the *)
(* service, or none of it.  That a call returns behind its worker is left  *)
(* to TLC.                                                                 *)
(***************************************************************************)

\* What the service's state depends on, beyond IInv: a result exists only
\* behind the return, wait has a worker to wait for, and a boot is verified
\* only behind a worker that was reaped with status zero.
Tracked(r) ==
    /\ pc[r] # At("returned") => result[r] = "none"
    /\ pc[r] \in {At("pid"), At("wait")} => worker[r] \in {"running", "exited"}
    /\ outcome[r].verified => worker[r] = "reaped" /\ status[r] = "0"

JInv ==
    /\ IInv
    /\ status \in [Runs -> Exits \cup {"none"}]
    /\ DOMAIN outcome = Runs
    /\ \A r \in Runs : Tracked(r)

\* A step that is of r alone.
Alone(r) ==
    /\ request' = request
    /\ \A s \in Runs \ {r} :
          /\ pc'[s] = pc[s]
          /\ result'[s] = result[s]
          /\ worker'[s] = worker[s]
          /\ status'[s] = status[s]
          /\ outcome'[s] = outcome[s]

\* The run is neither back nor dead.
Under(place) == place \notin {At("returned"), At("died")}

-----------------------------------------------------------------------------
(* From steps of the runner to steps of the service.                       *)

LEMMA EndOpen ==
    ASSUME JInv, NEW r \in Runs, Under(pc[r])
    PROVE  ServiceEnd(r) = "none"
BY DEF JInv, Tracked, Under, ServiceEnd, ExitCode

\* What changes is at r.
LEMMA OnlyAt ==
    ASSUME NEW r \in Runs, Alone(r)
    PROVE  /\ [s \in Runs |-> Dir(s)]' = [s \in Runs |-> Dir(s)]
           /\ [s \in Runs |-> ServiceWorker(s)]'
                 = [[s \in Runs |-> ServiceWorker(s)] EXCEPT ![r] = ServiceWorker(r)']
           /\ [s \in Runs |-> ServiceEnd(s)]'
                 = [[s \in Runs |-> ServiceEnd(s)] EXCEPT ![r] = ServiceEnd(r)']
<1>1. \A s \in Runs : Dir(s)' = Dir(s)
  BY DEF Alone, Dir
<1>2. \A s \in Runs \ {r} : ServiceWorker(s)' = ServiceWorker(s)
  BY DEF Alone, ServiceWorker
<1>3. \A s \in Runs \ {r} : ServiceEnd(s)' = ServiceEnd(s)
  BY DEF Alone, ServiceEnd, ExitCode
<1> QED
  BY <1>1, <1>2, <1>3

LEMMA Silent ==
    ASSUME NEW r \in Runs, Alone(r), owner' = owner,
           ServiceWorker(r)' = ServiceWorker(r), ServiceEnd(r)' = ServiceEnd(r)
    PROVE  [Service!Next]_(Service!vars)
BY OnlyAt DEF Service!vars

LEMMA Claims ==
    ASSUME NEW r \in Runs, Alone(r),
           owner[Dir(r)] = NoRun, owner' = [owner EXCEPT ![Dir(r)] = r],
           ServiceWorker(r)' = ServiceWorker(r),
           ServiceEnd(r)' = ServiceEnd(r), ServiceEnd(r) = "none"
    PROVE  [Service!Next]_(Service!vars)
<1>1. Service!Claim(r)
  BY OnlyAt DEF Service!Claim
<1> QED
  BY <1>1 DEF Service!Next

LEMMA Starts ==
    ASSUME NEW r \in Runs, Alone(r), owner' = owner, owner[Dir(r)] = r,
           ServiceWorker(r) = "none", ServiceWorker(r)' = "running",
           ServiceEnd(r)' = ServiceEnd(r), ServiceEnd(r) = "none"
    PROVE  [Service!Next]_(Service!vars)
<1>1. Service!Start(r)
  BY OnlyAt DEF Service!Start
<1> QED
  BY <1>1 DEF Service!Next

LEMMA Ends ==
    ASSUME NEW r \in Runs, Alone(r), owner' = owner,
           ServiceWorker(r) = "running",
           ServiceWorker(r)' \in {"succeeded", "failed"},
           ServiceEnd(r)' = ServiceEnd(r)
    PROVE  [Service!Next]_(Service!vars)
<1>1. Service!WorkerEnds(r)
  BY OnlyAt DEF Service!WorkerEnds
<1> QED
  BY <1>1 DEF Service!Next

LEMMA Finishes ==
    ASSUME NEW r \in Runs, Alone(r), owner' = owner,
           ServiceWorker(r)' = ServiceWorker(r), ServiceEnd(r) = "none",
           \/ ServiceEnd(r)' = "died"
           \/ ServiceEnd(r)' = "lost" /\ ServiceWorker(r) # "none"
           \/ ServiceEnd(r)' = "2"
              /\ ServiceWorker(r) \in {"none", "succeeded", "failed"}
           \/ ServiceEnd(r)' = "0" /\ ServiceWorker(r) = "succeeded"
    PROVE  [Service!Next]_(Service!vars)
<1>1. Service!Finish(r, ServiceEnd(r)')
  BY OnlyAt DEF Service!Finish
<1>2. \/ Service!Die(r) \/ Service!Lose(r)
      \/ Service!Refuse(r) \/ Service!Answer(r)
  BY <1>1 DEF Service!Die, Service!Lose, Service!Refuse, Service!Answer,
              Service!Over
<1> QED
  BY <1>2 DEF Service!Next

-----------------------------------------------------------------------------
(* The steps of the runner.                                                *)

\* What is left to show of a step that keeps IInv.
LEMMA Holds ==
    ASSUME JInv, IInv', NEW r \in Runs, Alone(r), Tracked(r)',
           status' \in [Runs -> Exits \cup {"none"}], DOMAIN outcome' = Runs
    PROVE  JInv'
<1>1. ASSUME NEW s \in Runs, s # r PROVE Tracked(s)'
  BY <1>1 DEF JInv, Tracked, Alone
<1> QED
  BY <1>1 DEF JInv

\* The run goes on to another place, its worker as before.
LEMMA MovesOn ==
    ASSUME JInv, IInv', NEW r \in Runs, Under(pc[r]),
           NEW place \in Places, Under(place), pc' = [pc EXCEPT ![r] = place],
           place \in {At("pid"), At("wait")} => worker[r] \in {"running", "exited"},
           UNCHANGED <<request, worker, status, outcome, result>>
    PROVE  /\ JInv'
           /\ Alone(r)
           /\ ServiceWorker(r)' = ServiceWorker(r)
           /\ ServiceEnd(r) = "none" /\ ServiceEnd(r)' = "none"
<1>1. pc'[r] = place /\ \A s \in Runs \ {r} : pc'[s] = pc[s]
  BY Moved DEF JInv, IInv
<1>2. Alone(r)
  BY <1>1 DEF Alone
<1>3. Tracked(r)'
  BY <1>1 DEF JInv, Tracked, Under
<1>4. JInv'
  BY <1>2, <1>3, Holds DEF JInv
<1>5. ServiceWorker(r)' = ServiceWorker(r)
  BY DEF ServiceWorker
<1>6. ServiceEnd(r) = "none" /\ ServiceEnd(r)' = "none"
  <2>1. ServiceEnd(r) = "none"
    BY EndOpen
  <2>2. pc'[r] # At("died") /\ result'[r] = "none"
    BY <1>1 DEF JInv, Tracked, Under
  <2> QED
    BY <2>1, <2>2 DEF ServiceEnd, ExitCode
<1> QED
  BY <1>2, <1>4, <1>5, <1>6

LEMMA StaysSilent ==
    ASSUME JInv, IInv', NEW r \in Runs, Under(pc[r]),
           NEW place \in Places, Under(place), pc' = [pc EXCEPT ![r] = place],
           place \in {At("pid"), At("wait")} => worker[r] \in {"running", "exited"},
           UNCHANGED <<request, owner, worker, status, outcome, result>>
    PROVE  JInv' /\ [Service!Next]_(Service!vars)
BY MovesOn, Silent

\* The run returns: with an outcome only behind a reaped worker, without one
\* where there is no worker or it is over, or where wait failed.
LEMMA Comes ==
    ASSUME JInv, IInv', NEW r \in Runs, Under(pc[r]),
           NEW value \in Results \ {"none"}, Return(r, value),
           UNCHANGED <<request, owner, status, outcome>>,
           \/ worker' = worker
           \/ worker[r] = "exited" /\ worker' = [worker EXCEPT ![r] = "reaped"],
           value = "ok" => worker[r] = "reaped",
           value = "WaitFailed" => worker[r] # "none",
           value = "WaitFailed" \/ worker[r] \in {"none", "exited", "reaped"}
    PROVE  JInv' /\ [Service!Next]_(Service!vars)
<1>1. /\ pc'[r] = At("returned") /\ result'[r] = value
      /\ \A s \in Runs \ {r} : pc'[s] = pc[s] /\ result'[s] = result[s]
  BY Returned DEF JInv, IInv
<1>2. /\ \A s \in Runs \ {r} : worker'[s] = worker[s]
      /\ worker[r] = worker'[r] \/ (worker[r] = "exited" /\ worker'[r] = "reaped")
  BY DEF JInv, IInv, HostTyped
<1>3. Alone(r)
  BY <1>1, <1>2 DEF Alone
<1>4. Tracked(r)'
  <2>1. At("returned") \notin {At("pid"), At("wait")}
    BY DEF At
  <2>2. outcome[r].verified => worker[r] = "reaped" /\ status[r] = "0"
    BY DEF JInv, Tracked
  <2>3. outcome'[r].verified => worker'[r] = "reaped" /\ status'[r] = "0"
    BY <1>2, <2>2
  <2> QED
    BY <1>1, <2>1, <2>3 DEF Tracked
<1>5. JInv'
  BY <1>3, <1>4, Holds DEF JInv
<1>6. ServiceWorker(r)' = ServiceWorker(r)
  BY <1>2 DEF ServiceWorker
<1>7. ServiceEnd(r) = "none"
  BY EndOpen
<1>8. At("returned") # At("died")
  BY DEF At
<1>9. CASE value = "WaitFailed"
  <2>1. ServiceEnd(r)' = "lost"
    BY <1>1, <1>8, <1>9 DEF ServiceEnd
  <2>2. ServiceWorker(r) # "none"
    BY <1>9 DEF ServiceWorker
  <2> QED
    BY <1>3, <1>5, <1>6, <1>7, <2>1, <2>2, Finishes
<1>10. CASE value = "ok" /\ outcome[r].verified
  <2>1. ServiceEnd(r)' = "0"
    BY <1>1, <1>8, <1>10 DEF ServiceEnd, ExitCode
  <2>2. ServiceWorker(r) = "succeeded"
    BY <1>10 DEF JInv, Tracked, ServiceWorker
  <2> QED
    BY <1>3, <1>5, <1>6, <1>7, <2>1, <2>2, Finishes
<1>11. CASE value # "WaitFailed" /\ ~(value = "ok" /\ outcome[r].verified)
  <2>1. ServiceEnd(r)' = "2"
    BY <1>1, <1>8, <1>11 DEF ServiceEnd, ExitCode
  <2>2. ServiceWorker(r) \in {"none", "succeeded", "failed"}
    BY <1>11 DEF ServiceWorker
  <2> QED
    BY <1>3, <1>5, <1>6, <1>7, <2>1, <2>2, Finishes
<1> QED
  BY <1>9, <1>10, <1>11

LEMMA NotOver ==
    /\ \A s \in Steps \ {"returned", "died"} : Under(At(s))
    /\ \A k \in {"create", "write"}, f \in Receipts : Under(<<k, f>>)
    /\ \A k \in {"create", "write"}, f \in Receipts :
          <<k, f>> \notin {At("pid"), At("wait")}
    /\ \A s \in Steps \ {"pid", "wait"} : At(s) \notin {At("pid"), At("wait")}
BY DEF Under, At

LEMMA InvokeServes ==
    ASSUME JInv, IInv', NEW r \in Runs, Invoke(r)
    PROVE  JInv' /\ [Service!Next]_(Service!vars)
<1>1. /\ pc[r] = At("invocation")
      /\ UNCHANGED <<request, owner, worker, status, outcome>>
  BY DEF Invoke, workVars, hostVars
<1>2. Under(pc[r])
  BY <1>1, NotOver, StepNames
<1>3. worker[r] = "none"
  BY <1>1, AtStep, StepNames DEF JInv, IInv, Good, Phase
<1>4. CASE InvocationError(request[r]) = "ok"
  <2>1. pc' = [pc EXCEPT ![r] = At("create_dir")] /\ result' = result
    BY <1>4 DEF Invoke, Goto
  <2>2. "create_dir" \in Steps \ {"create", "write", "pid", "wait", "returned", "died"}
    BY DEF Steps
  <2> QED
    BY <1>1, <1>2, <2>1, <2>2, AtStep, NotOver, StaysSilent
<1>5. CASE InvocationError(request[r]) # "ok"
  <2>1. InvocationError(request[r]) \in {"ok", "InvalidRequest", "UnsupportedHost"}
    BY BudgetFits DEF JInv, IInv, HostTyped
  <2>2. PICK value \in {"InvalidRequest", "UnsupportedHost"} : Return(r, value)
    BY <1>5, <2>1 DEF Invoke
  <2>3. value \in Results \ {"none"} /\ value \notin {"ok", "WaitFailed"}
    BY DEF Results
  <2> QED
    BY <1>1, <1>2, <1>3, <2>2, <2>3, Comes
<1> QED
  BY <1>4, <1>5

LEMMA CreateDirServes ==
    ASSUME JInv, IInv', NEW r \in Runs, CreateDir(r)
    PROVE  JInv' /\ [Service!Next]_(Service!vars)
<1>1. /\ pc[r] = At("create_dir")
      /\ UNCHANGED <<request, worker, status, outcome>>
  BY DEF CreateDir, workVars, hostVars
<1>2. Under(pc[r])
  BY <1>1, NotOver, StepNames
<1>3. worker[r] = "none"
  BY <1>1, AtStep, StepNames DEF JInv, IInv, Good, Phase
<1>4. CASE owner[Dir(r)] = NoRun
  <2>1. /\ owner' = [owner EXCEPT ![Dir(r)] = r]
        /\ pc' = [pc EXCEPT ![r] = <<"create", "request.json">>]
        /\ result' = result
    BY <1>4 DEF CreateDir, Goto
  <2>2. "request.json" \in Created /\ "request.json" \in Receipts
    BY DEF Created, Receipts
  <2>3. <<"create", "request.json">> \in Places
    BY <2>2, AtReceipt
  <2>4. /\ JInv'
        /\ Alone(r)
        /\ ServiceWorker(r)' = ServiceWorker(r)
        /\ ServiceEnd(r) = "none" /\ ServiceEnd(r)' = "none"
    BY <1>1, <1>2, <2>1, <2>2, <2>3, NotOver, MovesOn
  <2> QED
    BY <1>4, <2>1, <2>4, Claims
<1>5. CASE owner[Dir(r)] # NoRun
  <2>1. "Io" \in Results \ {"none"}
    BY DEF Results
  <2>2. Return(r, "Io") /\ owner' = owner
    BY <1>5 DEF CreateDir
  <2> QED
    BY <1>1, <1>2, <1>3, <2>1, <2>2, Comes
<1> QED
  BY <1>4, <1>5

\* A receipt is complete, or cannot be made.
LEMMA CompletedServes ==
    ASSUME JInv, IInv', NEW r \in Runs, NEW k \in {"create", "write"},
           NEW f \in Receipts, pc[r] = <<k, f>>, Continue(r, f),
           UNCHANGED <<request, owner, worker, status, outcome>>
    PROVE  JInv' /\ [Service!Next]_(Service!vars)
<1>1. Under(pc[r])
  BY NotOver
<1>2. /\ f \in Created
      /\ worker[r] \in {"none", "reaped"}
      /\ f # "adapter.json" => worker[r] = "none"
      /\ f = "adapter.json" => worker[r] = "reaped"
  BY OnReceipt DEF JInv
<1>4. CASE f = "spawn-error.json"
  <2>1. Return(r, "Io")
    BY <1>4 DEF Continue
  <2>2. "Io" \in Results \ {"none"}
    BY DEF Results
  <2> QED
    BY <1>1, <1>2, <2>1, <2>2, Comes
<1>5. CASE f = "adapter.json"
  <2>1. Return(r, "ok")
    BY <1>5 DEF Continue
  <2>2. "ok" \in Results \ {"none"}
    BY DEF Results
  <2> QED
    BY <1>1, <1>2, <1>5, <2>1, <2>2, Comes
<1>6. CASE f = "worker.stderr.log" /\ Goto(r, At("spawn"))
  <2>1. "spawn" \in Steps \ {"create", "write", "pid", "wait", "returned", "died"}
    BY DEF Steps
  <2> QED
    BY <1>1, <1>6, <2>1, AtStep, NotOver, StaysSilent DEF Goto
<1>7. ASSUME NEW g \in Created, Goto(r, <<"create", g>>)
      PROVE  JInv' /\ [Service!Next]_(Service!vars)
  <2>1. g \in Receipts
    BY DEF Created
  <2>2. <<"create", g>> \in Places
    BY AtReceipt
  <2> QED
    BY <1>1, <1>7, <2>1, <2>2, NotOver, StaysSilent DEF Goto
<1>8. {"invocation.json", "worker.stdout.json", "worker.stderr.log"} \subseteq Created
  BY DEF Created, Receipts
<1> QED
  BY <1>2, <1>4, <1>5, <1>6, <1>7, <1>8, Continued DEF JInv, IInv

LEMMA ReceiptRefused ==
    ASSUME JInv, IInv', NEW r \in Runs, NEW k \in {"create", "write"},
           NEW f \in Receipts, pc[r] = <<k, f>>,
           NEW value \in {"Io", "Json"}, Return(r, value),
           UNCHANGED <<request, owner, worker, status, outcome>>
    PROVE  JInv' /\ [Service!Next]_(Service!vars)
<1>1. Under(pc[r])
  BY NotOver
<1>2. worker[r] \in {"none", "reaped"}
  BY OnReceipt DEF JInv
<1>3. value \in Results \ {"none"}
  BY DEF Results
<1> QED
  BY <1>1, <1>2, <1>3, Comes

LEMMA CreateServes ==
    ASSUME JInv, IInv', NEW r \in Runs, Create(r)
    PROVE  JInv' /\ [Service!Next]_(Service!vars)
<1>1. PICK f \in Receipts :
         /\ pc[r] = <<"create", f>>
         /\ IF File(Dir(r), f) = NoFile
            THEN /\ SetFile(r, f, f \in Streams)
                 /\ IF f \in Streams
                    THEN Continue(r, f)
                    ELSE Goto(r, <<"write", f>>)
            ELSE Return(r, "Io") /\ UNCHANGED files
  BY DEF Create
<1>2. UNCHANGED <<request, owner, worker, status, outcome>>
  BY DEF Create, workVars, hostVars
<1>3. CASE Return(r, "Io")
  BY <1>1, <1>2, <1>3, ReceiptRefused
<1>4. CASE Continue(r, f)
  BY <1>1, <1>2, <1>4, CompletedServes
<1>5. CASE Goto(r, <<"write", f>>)
  <2>1. f \in Created
    BY <1>1, OnReceipt DEF JInv
  <2>2. <<"write", f>> \in Places
    BY <2>1, AtReceipt
  <2> QED
    BY <1>1, <1>2, <1>5, <2>2, NotOver, StaysSilent DEF Goto
<1> QED
  BY <1>1, <1>3, <1>4, <1>5

LEMMA WriteServes ==
    ASSUME JInv, IInv', NEW r \in Runs, Write(r)
    PROVE  JInv' /\ [Service!Next]_(Service!vars)
<1>1. PICK f \in Receipts : pc[r] = <<"write", f>> /\ Continue(r, f)
  BY DEF Write
<1>2. UNCHANGED <<request, owner, worker, status, outcome>>
  BY DEF Write, workVars, hostVars
<1> QED
  BY <1>1, <1>2, CompletedServes

LEMMA SpawnServes ==
    ASSUME JInv, IInv', NEW r \in Runs, Spawn(r)
    PROVE  JInv' /\ [Service!Next]_(Service!vars)
<1>1. pc[r] = At("spawn") /\ UNCHANGED <<request, owner, status, outcome, result>>
  BY DEF Spawn, Goto, hostVars
<1>2. Under(pc[r])
  BY <1>1, NotOver, StepNames
<1>3. owner[Dir(r)] = r /\ worker[r] = "none"
  BY <1>1, OnWorker DEF JInv, Recording
<1>4. CASE /\ worker' = [worker EXCEPT ![r] = "running"]
           /\ pc' = [pc EXCEPT ![r] = At("pid")]
  <2>1. At("pid") \in Places /\ Under(At("pid"))
    BY AtStep, NotOver, StepNames
  <2>2. pc'[r] = At("pid") /\ \A s \in Runs \ {r} : pc'[s] = pc[s]
    BY <1>4, <2>1, Moved DEF JInv, IInv
  <2>3. worker'[r] = "running" /\ \A s \in Runs \ {r} : worker'[s] = worker[s]
    BY <1>4 DEF JInv, IInv, HostTyped
  <2>4. Alone(r)
    BY <1>1, <2>2, <2>3 DEF Alone
  <2>5. result[r] = "none" /\ ~outcome[r].verified
    BY <1>2, <1>3 DEF JInv, Tracked, Under
  <2>6. Tracked(r)'
    BY <1>1, <2>1, <2>2, <2>3, <2>5 DEF Tracked, Under
  <2>7. ServiceEnd(r) = "none" /\ ServiceEnd(r)' = "none"
    <3>1. ServiceEnd(r) = "none"
      BY <1>2, EndOpen
    <3> QED
      BY <1>1, <2>1, <2>2, <2>5, <3>1 DEF ServiceEnd, ExitCode, Under
  <2>8. ServiceWorker(r) = "none" /\ ServiceWorker(r)' = "running"
    BY <1>3, <2>3 DEF ServiceWorker
  <2> QED
    BY <1>1, <1>3, <2>4, <2>6, <2>7, <2>8, Holds, Starts DEF JInv
<1>5. CASE /\ worker' = worker
           /\ pc' = [pc EXCEPT ![r] = <<"create", "spawn-error.json">>]
  <2>1. "spawn-error.json" \in Created /\ "spawn-error.json" \in Receipts
    BY DEF Created, Receipts
  <2>2. <<"create", "spawn-error.json">> \in Places
    BY <2>1, AtReceipt
  <2> QED
    BY <1>1, <1>2, <1>5, <2>1, <2>2, NotOver, StaysSilent
<1> QED
  BY <1>4, <1>5 DEF Spawn, Goto

LEMMA RecordPidServes ==
    ASSUME JInv, IInv', NEW r \in Runs, RecordPid(r)
    PROVE  JInv' /\ [Service!Next]_(Service!vars)
<1>1. /\ pc[r] = At("pid")
      /\ pc' = [pc EXCEPT ![r] = At("wait")]
      /\ UNCHANGED <<request, owner, worker, status, outcome, result>>
  BY DEF RecordPid, Goto, workVars
<1>2. Under(pc[r]) /\ At("wait") \in Places /\ Under(At("wait"))
  BY <1>1, AtStep, NotOver, StepNames
<1>3. worker[r] \in {"running", "exited"}
  BY <1>1 DEF JInv, Tracked
<1> QED
  BY <1>1, <1>2, <1>3, StaysSilent

LEMMA WaitServes ==
    ASSUME JInv, IInv', NEW r \in Runs, Wait(r)
    PROVE  JInv' /\ [Service!Next]_(Service!vars)
<1>1. /\ pc[r] = At("wait") /\ worker[r] = "exited"
      /\ worker' = [worker EXCEPT ![r] = "reaped"]
      /\ UNCHANGED <<request, owner, status, outcome>>
  BY DEF Wait, hostVars
<1>2. Under(pc[r])
  BY <1>1, NotOver, StepNames
<1>3. CASE pc' = [pc EXCEPT ![r] = At("read")] /\ result' = result
  <2>1. /\ At("read") \in Places /\ Under(At("read"))
        /\ At("read") \notin {At("pid"), At("wait")}
    <3>1. "read" \in Steps \ {"create", "write", "pid", "wait", "returned", "died"}
      BY DEF Steps
    <3> QED
      BY <3>1, AtStep, NotOver
  <2>2. pc'[r] = At("read") /\ \A s \in Runs \ {r} : pc'[s] = pc[s]
    BY <1>3, <2>1, Moved DEF JInv, IInv
  <2>3. worker'[r] = "reaped" /\ \A s \in Runs \ {r} : worker'[s] = worker[s]
    BY <1>1 DEF JInv, IInv, HostTyped
  <2>4. Alone(r)
    BY <1>1, <1>3, <2>2, <2>3 DEF Alone
  <2>5. result[r] = "none" /\ ~outcome[r].verified
    BY <1>1, <1>2 DEF JInv, Tracked, Under
  <2>6. Tracked(r)'
    BY <1>1, <1>3, <2>1, <2>2, <2>3, <2>5 DEF Tracked
  <2>7. ServiceEnd(r) = "none" /\ ServiceEnd(r)' = "none"
    <3>1. ServiceEnd(r) = "none"
      BY <1>2, EndOpen
    <3> QED
      BY <1>3, <2>1, <2>2, <2>5, <3>1 DEF ServiceEnd, ExitCode, Under
  <2>8. ServiceWorker(r)' = ServiceWorker(r)
    BY <1>1, <2>3 DEF ServiceWorker
  <2> QED
    BY <1>1, <2>4, <2>6, <2>7, <2>8, Holds, Silent DEF JInv
<1>4. CASE Return(r, "Io")
  <2>1. "Io" \in Results \ {"none"}
    BY DEF Results
  <2> QED
    BY <1>1, <1>2, <1>4, <2>1, Comes
<1> QED
  BY <1>3, <1>4 DEF Wait, Goto

LEMMA ReadServes ==
    ASSUME JInv, IInv', NEW r \in Runs, Read(r)
    PROVE  JInv' /\ [Service!Next]_(Service!vars)
<1>1. /\ pc[r] = At("read")
      /\ UNCHANGED <<request, owner, worker, status, outcome, result>>
  BY DEF Read, ReadExcess, Goto, workVars
<1>2. {"read", "evaluate"}
         \subseteq Steps \ {"create", "write", "pid", "wait", "returned", "died"}
  BY DEF Steps
<1>3. PICK s \in {"read", "evaluate"} : pc' = [pc EXCEPT ![r] = At(s)]
  <2>1. CASE pc' = pc
    BY <1>1, <2>1 DEF JInv, IInv, HostTyped
  <2>2. CASE pc' = [pc EXCEPT ![r] = At("evaluate")]
    BY <2>2
  <2> QED
    BY <2>1, <2>2 DEF Read, ReadExcess, Goto
<1> QED
  BY <1>1, <1>2, <1>3, AtStep, NotOver, StaysSilent

LEMMA EvaluateServes ==
    ASSUME JInv, IInv', NEW r \in Runs, Evaluate(r)
    PROVE  JInv' /\ [Service!Next]_(Service!vars)
<1>1. /\ pc[r] = At("evaluate")
      /\ pc' = [pc EXCEPT ![r] = <<"create", "adapter.json">>]
      /\ UNCHANGED <<request, owner, worker, status, result>>
  BY DEF Evaluate, Goto, workVars
<1>2. PICK verified \in BOOLEAN, parsed \in BOOLEAN :
         /\ verified => status[r] = "0"
         /\ outcome' = [outcome EXCEPT ![r] =
               [exit |-> status[r], parsed |-> parsed,
                verified |-> verified, hash |-> hashed[r]]]
  BY DEF Evaluate
<1>3. Under(pc[r]) /\ worker[r] = "reaped"
  <2>1. worker[r] = "reaped"
    BY <1>1, OnWorker DEF JInv, Recording
  <2> QED
    BY <1>1, <2>1, NotOver, StepNames
<1>4. /\ <<"create", "adapter.json">> \in Places
      /\ Under(<<"create", "adapter.json">>)
      /\ <<"create", "adapter.json">> \notin {At("pid"), At("wait")}
  <2>1. "adapter.json" \in Created /\ "adapter.json" \in Receipts
    BY DEF Created, Receipts
  <2> QED
    BY <2>1, AtReceipt, NotOver
<1>5. /\ pc'[r] = <<"create", "adapter.json">>
      /\ \A s \in Runs \ {r} : pc'[s] = pc[s]
  BY <1>1, <1>4, Moved DEF JInv, IInv
<1>6. /\ DOMAIN outcome' = Runs
      /\ outcome'[r].verified = verified
      /\ \A s \in Runs \ {r} : outcome'[s] = outcome[s]
  BY <1>2 DEF JInv
<1>7. Alone(r)
  BY <1>1, <1>5, <1>6 DEF Alone
<1>8. result[r] = "none"
  BY <1>3 DEF JInv, Tracked, Under
<1>9. Tracked(r)'
  BY <1>1, <1>2, <1>3, <1>4, <1>5, <1>6, <1>8 DEF Tracked
<1>10. ServiceEnd(r) = "none" /\ ServiceEnd(r)' = "none"
  <2>1. ServiceEnd(r) = "none"
    BY <1>3, EndOpen
  <2> QED
    BY <1>1, <1>4, <1>5, <1>8, <2>1 DEF ServiceEnd, ExitCode, Under
<1>11. ServiceWorker(r)' = ServiceWorker(r)
  BY <1>1 DEF ServiceWorker
<1>12. JInv'
  BY <1>1, <1>6, <1>7, <1>9, Holds DEF JInv
<1> QED
  BY <1>1, <1>7, <1>10, <1>11, <1>12, Silent

LEMMA FailServes ==
    ASSUME JInv, IInv', NEW r \in Runs, Fail(r)
    PROVE  JInv' /\ [Service!Next]_(Service!vars)
<1>1. UNCHANGED <<request, owner, worker, status, outcome>>
  BY DEF Fail, workVars, hostVars
<1>2. CASE pc[r] = At("wait") /\ Return(r, "WaitFailed")
  <2>1. Under(pc[r])
    BY <1>2, NotOver, StepNames
  <2>2. worker[r] # "none"
    BY <1>2 DEF JInv, Tracked
  <2>3. "WaitFailed" \in Results \ {"none"}
    BY DEF Results
  <2> QED
    BY <1>1, <1>2, <2>1, <2>2, <2>3, Comes
<1>3. CASE pc[r][1] \in {"create_dir", "create", "write", "read"}
           /\ \E err \in {"Io", "Json"} : Return(r, err)
  <2>1. PICK err \in {"Io", "Json"} : Return(r, err)
    BY <1>3
  <2>2. BeforeWorker(pc[r]) \/ AfterWorker(pc[r])
    BY <1>3 DEF BeforeWorker, AfterWorker
  <2>3. worker[r] \in {"none", "reaped"}
    BY <2>2 DEF JInv, IInv, Good, Phase
  <2>4. Under(pc[r])
    <3>1. At("returned")[1] = "returned" /\ At("died")[1] = "died"
      BY DEF At
    <3> QED
      BY <1>3, <3>1 DEF Under
  <2>5. err \in Results \ {"none"}
    BY DEF Results
  <2> QED
    BY <1>1, <2>1, <2>3, <2>4, <2>5, Comes
<1> QED
  BY <1>2, <1>3 DEF Fail

LEMMA DieServes ==
    ASSUME JInv, IInv', NEW r \in Runs, Die(r)
    PROVE  JInv' /\ [Service!Next]_(Service!vars)
<1>1. UNCHANGED <<request, owner, worker, status, outcome, result>>
  BY DEF Die, workVars, hostVars
<1>2. Under(pc[r]) /\ pc' = [pc EXCEPT ![r] = At("died")]
  BY DEF Die, Under
<1>3. At("died") \in Places
  BY AtStep, StepNames
<1>4. pc'[r] = At("died") /\ \A s \in Runs \ {r} : pc'[s] = pc[s]
  BY <1>2, <1>3, Moved DEF JInv, IInv
<1>5. Alone(r)
  BY <1>1, <1>4 DEF Alone
<1>6. Tracked(r)'
  <2>1. At("died") \notin {At("pid"), At("wait")}
    BY DEF At
  <2>2. result[r] = "none"
    BY <1>2 DEF JInv, Tracked, Under
  <2>3. outcome[r].verified => worker[r] = "reaped" /\ status[r] = "0"
    BY DEF JInv, Tracked
  <2>4. outcome'[r].verified => worker'[r] = "reaped" /\ status'[r] = "0"
    BY <1>1, <2>3
  <2> QED
    BY <1>1, <1>4, <2>1, <2>2, <2>4 DEF Tracked
<1>7. ServiceEnd(r) = "none" /\ ServiceEnd(r)' = "died"
  BY <1>2, <1>4, EndOpen DEF ServiceEnd
<1>8. ServiceWorker(r)' = ServiceWorker(r)
  BY <1>1 DEF ServiceWorker
<1> QED
  BY <1>1, <1>5, <1>6, <1>7, <1>8, Holds, Finishes DEF JInv

-----------------------------------------------------------------------------
(* The steps of the workers.                                               *)

LEMMA WorkerServes ==
    ASSUME JInv, IInv', NEW r \in Runs, WorkerPrints(r) \/ Linger(r)
    PROVE  JInv' /\ [Service!Next]_(Service!vars)
<1>1. UNCHANGED <<pc, request, owner, worker, status, outcome, result>>
  BY DEF WorkerPrints, Linger, Emit, hostVars
<1>2. Alone(r)
  BY <1>1 DEF Alone
<1>3. Tracked(r)'
  BY <1>1 DEF JInv, Tracked
<1>4. ServiceWorker(r)' = ServiceWorker(r) /\ ServiceEnd(r)' = ServiceEnd(r)
  BY <1>1 DEF ServiceWorker, ServiceEnd, ExitCode
<1> QED
  BY <1>1, <1>2, <1>3, <1>4, Holds, Silent DEF JInv

LEMMA ExitServes ==
    ASSUME JInv, IInv', NEW r \in Runs, Exit(r)
    PROVE  JInv' /\ [Service!Next]_(Service!vars)
<1>1. /\ worker[r] = "running"
      /\ worker' = [worker EXCEPT ![r] = "exited"]
      /\ UNCHANGED <<pc, request, owner, outcome, result>>
  BY DEF Exit, hostVars
<1>2. PICK code \in Exits : status' = [status EXCEPT ![r] = code]
  BY DEF Exit
<1>3. worker'[r] = "exited" /\ \A s \in Runs \ {r} : worker'[s] = worker[s]
  BY <1>1 DEF JInv, IInv, HostTyped
<1>4. /\ status' \in [Runs -> Exits \cup {"none"}]
      /\ \A s \in Runs \ {r} : status'[s] = status[s]
  BY <1>2 DEF JInv
<1>5. Alone(r)
  BY <1>1, <1>3, <1>4 DEF Alone
<1>6. Tracked(r)'
  BY <1>1, <1>3 DEF JInv, Tracked
<1>7. /\ ServiceWorker(r) = "running"
      /\ ServiceWorker(r)' \in {"succeeded", "failed"}
  BY <1>1, <1>3 DEF ServiceWorker
<1>8. ServiceEnd(r)' = ServiceEnd(r)
  BY <1>1 DEF ServiceEnd, ExitCode
<1> QED
  BY <1>1, <1>4, <1>5, <1>6, <1>7, <1>8, Holds, Ends DEF JInv

-----------------------------------------------------------------------------
(* The theorem.                                                            *)

LEMMA ServiceInit == Init => JInv /\ Service!Init
<1> SUFFICES ASSUME Init PROVE JInv /\ Service!Init
  OBVIOUS
<1>1. IInv
  BY InitHolds
<1>2. ASSUME NEW r \in Runs
      PROVE  /\ Tracked(r)
             /\ Dir(r) \in Dirs
             /\ ServiceWorker(r) = "none"
             /\ ServiceEnd(r) = "none"
  <2>1. /\ pc[r] = At("invocation") /\ worker[r] = "none"
        /\ result[r] = "none" /\ ~outcome[r].verified
    BY DEF Init, NoOutcome
  <2>2. At("invocation") \notin {At("pid"), At("wait"), At("died")}
    BY DEF At
  <2>3. Dir(r) \in Dirs
    BY <1>1, DirTyped DEF IInv
  <2> QED
    BY <2>1, <2>2, <2>3 DEF Tracked, ServiceWorker, ServiceEnd, ExitCode
<1>3. /\ status \in [Runs -> Exits \cup {"none"}]
      /\ DOMAIN outcome = Runs
  BY DEF Init
<1>4. Service!Init
  BY <1>2 DEF Service!Init, Init
<1> QED
  BY <1>1, <1>2, <1>3, <1>4 DEF JInv

LEMMA ServiceNext ==
    JInv /\ [Next]_vars => JInv' /\ [Service!Next]_(Service!vars)
<1> SUFFICES ASSUME JInv, [Next]_vars
             PROVE  JInv' /\ [Service!Next]_(Service!vars)
  OBVIOUS
<1>1. IInv'
  BY NextHolds DEF JInv
<1>2. CASE UNCHANGED vars
  <2>1. UNCHANGED <<pc, request, owner, worker, status, outcome, result>>
    BY <1>2 DEF vars, workVars, hostVars
  <2>2. \A r \in Runs : Tracked(r)'
    BY <2>1 DEF JInv, Tracked
  <2>3. \A r \in Runs : /\ Dir(r)' = Dir(r)
                       /\ ServiceWorker(r)' = ServiceWorker(r)
                       /\ ServiceEnd(r)' = ServiceEnd(r)
    BY <2>1 DEF Dir, ServiceWorker, ServiceEnd, ExitCode
  <2>4. UNCHANGED Service!vars
    BY <2>1, <2>3 DEF Service!vars
  <2> QED
    BY <1>1, <2>1, <2>2, <2>4 DEF JInv
<1>3. CASE Next
  <2>1. PICK r \in Runs : \/ Step(r) \/ Fail(r) \/ Die(r)
                          \/ WorkerPrints(r) \/ Linger(r) \/ Exit(r)
    BY <1>3 DEF Next
  <2>2. CASE Step(r)
    BY <1>1, <2>2, InvokeServes, CreateDirServes, CreateServes, WriteServes,
       SpawnServes, RecordPidServes, WaitServes, ReadServes, EvaluateServes
       DEF Step
  <2> QED
    BY <1>1, <2>1, <2>2, FailServes, DieServes, WorkerServes, ExitServes
<1> QED
  BY <1>2, <1>3

\* The safety part of ImplementsService, for every number of runs and
\* directories: runs given one directory start at most one worker between
\* them, and exit code zero follows only a worker that ended with success.
THEOREM ServesSafely == Spec => Service!Safety
BY ServiceInit, ServiceNext, PTL DEF Spec, Service!Safety
=============================================================================
