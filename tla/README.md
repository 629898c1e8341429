# Nextcore APLS: TLA+ models, checks and proofs

APLS carries requests of VSK service cells to a software GPU and starts guest
workers on a host. This directory specifies its logic in TLA+, checks small
instances with TLC and proves the most important results for every value of
the constants with TLAPS. Paths such as `sgpu.rs:225` are files of the
repository's `src/` directory.

## 1. The system

| Part | State | Operations | Talks to |
|---|---|---|---|
| Envelope (`vf_abi.rs`) | none: a 64-byte header | encode, decode, `validate_shape`, `payload_end` | everything below |
| Inline frame (`sgpu.rs:107-171`) | none: header + payload | `validate`, `try_to_wire`, `to_wire`, `from_wire` | the transport, the SGPU session |
| Capability record (`sgpu.rs:48-97`) | none: 40 bytes with gaps | `SgpuCaps::encode`, `decode` | the session, its peer |
| SGPU session (`sgpu.rs:174-324`) | resource table, handle counter, the virtual device | `dispatch`: QUERY_CAPS, CREATE, DESTROY, SUBMIT, PRESENT | the device (`nextcore_gpu`, external), its owner through the public field `device` |
| Grant policy (`sgpu_grant.rs:73-231`) | none: header and the root's table | `validate_grant_header`, `validate_payload_grant`, `payload_window`, `inline_to_grant` | the root's table |
| Grant session (`sgpu_grant.rs:233-327`) | bound cell and endpoint, the compute session | `new`, `submit`, `to_inline` | trusted root, guest cells, compute executor (all external) |
| Host runner (`runner.rs:194-472`) | a receipt directory, a worker process | `invocation`, `run` | the file system, a Python worker |
| Evidence evaluators (`runner.rs:474-839`) | none: a report | `evaluate_report`, `evaluate_recovery_report` | the runner |
| Host run command (`examples/run_host.rs`) | none | exit code from what `run` returns | the runner |
| Grant validation program (`examples/sgpu_grant_vulkan.rs`) | two device buffers, counters | two runs with readback, nine altered messages, a receipt | the grant session, a compute device (external) |
| Guest plan (`guest.rs:24-183`) | a plan | `GuestSpec`, the builder, `encode`, `decode` | callers of the crate |
| Backends and boot mode (`guest.rs:185-311`, `mode.rs`) | the handle of a framework image | `current_backend`, `probe`, `Drop`, `mode::probe` | the dynamic loader (external) |
| VSK policy (`vf_policy.rs`) | a parsed plist | `from_plist_bytes`, `required_features_present`, `range_check` | configuration |

`validation/` (recorded receipts) and `research/` (snapshots of earlier trees)
hold no logic that a build target uses.

### What is hard

* **Widths and offsets.** A frame is described by three lengths and an offset
  chosen by the sender. `frame_layout` has ten early returns; `from_wire` and
  `validate` reach the same verdict by different code, and `to_wire` panics if
  they ever differ.
* **Partial failure.** `destroy_resource` forgets the handle and then calls a
  free that may fail. `submit` translates a whole list before the device sees
  it, and the device may refuse it half-way.
* **Reuse.** Client handles are never reused, device handles are. Grant slots
  are reused under a new generation while messages that name the old one are
  still under way.
* **Stale authority.** Messages are delayed and repeated across revocation,
  expiry and reuse. The adapter must judge them by the root's table and clock at
  the time of the call, and may read only the root's copy of the bytes, because
  cells write the shared memory at any time.
* **Limits.** Count, byte, command and table limits, and the end of the handle
  counter.
* **Crashes and failing calls.** A host run leaves a trail of receipts. Any of
  its system calls may fail, it may die between any two of them, and it may be
  repeated on the same directory, while the worker it started lives on.
* **Evidence.** A boot counts as verified on the word of some thirty keys, two
  marker lists and a process inventory in a file the worker wrote. The order of
  markers, reuse of process ids and the choice between two observations decide.

* **Shared images.** Every Apple backend opens the framework of its own and
  closes it when dropped; threads that probe, keep and drop backends share one
  reference count, while the framework on disk may be replaced.
* **Evidence of work.** The validation program's receipt claims that a device
  did what it was told, twice; its second run starts from buffers that still
  hold the results of the first.

The `hazards` of `PROJECT.json` list these at their lines with the properties
that would notice.

## 2. The modules

```
VfFrame ──┬── SgpuWire ──── MCSgpuWire      Codecs_proof
          ├── SgpuSession ─ MCSgpuSession   SgpuSession_proof
          │       └ implements SgpuService
          └── GrantPolicy ┬ GrantSession ── MCGrantSession  Grant_proof
                          └ GrantVulkan ─── MCGrantVulkan   Grant_proof
SgpuCaps ── MCSgpuCaps                       Codecs_proof

RunnerRequest ── HostRunner ── MCHostRunner          HostRunner_proof
                   └ implements RunnerService
EvidenceMarkers ─┬── BootEvidence ────── MCBootEvidence      BootEvidence_proof
                 └── RecoveryEvidence ── MCRecoveryEvidence  RecoveryEvidence_proof
GuestPlan ── MCGuestPlan                             Codecs_proof
GuestBackend ── MCGuestBackend                       GuestBackend_proof
VskPolicy ── MCVskPolicy (two configurations)        VskPolicy_proof
```

**VfFrame** holds the envelope and the inline frame as operators. The wire is a
sequence of *cells*: a header field is one cell, so the header has 13 cells
(`MsgBytes`) instead of 64 bytes, and a body cell is one unit of payload. Every
length is counted in cells. `PayloadMax`, `U32Max`, `U64Max` and `UsizeMax` are
constants with the one assumption the code's own constants satisfy, and each
checked addition of the code is compared with the maximum of its type.
Operators named `...Error` return `"ok"` or the error kind, in the order of the
code's early returns; the texts inside `Eabi` are left out. `u16` and `u32`
fields share one range. Allocation failure (`try_reserve_exact`) is left out.

**SgpuWire** sends one frame through a transport that may cut, extend or
rewrite the bytes (at most `MaxDamage` times), decodes it and relays it with
`to_wire`. `stage = "panic"` is the `expect` of `sgpu.rs:118`.

**SgpuSession** has one action per arm of `dispatch`, plus one for frames that
do not validate, one for unknown opcodes, and `HostWrite` for the owner of the
public `device` field. `dispatch` takes `&mut self`, so a request is one step.
`resources`, `next_resource_id` are the fields of the struct; `memory` is the
device's table of buffers; `request` and `reply` record the last call. A 64-bit
operand is one cell, so `payload.len() != 8` is `Len(payload) # 1`. A command
of a list is one cell, and `DecodesToList` is the codec of `nextcore_gpu`.
The device is external: it gives out any free handle, `free` may fail and
then keeps the buffer, a command other than a copy rejects the whole list (as
the repository's tests expect of RenderClear, ComputeDispatch and Present), and
a copy out of bounds fails after any part of the list before it. QUERY_CAPS
answers with one opaque cell.

**SgpuCaps** is the record QUERY_CAPS answers with, byte by byte: `EncodeCaps`
writes it with its gaps, a transport changes one byte, cuts or extends it, and
`DecodeCaps` reads it. `Byte` stands for 256; a field has as many bytes as in the
code. Digits are written by repeated division and read by Horner's rule, both as
recursive functions.

**SgpuService** is what the session promises, without device handles, tables or
frames: a request is what the client means by it, and buffers under never-reused
handles change only by the copies clients ask for, in order, and by the host. A
list that holds a command other than a copy has no effect at all.
`ImplementsService` is the refinement; its mapping reads the request from the
frame (`Asked`) and the buffers through the resource table.

**GrantPolicy** translates the pure part of `sgpu_grant.rs`. A handle is
`generation * SlotSpan + slot`; rights are sets, with every element outside
`AllRights` a reserved bit; payload offsets are multiples of `Align`. The constructor's check (`NewError`) and `authorize` (`AuthorizeError`,
`AuthorizedPayload`) are here too, since two modules call them.

**GrantVulkan** is the validation program: it builds a grant, a snapshot and a
message of one copy and two dispatches, submits it through the adapter's
`AuthorizeError`, runs it on a device command by command, reads the buffers
back, does so a second time over new input, sends the nine altered messages and
prints the receipt. The device may report a failure behind a prefix, and may do
a command in part or not at all and count it as complete: the ghosts `copied`
and `dispatched` record what it did to each word, and the receipt has to be true
of them. A workgroup is one word, and words have `WordSpan` values. `x ^ 0xff00`
is written as arithmetic (`Flipped`): the second byte becomes its complement.

**GrantSession** puts the adapter between cells and a root. Adapter actions are
`Submit` and `ToInline` (each with the refusals of `authorize`) and the
constructor's check. The root and the cells are external and do what
`SGPU_GRANT_TRANSPORT.md` and `tests/sgpu_grant.rs` have them do. The root
grants, revokes a capability or a whole grant, removes dead entries, reuses a
slot with the next generation, and keeps the table lock from `RootCall` (its
snapshot of table, bytes and clock) to `RootUnlock`. Time and the cells'
memory move on under the lock. Cells turn frames into messages with
`inline_to_grant`, overwrite the memory behind them, invent headers. A message
stays under way until it is dropped, so it is delivered late, often and across
every change of the root. Each cell has one slot, so that every new
capability reuses it.

**RunnerRequest** is the part of `invocation` that decides. Ranges that are
tested alone (`memory_mib`, `smp`, the form of paths) are one boolean each; the
durations are numbers, because the budget check adds two of them in a `u32`.

**HostRunner** is `run`, from `invocation` to `adapter.json`. `pc[r]` is a step
and the receipt it is about; each system call is one action (`Create` is
`create_new`, `Write` the serialisation and the writes behind it), `Fail` is
its error, which `?` returns, and `Die` the end of the host process at any
point. A write that fails or is interrupted leaves an incomplete file
(`whole = FALSE`). Crashes are of the process, not of the machine, so what was
written stays. A failed `wait` is told apart (`WaitFailed`) from the other I/O
errors, which the code does not do, because only it leaves a worker behind.
Several runs share a directory; a retry after a crash is one of them. The
worker prints a document unit by unit or anything else, exits with any status,
and may leave a process behind that prints on (`Linger`). What the report says
is left open here: `Evaluate` picks any verdict that the exit status and the
parse allow. Output has no end in the model either: `report` has its first
`MaxReport` units, which are more than both limits retain, and `excess` whether
anything is behind them that was not read yet. Printing there sets it
(`Emit`), a turn of the reading loop resets it (`ReadExcess`), and the loop ends
only when a read returns nothing (`AtEnd`), so a descendant that goes on printing
keeps `run` in `read_report` for ever, as it does in the code
(`runner.rs:450-458`). What is behind the first units is not part of `hashed`.

**RunnerService** is what callers of `run` see, without receipts, reports and
system calls: who has a directory, its one worker, and the exit code, which
`examples/run_host.rs` derives (`ExitCode`: zero only for a verified outcome).
A directory starts at most one worker in its life, exit code 0 follows only a
worker that ended with success, and a call whose worker ends is answered
(`Answers`). `HostRunner!ImplementsService` is the refinement: safety without a
condition, and `Answers` for each call whose worker's output ends.

**EvidenceMarkers, BootEvidence, RecoveryEvidence** are `evaluate_report` and
`evaluate_recovery_report`. A report is a set of *facts* (the keys whose value
is what the evaluator asks for), the marker lists, and the numbers it compares.
The state is a report that starts complete and departs from full evidence one
value at a time, at most `MaxChanges` times: keys withdrawn, errors recorded,
markers added or taken away, with or without label and position, process
records repeated, versions and paths changed, output cut. The two evaluators
differ, and the modules keep the difference: the raw one orders userspace
behind the first kernel marker of any major version, the recovery one behind
the first of the target's. The raw one says "evidence incomplete" also when
only the exit status is not zero. Withdrawing evidence can never make a raw
report verify; for a recovery receipt it can, since a kernel marker before the
prompt or a second record of the process id stands in the way of verification
until it is withdrawn, so that property is stated for raw reports only.

**GuestPlan** is the plan: `GuestSpec::validate`, the builder (with its public
`spec`, which a caller may write over) and the codec, over cells (an integer or
a byte of a string is one cell). The casts of lengths and counts to `u32` are
`% LenSpan`. The loops of `decode` are recursive functions from the number of
turns to the reader behind them. The buffer to decode is either anything, grown
cell by cell, or the encoding of a plan that was built. `PlanAssumption` says
that a length comes from four bytes: a cell is below `LenSpan`, or the buffer is
too short to hold what a larger cell announces.

**GuestBackend** has several threads call `current_backend` and `mode::probe`.
Each call of the dynamic loader is a step: `Select` opens the framework (or
takes the backend that only refuses), `Resolve` looks up the class,
`CloseMissing` closes a framework without it, `Drop` closes a backend's handle,
and `Replace` changes the framework on disk between any two. `image` is the
framework in memory with its references.

**VskPolicy** takes a configuration, edited key by key from the template of the
repository's tests (keys removed, invented, given another value or one of a wrong
type), through the checks of `from_plist_bytes` in their order, and its policy
through `required_features_present`. `RangeCheck` is `VfGrant::range_check`.

## 3. What the runs check

| Run | Instance | Size |
|---|---|---|
| `wire` | payloads up to 2 cells, u64 up to 18, headers at every boundary of length and offset (wrapping ones included), one change of the bytes anywhere | 2 480 states |
| `session` | 2 live resources of at most 2 bytes, 3 bytes in total, 3 handles before exhaustion, 3 symmetric device handles, lists of 0 to 3 commands where 2 are allowed | 29 137 states |
| `grant` | 2 cells, 2 symmetric objects of 4 bytes, 2 generations, 2 table entries, time 0 and 1, windows from offset 0 and 2 | 2.7 million states |
| `grant_vulkan` | 4 workgroups, words of 16 bits | 50 541 states |
| `caps` | bytes of 5 values, sizes and counts that are zero, one digit or largest, one byte changed, cut or added | 39 552 states |
| `runner` | 2 runs given 1 directory, 8 requests (3 accepted, 5 refused at a boundary each), documents of 2 units, limits of 2 and 3, output without end of which 4 units are told apart | 395 956 states |
| `boot_evidence` | 2 backends, 2 targets and a foreign major, 3 positions, up to 2 departures | 46 514 states |
| `recovery_evidence` | 2 targets, 2 outputs, 2 process ids, 3 positions, 2 observations, up to 2 departures | 135 648 states |
| `plan` | all buffers of up to 11 cells of 3 values, one of them no UTF-8; plans of up to 2 pairs and devices from 4 strings, one too long for its length field | 361 543 states |
| `guest_backend` | 3 symmetric threads, 3 targets, 3 kinds of framework | 135 381 states |
| `policy_admission` | the template with up to 2 edits, all sets of features | 1 967 states |
| `policy` | the same | violated at the first edit |

* `wire`: a decoded frame never reaches the panic (`DecodedNeverPanics`);
  undamaged transfers arrive unchanged with fields the profile does not use,
  damaged ones are refused or carry exactly what they declare, and a relay keeps
  the frame (`RoundTrip`, its three parts); and the
  ten checks accept precisely the frames of a definition that does not mention
  any intermediate result (`AcceptsExactly`). The run stops after one transfer,
  hence no deadlock check.
* `session`: live handles have private buffers of their size
  (`PrivateBacking`); limits hold and the counter does not wrap
  (`WithinBudget`); replies are frames `from_wire` accepts and answer their
  request (`ReplyWellFormed`); handles are not reused (`HandleNeverReused`);
  errors found before the device is involved leave no trace
  (`FailureIsClean`); memory is lost only by a destroy whose free failed, whose
  handle is dead by then (`OrphanOnlyByFailedFree`); and the session implements
  its service, in which a list with an unsupported command has no effect
  (`ImplementsService`).
* `grant`: bytes leave the adapter only under authority in force in the root's
  own table at that moment (`OnlyCurrentAuthority`), from the object the cell
  meant (`NoStaleHandle`), exactly the declared ones of the snapshot
  (`DeliveredBytes`); a conversion gives the cell's request back, and the result
  is worth nothing as authority (`ConversionKeepsRequest`); and a message that is in order is not refused
  (`LiveMessageServed`).
* `grant_vulkan`: a receipt is true of the device, whatever part of its work that
  left out (`ReceiptHonest`), and the program fails only if the device did, so
  every altered message is refused before the device and the unaltered one
  is not (`NoFalseAlarm`). The program ends, hence no deadlock check.
* `caps`: a field is read as it was sent whenever its own bytes arrived, so a
  byte that changes disturbs the one field it is of, and a byte of a gap none;
  what was read is written and read as the same record (`FieldsApart`). One
  transfer, hence no deadlock check.
* `runner`: all receipts of a directory come from the run that created it
  (`OwnReceipts`); a worker runs only behind complete records of request and
  command (`RecordedBeforeStart`); no return while the worker lives, unless
  `wait` fails (`NeverDetaches`); verdict and hash are of the same bytes, on
  disk and within the limit (`VerdictOfHashedBytes`); a returned outcome is on
  record with everything before it (`OutcomeOnRecord`); the budget addition
  never overflows and a started recovery worker fits its deadline
  (`WithinDeadline`); once the worker has ended, and if what it left behind
  stops printing, `run` ends (`ReturnsAfterWorker`); and seen from outside the
  runs are `RunnerService`, with its liveness under the same condition
  (`ImplementsService`).
* `boot_evidence`: a report counts for one request only (`CountsForOneRequest`);
  the comparison of minima finds a userspace marker behind a kernel marker
  exactly if there is one (`UserspaceBehindKernel`); less evidence never
  verifies (`LessNeverVerifies`).
* `recovery_evidence`: a receipt counts for one request only
  (`CountsForOneRequest`); a verified boot has its stages in order within one
  observation (`CausalChain`); a second record of the process id revokes the
  runtime (`SecondSightingRevokes`); every required key counts and every
  objection vetoes (`EveryPartCounts`; process ids, majors and markers are not
  keys, and are the matter of the others); the reason given is the first missing
  one of the eight layers, in their order (`ReasonIsFirstFailure`).
* `plan`: a buffer that decodes is the encoding of its plan (`Canonical`), and a
  plan that was built comes back from its encoding, unless a length does not fit
  its cast; one whose public `spec` was written over with values `new` refuses
  is refused by the decoder (`BuiltPlanDecodes`).
* `guest_backend`: the framework's image has one reference for every probe under
  way and every backend alive (`OneReferenceEach`), so no path leaks it or takes
  it from another thread; `mode::probe` says a backend is available only while
  the class is resolved in a loaded image (`AvailableOnlyIfResolved`).
* `policy_admission`: to require one more feature never admits a cell that was
  not admitted, nor makes a file unacceptable (`RequirementsOnlyRestrict`).
* `policy` shows a disagreement. The comments on `PolicyError`
  (`vf_policy.rs:7-10`) and `from_plist_bytes` (`vf_policy.rs:229-230`) promise
  that weakened security settings are rejected; the code takes a missing or
  false `VMXRequired`, `EPTRequired` or `InterruptRemappingRequired` as "not
  required" and goes on (`NoSecurityDowngrade`). `IOMMURequired` is stored but
  `required_features_present` has no parameter to check it against, so the
  property leaves it out. `boot_authorized` is false in any case.

Why the bounds are enough: the layout depends on each length only through
comparisons with `PayloadMax`, `MsgBytes` and the widths, and the headers lie on
both sides of each. Two resources with a budget of three bytes reach the count
limit without the byte limit and the other way round; three handles with two
slots need destruction and device-handle reuse before exhaustion. Two
generations and two entries give revocation, reuse, ambiguity between a dead
and a live entry, and both orders of every race with a delivery. Two runs
suffice for the directory: a third meets what the second meets, an existing
directory. The table has two entries where the adapter takes four
(`TableMax`): that a longer table is refused whole is in the model, but reached
by the theorems only. Three threads give a drop and a probe around a backend that
lives. Five values of a byte are enough to tell the enumerated fields apart,
and the sizes chosen have one low digit, one high digit, or all at their largest. Four units of a report are one more than the larger limit: what is behind them is
never retained, so it does not matter what it is. Two
departures from full evidence reach every pair of missing or contradictory
keys, which is where the order of checks shows; verdicts are conjunctions.

Fairness is assumed for `run` only: `WF_vars(Step(r))` for each run, since it is
straight-line code of a live process that waits for nothing but its worker.
`Fail`, `Die` and everything workers do are not fair: no worker has to end, and
`ReturnsAfterWorker` is about workers that did. Nor does anything make output
end. That it does is a premise of the two liveness properties
(`OutputEnds(r)`: from some time on no step is `Linger(r)`), because the code
does not ensure it: without the premise TLC finds the run in which each read
is followed by a print. The other components are
synchronous calls that return, and what environment and client do next is
theirs to decide, so no liveness is claimed there.

Each property of a passing run has a mutant in `PROJECT.json`: a definition changed as a
plausible bug would change it, under which the run finds the property violated.
They stand next to the definition they replace, named after it.

## 4. What is proved

For all values of the constants, from the assumptions the modules name
(`WidthAssumption`, `FramesAssumption`, `SessionAssumption`, the two
`PolicyAssumption`s of `GrantPolicy` and `VskPolicy`, `RootAssumption`,
`RequestAssumption`, `RunnerAssumption`, `CallersAssumption`,
`MarkersAssumption`, `PlanAssumption`, `VulkanAssumption`), which the runs evaluate. Besides ranges and finiteness
they say that a reply of one cell fits the profile and a `usize`, that a cell
which is a command has a kind and unsigned operands (`SessionAssumption`), and
that objects are no longer than a `usize` can say (`RootAssumption`).

`Codecs_proof`, of the frame:
* `LayoutExact`: `frame_layout` accepts exactly `GoodLayout`.
* `FrameRoundTrip`: a frame that validates decodes from its own encoding to
  itself.
* `RelayNeverPanics`: `Spec => []DecodedNeverPanics`, for any number of changes
  to the bytes.
* `TransferFaithful`: `Spec => []RoundTrip`, with its parts on damage and
  relaying.
* `SendExact`: `Spec => []AcceptsExactly`, from `LayoutExact` and what holds
  between the stages.

The invariant is not inductive as it stands: it is strengthened with what holds
between the stages, that an undamaged transfer in flight is the encoding of a
frame that validates, and that a received frame is the decoding of a wire that
`from_wire` accepts. Lemma `AcceptedWire` is the heart: acceptance by
`from_wire` implies `ValidateError = "ok"`.

`Codecs_proof`, of the capability record:
* `CapsApartAlways`: `CapsSpec => []FieldsApart` with the widths of the code
  (hypothesis `CodeWidths`: bytes of 256 values, sizes below 2^64, counts below
  2^32). `Recursion` shows that the recursive functions of both
  directions exist, by a least counterexample; `Onward` is the induction along
  0..n that the lemmas about digits use: a number below `Byte^k` has `k` digits
  that give it back, and digits that differ give different numbers. The
  invariant says of the bytes under way only that they are bytes: the theorem
  holds however many of them differ from the encoding.

`Codecs_proof`, of the launch plan, from `PlanAssumption` alone:
* `CanonicalAlways`: `PlanSpec => []Canonical`: a buffer that decodes is the encoding
  of its plan, for any number of pairs and devices.
* `BuiltPlanAlwaysDecodes`: `PlanSpec => []BuiltPlanDecodes`: what the builder makes
  comes back from its encoding.

Both directions go through one predicate, `Holds(b, p, e)`: the cells `e` follow
position `p` of `b`. `CellsTaken` and `StringTaken` say what one reader finds and
that it finds what is there. For the loops, `OneMoreFound` carries "what was read so
far is held" over one more item and `LoopTakes` the converse; both serve pairs
and devices. `FlattenSeq` of the library is defined by `CHOOSE` over a recursive
function, so `FlatChain` first shows which function that is. `WholeHeld` puts
the six parts of a plan behind each other, `EncodeCells` says that the casts keep
every length of a plan that fits, and `Limited` that every plan read from a
buffer fits. The invariants are `BufferInv` and `BuiltInv` (`Sound`): cells, and
plans whose strings are UTF-8 and whose disk has a name.

`SgpuSession_proof`:
* `TypeCorrect`, `BackingIsPrivate`, `BudgetHolds`: the three state invariants.
  Their conjunction is inductive together with the facts that the table is
  finite and that every live handle is below the counter: a new handle is then
  new, and a new device handle is in no entry because entries point into
  `memory`.
* `HandlesRetire`: `Spec => HandleNeverReused`, from the bound on live handles.
* `CleanFailure`: `Spec => FailureIsClean`.
* `RepliesWellFormed`: `Spec => []ReplyWellFormed`, one lemma for the closure
  that makes replies and one for the opcodes.
* `OrphansByFailedFree`: `Spec => OrphanOnlyByFailedFree`, one lemma per arm of
  `dispatch`; only in the arm of DESTROY does the set of backed buffers shrink
  while `memory` does not.
* `SessionServes`: `Spec => ImplementsService`, the refinement of `SgpuService`,
  for lists of any length. Both sides run a list by a recursive function over
  its positions. `RunExists` shows that such a function exists: were there a
  length for which it does not, there would be a least one, and its predecessor
  could be extended. `Match` says that the client's buffers, read through the
  table, are those of the device; `CopyMatch` that one copy keeps it, because
  backing is private, so the write to one device buffer is seen through one
  handle; `RunsMatch` carries it to the end of a list, again by a least
  counterexample. A list refused half-way leaves the buffers of one of its
  prefixes on both sides. The invariant of the proof adds `Filled`, that a
  buffer is a sequence of bytes. Each arm of `dispatch` then is a lemma that
  names the abstract action it is.

`HostRunner_proof`:
* `ReceiptsOwned`, `StartRecorded`, `WorkerAwaited`, `DeadlineFits`:
  `OwnReceipts`, `RecordedBeforeStart`, `NeverDetaches` and `WithinDeadline`
  hold for any number of runs, directories and requests. The invariant `IInv` adds
  that a run past `create_dir` owns its directory (`Claimed`), what each place
  says of the records before it (`Recorded`) and of the worker (`Phase`), and
  that no run past the checks has a request they refuse (`Permitted`).
  `OthersStay` is the heart: a step of one run changes files only in a
  directory it owns, so it cannot disturb the claims of another; a directory is
  taken only when nobody owns it. Each action then is a lemma about its own run.
* `OutcomeRecorded`: `Spec => []OutcomeOnRecord`. `RInv`, which stands on `IInv`,
  has the order of receipts: what is complete at each place (`Filed`), and that
  nothing is in a directory nobody made (`Deeded`).
* `VerdictHashed`: `Spec => []VerdictOfHashedBytes`. `VInv`, on `IInv` too, says
  that what a run keeps of the report is a prefix of it (`Retained`), which stays
  true while descendants print, and that the verdict is of what was kept
  (`Judged`).
* `RunnerTypes`: `Spec => []TypeOK`, from both and the type of `excess`.
* `BudgetFits`: the sum of duration and cleanup grace is evaluated only when it
  fits in a `u32`.
* `ServesSafely`: `Spec => Service!Safety`, so `HostRunner` implements the
  initial states and steps of `RunnerService` for any number of runs and
  directories. Each action of a run is a lemma that names the abstract action it
  is, or the stutter; the invariant (`JInv`) says what the step of a run tells of
  the exit code it will return.

`Grant_proof`, of the grant session:
* `AuthorityHolds`, `HandlesStayFresh`, `BytesExact`: `OnlyCurrentAuthority`,
  `NoStaleHandle` and `DeliveredBytes` hold for any number of cells, objects,
  entries and generations. Two halves make the invariant. Of the call
  (`CallInv`): under the lock the snapshots' entries are the table's, the message
  stays, and what is delivered is what the call's inputs authorize. Of the root
  (`RootInv`): a generation of a cell's slot is given out once (`GivenOut`,
  `Unshared`), and a message keeps meaning the object of the generation it names
  (`Meant`), which a later grant cannot disturb because its generation is new.
  `Subtable` covers revocation and removal at once: they leave only capabilities
  that were there.
* `ConversionKeeps`, `LiveServed`: `ConversionKeepsRequest` and
  `LiveMessageServed`. `AInv`, on top of that, says what a message under way has
  of the frame it was made from (`MessageInv`), that the root's copy is of the
  object's length (`Copied`), and that an answer is the verdict of `authorize`
  on the inputs of the call (`Answered`). `LiveMessageServed` asks for a table
  within `TableMax`: the adapter refuses a longer one whole, and a root that
  keeps too many entries locks every message out.

`Grant_proof`, of the validation program, for any number of workgroups and any
width of a word that is a multiple of 64:
* `ReceiptTrue`: `VulkanSpec => []ReceiptHonest`. The words themselves never need
  to be known. The indices of a run's input are multiples of 64 and the second
  byte is above that, so the input of run `r` is `7 + r` modulo 64 (`InputFresh`);
  a dispatch takes `x` to `3x + 7` modulo 64 (`KernelTurns`), and of everything a
  device can do to a word in a run, copied or not, dispatched not at all, once or
  twice, only the copy and both dispatches end where the readback looks
  (`OneWay`). The second run starts from 27, what the first left, and the same
  holds: this is what `71 + run` in the input is good for, and why the mutant
  that uploads the first input again is caught. `RunInv` says of each word which
  copies and dispatches it has had and what remainder that left it.
* `NoAlarmWithoutFailure`: `VulkanSpec => []NoFalseAlarm`. `ListFrame`,
  `ListAuthorized` and `ListNormalizes` take the program's own list through every
  check of the frame, the wire, the grant and the way back; `AlteredRefused` finds
  for each of the nine alterations the check that refuses it; and `HonestInv` says
  what the whole destination holds after each command of an honest device.

The hypotheses are those of `VulkanAssumption`: the message of the program fits the
profile, the table and the types, which `Align`, `SlotSpan` and the maxima of the
code meet.

`BootEvidence_proof` and `RecoveryEvidence_proof`, for logs, process records and
observations of any number and any number of departures:
* `OneRequestOnly` (one in each): `CountsForOneRequest`.
* `UserspaceExact`: `UserspaceBehindKernel`. `First` is a least element, so a
  comparison of two minima says that *some* marker lies behind *some* other.
* `MoreEvidenceNeeded`: `Spec => LessNeverVerifies`, since every part of the
  verdict is monotone in the report.
* `StagesInOrder`, `ReasonExact`: `CausalChain`, `ReasonIsFirstFailure` (all eight
  layers in their order, read off the outcome).
* `EveryPartNeeded`, `ReuseRevokes`: the action properties `EveryPartCounts` and
  `SecondSightingRevokes`.
The invariant of both is the type of the report (`TypeInv`): nothing else is
kept from one step to the next, and the work is in the evaluator's operators.

`GuestBackend_proof`:
* `ReferencesBalanced`: `Spec => []OneReferenceEach` for any number of threads.
* `ProbeTruthful`: `Spec => AvailableOnlyIfResolved`, from the same invariant.

`VskPolicy_proof`:
* `StricterRestricts`: `Spec => []RequirementsOnlyRestrict` for any number of
  edits.
* `RangeExact`: `range_check` accepts exactly the intervals that lie in the
  object, so its checked addition neither hides nor loses a case.

Only model-checked:
* `ReturnsAfterWorker` and the liveness half of `HostRunner!ImplementsService`:
  liveness under fairness is out of the prover's reach.

Every other property of a passing run is a theorem.

## 5. Plan

Done: every component of section 1, with the proofs of section 4. Next, in this
order:

1. `GrantAuthority`, an abstract specification of delivery under authority,
   as what `GrantSession` implements.
2. `HostRunner` with the evaluators in place of the free verdict of `Evaluate`.

## 6. What is not modelled

* Text and layout of errors, receipts and logs; hashes; allocation failure of
  the host.
* The GPU and the compute executor beyond what their callers rely on: the queue
  a failed flush may leave (`sgpu.rs:260`), and sizes a device reports that are
  not the requested ones (`sgpu.rs:218`), are assumed away.
* The Python workers, the command line assembled for them, and the reading of
  the request file by `run_host`. Of output behind the first `MaxReport` units
  neither content nor hash is modelled.
* `XstateDomain` (`guest.rs`): two mask tests on a value nothing changes.
* The 32-bit wrap of positions in the plan decoder (`guest.rs:141`), which a
  64-bit host cannot meet.
* `research/` and `validation/`: an older `runner.rs` that no target builds, and
  recorded results.

## 7. Running

```
tlc -workers 2 -config MCSgpuWire.cfg MCSgpuWire
tlc -workers 2 -config MCSgpuSession.cfg MCSgpuSession
tlc -workers 2 -config MCGrantSession.cfg MCGrantSession
tlc -workers 2 -config MCGrantVulkan.cfg MCGrantVulkan
tlc -workers 2 -config MCSgpuCaps.cfg MCSgpuCaps
tlc -workers 2 -config MCHostRunner.cfg MCHostRunner
tlc -workers 2 -config MCBootEvidence.cfg MCBootEvidence
tlc -workers 2 -config MCRecoveryEvidence.cfg MCRecoveryEvidence
tlc -workers 2 -config MCGuestPlan.cfg MCGuestPlan
tlc -workers 2 -config MCGuestBackend.cfg MCGuestBackend
tlc -workers 2 -config MCVskPolicyAdmission.cfg MCVskPolicy
tlc -workers 2 -config MCVskPolicy.cfg MCVskPolicy
tlapm HostRunner_proof.tla
tlapm Grant_proof.tla
tlapm GuestBackend_proof.tla
tlapm VskPolicy_proof.tla
tlapm Codecs_proof.tla
tlapm SgpuSession_proof.tla
tlapm BootEvidence_proof.tla
tlapm RecoveryEvidence_proof.tla
```
