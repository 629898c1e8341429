----------------------------- MODULE GuestPlan -----------------------------
(***************************************************************************)
(* A guest launch plan (src/guest.rs): how it is built, and its codec.  A  *)
(* plan is written as a run of cells; a cell stands for one integer of 4   *)
(* or 8 bytes or for one byte of a string.  The buffer to decode is        *)
(* external: it grows cell by cell through everything that it may hold, or *)
(* it is the encoding of a plan that somebody builds.                      *)
(***************************************************************************)
EXTENDS Naturals, SequencesExt

CONSTANTS
    Cell,       \* what a cell may hold
    CpuMax,     \* the largest cpu_count, 255
    MemoryMin,  \* the least memory_bytes, 128 MiB
    NotUtf8,    \* a byte no UTF-8 string holds
    LenSpan,    \* 2^32: lengths and counts are cast to u32
    Strings,    \* the strings given to the builder
    MaxCells,   \* bound: the length of a buffer
    MaxItems    \* bound: pairs, or devices, of a plan that is built

\* decode reads a length from 4 bytes, so it is below LenSpan; where a cell may
\* hold more than a length, the buffer is shorter than what it would announce.
PlanConstants ==
    /\ Cell \subseteq Nat
    /\ {CpuMax, MemoryMin, NotUtf8, MaxCells, MaxItems} \subseteq Nat
    /\ LenSpan \in Nat \ {0}
    /\ (\A c \in Cell : c < LenSpan) \/ MaxCells < LenSpan
    /\ Strings \subseteq Seq(Cell \ {NotUtf8})

ASSUME PlanAssumption == PlanConstants

VARIABLES
    plan,  \* the plan that is built, if any
    buf    \* the bytes given to decode

planVars == <<plan, buf>>

SpecError(cpu_count, memory_bytes) ==
    cpu_count = 0 \/ cpu_count > CpuMax \/ memory_bytes < MemoryMin

-----------------------------------------------------------------------------
(* encode                                                                  *)

Count(s) == Len(s) % LenSpan  \* len() as u32

EncodeString(s) == <<Count(s)>> \o s

\* Mutant of EncodePair: value and key change places.
EncodePairSwapped(pair) == EncodeString(pair.value) \o EncodeString(pair.key)

EncodePair(pair) == EncodeString(pair.key) \o EncodeString(pair.value)

EncodePairs(pairs) ==
    FlattenSeq([i \in DOMAIN pairs |-> EncodePair(pairs[i])])

\* GuestLaunchPlan::encode
EncodePlan(q) ==
    <<q.cpu_count, q.memory_bytes>>
        \o EncodeString(q.boot_disk)
        \o <<Count(q.smbios_override)>> \o EncodePairs(q.smbios_override)
        \o <<Count(q.device_map)>> \o FlattenSeq(q.device_map)

-----------------------------------------------------------------------------
(* decode: a reader at position p, which fails for good on its first error. *)

Reader(ok, p, value) == [ok |-> ok, p |-> p, value |-> value]

\* Mutant of TakeCells: the last cells of a buffer cannot be taken.
TakeCellsStrict(b, p, n) ==
    IF n > 0 /\ p + n >= Len(b) THEN Reader(FALSE, p, <<>>)
    ELSE Reader(TRUE, p + n, SubSeq(b, p + 1, p + n))

\* take: the next n cells.
TakeCells(b, p, n) ==
    IF p + n > Len(b) THEN Reader(FALSE, p, <<>>)
    ELSE Reader(TRUE, p + n, SubSeq(b, p + 1, p + n))

\* A length and as many bytes, which must be UTF-8.
TakeString(b, p) ==
    LET size == TakeCells(b, p, 1)
        body == TakeCells(b, size.p, size.value[1])
    IN  IF ~size.ok \/ ~body.ok THEN Reader(FALSE, p, <<>>)
        ELSE Reader(\A i \in DOMAIN body.value : body.value[i] # NotUtf8,
                    body.p, body.value)

\* One more pair behind those that r has read, and one more device.
TakePair(b, r) ==
    LET key == TakeString(b, r.p)
        value == TakeString(b, key.p)
    IN  IF ~r.ok \/ ~key.ok \/ ~value.ok THEN Reader(FALSE, r.p, <<>>)
        ELSE Reader(TRUE, value.p,
                    Append(r.value, [key |-> key.value, value |-> value.value]))

TakeDevice(b, r) ==
    LET device == TakeCells(b, r.p, 3)
    IN  IF ~r.ok \/ ~device.ok THEN Reader(FALSE, r.p, <<>>)
        ELSE Reader(TRUE, device.p, Append(r.value, device.value))

\* The loops: run[k] is the reader after k turns.
TakePairs(b, p, n) ==
    LET run[k \in 0..n] ==
            IF k = 0 THEN Reader(TRUE, p, <<>>) ELSE TakePair(b, run[k - 1])
    IN  run[n]

TakeDevices(b, p, n) ==
    LET run[k \in 0..n] ==
            IF k = 0 THEN Reader(TRUE, p, <<>>) ELSE TakeDevice(b, run[k - 1])
    IN  run[n]

\* A count, and the items that are read behind it.
Counted(count, items) == IF count.ok THEN items ELSE count

\* Nothing follows the plan.
Complete(b, p) == p = Len(b)

\* GuestLaunchPlan::decode
DecodePlan(b) ==
    LET spec == TakeCells(b, 0, 2)
        disk == TakeString(b, spec.p)
        pairs == TakeCells(b, disk.p, 1)
        smbios == Counted(pairs, TakePairs(b, pairs.p, pairs.value[1]))
        maps == TakeCells(b, smbios.p, 1)
        devices == Counted(maps, TakeDevices(b, maps.p, maps.value[1]))
        valid ==
            /\ spec.ok
            /\ ~SpecError(spec.value[1], spec.value[2])
            /\ disk.ok /\ disk.value # <<>>
            /\ smbios.ok
            /\ devices.ok
            /\ Complete(b, devices.p)
    IN  [ok |-> valid,
         plan |-> IF ~valid THEN [boot_disk |-> <<>>]
                  ELSE [cpu_count |-> spec.value[1],
                        memory_bytes |-> spec.value[2],
                        boot_disk |-> disk.value,
                        smbios_override |-> smbios.value,
                        device_map |-> devices.value]]

-----------------------------------------------------------------------------

(* The buffer that somebody sends, and the plan that somebody builds.      *)

NoPlan == [boot_disk |-> <<>>]

ReceiveCell ==
    /\ plan = NoPlan
    /\ Len(buf) < MaxCells
    /\ \E c \in Cell : buf' = Append(buf, c)
    /\ UNCHANGED plan

\* GuestLaunchPlan::new; an error leaves no plan.
New(cpu_count, memory_bytes, disk) ==
    /\ plan = NoPlan /\ buf = <<>>
    /\ ~SpecError(cpu_count, memory_bytes)
    /\ disk # <<>>
    /\ plan' = [cpu_count |-> cpu_count, memory_bytes |-> memory_bytes,
                boot_disk |-> disk, smbios_override |-> <<>>, device_map |-> <<>>]
    /\ UNCHANGED buf

\* The fields are public: a spec that new has checked can be written over.
SetSpec(cpu_count, memory_bytes) ==
    /\ plan # NoPlan
    /\ plan' = [plan EXCEPT !.cpu_count = cpu_count, !.memory_bytes = memory_bytes]
    /\ UNCHANGED buf

\* smbios
AddSmbios(k, v) ==
    /\ plan # NoPlan
    /\ Len(plan.smbios_override) < MaxItems
    /\ plan' = [plan EXCEPT !.smbios_override = Append(@, [key |-> k, value |-> v])]
    /\ UNCHANGED buf

\* map_device
MapDevice(vendor_id, device_id, mmio_len) ==
    /\ plan # NoPlan
    /\ Len(plan.device_map) < MaxItems
    /\ plan' = [plan EXCEPT !.device_map = Append(@, <<vendor_id, device_id, mmio_len>>)]
    /\ UNCHANGED buf

PlanInit == plan = NoPlan /\ buf = <<>>

PlanNext ==
    \/ ReceiveCell
    \/ \E cpu, memory \in Cell :
          SetSpec(cpu, memory) \/ \E disk \in Strings : New(cpu, memory, disk)
    \/ \E k, v \in Strings : AddSmbios(k, v)
    \/ \E len \in Cell : MapDevice(1, 2, len)

PlanSpec == PlanInit /\ [][PlanNext]_planVars

-----------------------------------------------------------------------------
(* Properties.                                                             *)

\* The encoding is canonical: a buffer that decodes is the encoding of its
\* plan, so no two buffers give one plan and nothing of a buffer is ignored.
Canonical == DecodePlan(buf).ok => EncodePlan(DecodePlan(buf).plan) = buf

\* Every length of a plan is below 2^32, where the cast of encode keeps it.
Fits(q) ==
    /\ Len(q.boot_disk) < LenSpan
    /\ Len(q.smbios_override) < LenSpan /\ Len(q.device_map) < LenSpan
    /\ \A i \in DOMAIN q.smbios_override :
          /\ Len(q.smbios_override[i].key) < LenSpan
          /\ Len(q.smbios_override[i].value) < LenSpan

\* A plan that the builder makes comes back from its encoding as it was, its
\* pairs and devices in order; one whose public spec was written over with
\* values that new refuses is refused by the decoder too. Lengths that do not
\* fit the cast are excluded: the code does not look at them.
BuiltPlanDecodes ==
    plan # NoPlan /\ Fits(plan) =>
        LET back == DecodePlan(EncodePlan(plan))
        IN  /\ back.ok <=> plan.cpu_count \in 1..CpuMax /\ plan.memory_bytes >= MemoryMin
            /\ back.ok => back.plan = plan

=============================================================================
