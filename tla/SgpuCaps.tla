------------------------------ MODULE SgpuCaps ------------------------------
(***************************************************************************)
(* The capability record of QUERY_CAPS (src/sgpu.rs, SgpuCaps): 40 bytes   *)
(* with gaps, written by the session and read by a peer that may have been *)
(* built from another version, or sent fewer bytes or more.                *)
(***************************************************************************)
EXTENDS Integers, Sequences, Functions

CONSTANTS
    Byte,        \* 256, the values of a byte
    VramSizes,   \* sizes a device may report, in 8 bytes
    ThreadCounts \* counts a device may report, in 4 bytes

ASSUME CapsAssumption ==
    /\ Byte \in Nat \ 0..4
    /\ VramSizes \subseteq 0..(Byte ^ 8 - 1)
    /\ ThreadCounts \subseteq 0..(Byte ^ 4 - 1)

Bytes == 0..(Byte - 1)

\* GpuVendor and MetalVersion by their discriminants; the last is what decode
\* takes every other byte for.
GpuVendor == <<"AMD", "NVIDIA", "Intel", "Unknown">>
MetalVersion == <<"V2_0", "V3_0", "V3_1", "V3_2">>

SgpuCaps ==
    [vendor : Range(GpuVendor), metal_version : Range(MetalVersion),
     vram_bytes : VramSizes, max_threads_per_threadgroup : ThreadCounts,
     has_compute_shaders : BOOLEAN, software_accelerated : BOOLEAN]

\* query_caps: the device's own record, but never with compute shaders.
QueryCaps(spec) == [spec EXCEPT !.has_compute_shaders = FALSE]

Discriminant(names, name) == (CHOOSE i \in DOMAIN names : names[i] = name) - 1
Flag(b) == IF b THEN 1 ELSE 0
\* What is left of n behind each of its k low bytes.
Quotients(n, k) ==
    LET rest[i \in 0..k] == IF i = 0 THEN n ELSE rest[i - 1] \div Byte IN rest
LittleEndian(n, k) == [i \in 1..k |-> Quotients(n, k)[i - 1] % Byte]
Zeros(k) == [i \in 1..k |-> 0]

EncodeCaps(caps) ==
       <<Discriminant(GpuVendor, caps.vendor)>> \o Zeros(3)
    \o <<Discriminant(MetalVersion, caps.metal_version)>> \o Zeros(3)
    \o LittleEndian(caps.vram_bytes, 8)
    \o LittleEndian(caps.max_threads_per_threadgroup, 4)
    \o <<Flag(caps.has_compute_shaders)>> \o Zeros(3)
    \o <<Flag(caps.software_accelerated)>> \o Zeros(15)

Named(names, b) == names[IF b < Len(names) THEN b + 1 ELSE Len(names)]
\* from_le_bytes: the high bytes first, each behind those above it.
Number(w) ==
    LET k == Len(w)
        high[i \in 0..k] ==
            IF i = 0 THEN 0 ELSE high[i - 1] * Byte + w[k + 1 - i]
    IN  high[k]

\* Mutant of DecodeCaps: a flag is read of a byte of the gap behind it too.
DecodeCapsGap(w) ==
    [vendor |-> Named(GpuVendor, w[1]),
     metal_version |-> Named(MetalVersion, w[5]),
     vram_bytes |-> Number(SubSeq(w, 9, 16)),
     max_threads_per_threadgroup |-> Number(SubSeq(w, 17, 20)),
     has_compute_shaders |-> w[21] # 0 \/ w[22] # 0,
     software_accelerated |-> w[25] # 0]

\* decode refuses fewer than 40 bytes (Short) and reads the first 40.
Short(w) == Len(w) < 40
DecodeCaps(w) ==
    [vendor |-> Named(GpuVendor, w[1]),
     metal_version |-> Named(MetalVersion, w[5]),
     vram_bytes |-> Number(SubSeq(w, 9, 16)),
     max_threads_per_threadgroup |-> Number(SubSeq(w, 17, 20)),
     has_compute_shaders |-> w[21] # 0,
     software_accelerated |-> w[25] # 0]

-----------------------------------------------------------------------------

VARIABLES
    record,  \* the session's record
    bytes    \* its bytes, as the peer gets them

capsVars == <<record, bytes>>

CapsInit ==
    /\ record \in {QueryCaps(spec) : spec \in SgpuCaps}
    /\ bytes = EncodeCaps(record)

Undamaged == bytes = EncodeCaps(record)

\* The transport and the peer's version (external).
Change == \E i \in 1..40, b \in Bytes : bytes' = [bytes EXCEPT ![i] = b]
Cut == \E n \in 0..39 : bytes' = SubSeq(bytes, 1, n)
Lengthen == \E b \in Bytes : bytes' = Append(bytes, b)

CapsNext == Undamaged /\ (Change \/ Cut \/ Lengthen) /\ UNCHANGED record

CapsSpec == CapsInit /\ [][CapsNext]_capsVars

-----------------------------------------------------------------------------

\* The bytes of each field; the others are gaps.
Place ==
    [vendor |-> {1}, metal_version |-> {5}, vram_bytes |-> 9..16,
     max_threads_per_threadgroup |-> 17..20,
     has_compute_shaders |-> {21}, software_accelerated |-> {25}]

\* Every field is read of bytes of its own and of no others: whatever else the
\* transport changed, a field whose bytes arrived is the one that was sent.
\* So the record survives any longer message, a byte that differs changes the
\* one field it is of, and a byte of a gap none.  What was read is written and
\* read again as the same record, whatever the bytes were.
FieldsApart ==
    ~Short(bytes) =>
        LET read == DecodeCaps(bytes)
            written == EncodeCaps(record)
        IN  /\ \A field \in DOMAIN record :
                  (\A i \in Place[field] : bytes[i] = written[i]) =>
                      read[field] = record[field]
            /\ DecodeCaps(EncodeCaps(read)) = read
=============================================================================
