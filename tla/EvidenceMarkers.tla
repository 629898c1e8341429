-------------------------- MODULE EvidenceMarkers --------------------------
(***************************************************************************)
(* The guest's log as evidence (src/runner.rs): markers of the kernel and  *)
(* of userspace with their positions in the log, from which both report    *)
(* evaluators take the first kernel marker and the first userspace marker  *)
(* behind it.  Positions are what the JSON number conversion returns.      *)
(***************************************************************************)
EXTENDS Integers, FiniteSetsExt

CONSTANTS
    Offsets,   \* positions in the log
    Majors,    \* kernel majors; the targets are among them
    NotANumber \* a JSON value that is absent or of another type

ASSUME MarkersAssumption ==
    /\ Offsets \subseteq Nat
    /\ Majors \subseteq Nat
    /\ NotANumber \in Int \ Nat

\* "known": its text is one of those the evaluators recognize.
Marker == [known : BOOLEAN, byte_offset : Offsets \cup {NotANumber},
           kernel_major : Majors \cup {NotANumber}]

Targets == {26, 27} \cap Majors

First(offsets) == IF offsets = {} THEN NotANumber ELSE Min(offsets)

Positions(markers) ==
    {m.byte_offset : m \in {n \in markers : n.known}} \ {NotANumber}

\* xnu_offset, over the markers whose major is one of majors.
XnuOffset(xnu, majors) ==
    First(Positions({m \in xnu : m.kernel_major \in majors}))

\* Mutant of UserspaceOffset: the first userspace marker is compared with the
\* kernel's, instead of the first one behind it being taken.
UserspaceOffsetFirst(userspace, xnu_offset) ==
    IF xnu_offset # NotANumber /\ First(Positions(userspace)) > xnu_offset
    THEN First(Positions(userspace)) ELSE NotANumber

\* Mutant of UserspaceOffset: a marker before the kernel's is as good.
UserspaceOffsetAny(userspace, xnu_offset) ==
    IF xnu_offset = NotANumber THEN NotANumber ELSE First(Positions(userspace))

\* userspace_offset
UserspaceOffset(userspace, xnu_offset) ==
    First({o \in Positions(userspace) :
              xnu_offset # NotANumber /\ o > xnu_offset})

=============================================================================
