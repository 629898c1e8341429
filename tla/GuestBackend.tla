---------------------------- MODULE GuestBackend ----------------------------
(***************************************************************************)
(* The virtualization backends (src/guest.rs) and the mode probe that asks *)
(* one of them whether it is available (src/mode.rs).                      *)
(*                                                                         *)
(* current_backend is a free function, called by several threads; the      *)
(* dynamic loader is external and counts the references on the framework   *)
(* image.  Each call of the loader is a step of its own, and between them  *)
(* the framework on disk may be replaced (it stays what it was in memory   *)
(* for as long as it is referenced).                                       *)
(***************************************************************************)
EXTENDS Naturals, FiniteSets

CONSTANTS
    Callers,  \* the threads that select a backend or probe the mode
    Targets   \* the build targets, among "macos-arm64", "ios-arm64", "x86_64"

ASSUME CallersAssumption == IsFiniteSet(Callers)

VARIABLES
    target,     \* the target this program is built for
    framework,  \* the Virtualization framework on disk (external)
    image,      \* the framework in memory and its references (external)
    pc,         \* where each caller is
    purpose,    \* what it wants a backend for: "keep" or "probe"
    backend,    \* the backend it holds
    reply       \* the last answer it got

vars == <<target, framework, image, pc, purpose, backend, reply>>

\* "hollow" lacks the class VZVirtualMachineConfiguration.
Frameworks == {"absent", "hollow", "complete"}
Unloaded == [kind |-> "absent", refs |-> 0]
Errors == {"BackendUnavailable", "UnsupportedHost", "InvalidSpec", "AbiPending"}
Operations == {"launch", "pause", "resume"}

TypeOK ==
    /\ target \in Targets
    /\ framework \in Frameworks
    /\ image \in [kind : Frameworks, refs : Nat]
    /\ pc \in [Callers -> {"idle", "opened", "missing", "owner"}]
    /\ purpose \in [Callers -> {"keep", "probe"}]
    /\ backend \in [Callers -> {"none", "unsupported", "apple"}]
    /\ reply \in [Callers -> {"none", "available", "unavailable"} \cup Errors]

-----------------------------------------------------------------------------
(* The dynamic loader and the disk (external).                             *)

Dlopen ==
    image' = IF image.refs = 0 THEN [kind |-> framework, refs |-> 1]
             ELSE [image EXCEPT !.refs = @ + 1]

Dlclose ==
    image' = IF image.refs <= 1 THEN Unloaded
             ELSE [image EXCEPT !.refs = @ - 1]

\* An update of the system replaces the framework.
Replace ==
    /\ framework' \in Frameworks \ {framework}
    /\ UNCHANGED <<target, image, pc, purpose, backend, reply>>

-----------------------------------------------------------------------------
(* current_backend and AppleVirtualizationBackend::probe.                  *)

\* The two configurations are not the same: one asks for Apple and arm64, the
\* other for macOS and arm64.
Detect == IF target \in {"macos-arm64", "ios-arm64"}
          THEN "AppleSiliconSandbox" ELSE "NativeEfiX86"
HasAppleBackend == target = "macos-arm64"

Owns(c, kind) ==
    /\ pc' = [pc EXCEPT ![c] = "owner"]
    /\ backend' = [backend EXCEPT ![c] = kind]

\* The call of current_backend, up to the answer of dlopen: an image in
\* memory is found, one on disk too, and either may fail to load.
CurrentBackend(c, why) ==
    /\ pc[c] = "idle"
    /\ purpose' = [purpose EXCEPT ![c] = why]
    /\ \/ Owns(c, "unsupported") /\ UNCHANGED image  \* not built in, or null
       \/ /\ HasAppleBackend
          /\ image.refs > 0 \/ framework # "absent"
          /\ Dlopen
          /\ pc' = [pc EXCEPT ![c] = "opened"]
          /\ UNCHANGED backend
    /\ UNCHANGED <<target, framework, reply>>

\* Mutant of Resolve: a framework without the class is left open.
ResolveLeaks(c) ==
    /\ pc[c] = "opened"
    /\ Owns(c, IF image.kind = "complete" THEN "apple" ELSE "unsupported")
    /\ UNCHANGED <<target, framework, image, purpose, reply>>

\* dlsym: the class, or null.
Resolve(c) ==
    /\ pc[c] = "opened"
    /\ \/ image.kind = "complete" /\ Owns(c, "apple")
       \/ /\ image.kind # "complete"
          /\ pc' = [pc EXCEPT ![c] = "missing"]
          /\ UNCHANGED backend
    /\ UNCHANGED <<target, framework, image, purpose, reply>>

\* A framework without the class is closed again, and probe fails.
CloseMissing(c) ==
    /\ pc[c] = "missing"
    /\ Dlclose
    /\ Owns(c, "unsupported")
    /\ UNCHANGED <<target, framework, purpose, reply>>

-----------------------------------------------------------------------------
(* mode::probe.                                                            *)

\* In native mode no backend is asked.
ProbeNative(c) ==
    /\ pc[c] = "idle" /\ Detect = "NativeEfiX86"
    /\ reply' = [reply EXCEPT ![c] = "unavailable"]
    /\ UNCHANGED <<target, framework, image, pc, purpose, backend>>

ProbeSandbox(c) == Detect = "AppleSiliconSandbox" /\ CurrentBackend(c, "probe")

\* Mutant of Available: the mode is taken for the backend.
AvailableInMode(c) == Detect = "AppleSiliconSandbox"

\* VirtualizationBackend::available
Available(c) == backend[c] = "apple"

\* The temporary backend answers and is dropped in one expression; the image
\* may stay in memory for others.
Answer(c) ==
    /\ pc[c] = "owner" /\ purpose[c] = "probe"
    /\ reply' = [reply EXCEPT
                    ![c] = IF Available(c) THEN "available" ELSE "unavailable"]
    /\ backend' = [backend EXCEPT ![c] = "none"]
    /\ pc' = [pc EXCEPT ![c] = "idle"]
    /\ IF backend[c] = "apple" THEN Dlclose ELSE UNCHANGED image
    /\ UNCHANGED <<target, framework, purpose>>

-----------------------------------------------------------------------------
(* What a caller does with a backend it keeps.                             *)

\* launch checks the spec only where a backend could use it.
BackendError(kind, op, valid) ==
    IF kind = "apple"
    THEN IF op = "launch" /\ ~valid THEN "InvalidSpec" ELSE "AbiPending"
    ELSE IF op = "launch" THEN "UnsupportedHost" ELSE "BackendUnavailable"

Select(c) == CurrentBackend(c, "keep")

Call(c) ==
    /\ pc[c] = "owner" /\ purpose[c] = "keep"
    /\ \E op \in Operations, valid \in BOOLEAN :
          reply' = [reply EXCEPT ![c] = BackendError(backend[c], op, valid)]
    /\ UNCHANGED <<target, framework, image, pc, purpose, backend>>

\* Mutant of Drop: whoever drops a backend closes the image.
DropAlways(c) ==
    /\ pc[c] = "owner" /\ purpose[c] = "keep"
    /\ pc' = [pc EXCEPT ![c] = "idle"]
    /\ backend' = [backend EXCEPT ![c] = "none"]
    /\ Dlclose
    /\ UNCHANGED <<target, framework, purpose, reply>>

Drop(c) ==
    /\ pc[c] = "owner" /\ purpose[c] = "keep"
    /\ pc' = [pc EXCEPT ![c] = "idle"]
    /\ backend' = [backend EXCEPT ![c] = "none"]
    /\ IF backend[c] = "apple" THEN Dlclose ELSE UNCHANGED image
    /\ UNCHANGED <<target, framework, purpose, reply>>

-----------------------------------------------------------------------------

Init ==
    /\ target \in Targets
    /\ framework \in Frameworks
    /\ image = Unloaded
    /\ pc = [c \in Callers |-> "idle"]
    /\ purpose = [c \in Callers |-> "keep"]
    /\ backend = [c \in Callers |-> "none"]
    /\ reply = [c \in Callers |-> "none"]

Step(c) ==
    \/ Select(c) \/ Resolve(c) \/ CloseMissing(c) \/ Call(c) \/ Drop(c)
    \/ ProbeNative(c) \/ ProbeSandbox(c) \/ Answer(c)

Next == Replace \/ \E c \in Callers : Step(c)

Spec == Init /\ [][Next]_vars

-----------------------------------------------------------------------------
(* Properties.                                                             *)

Owners == {c \in Callers : pc[c] \in {"opened", "missing"} \/ backend[c] = "apple"}

\* The image has one reference for every probe under way and every Apple
\* backend alive: a framework without the class leaves none behind, no backend
\* closes another one's, and the class a backend holds (config_class) is
\* in an image that stays in memory, whatever happens to the one on disk.
OneReferenceEach ==
    /\ image.refs = Cardinality(Owners)
    /\ \A c \in Callers : backend[c] = "apple" => image.kind = "complete"

\* c's call of mode::probe returns.
ProbeReturns(c) == purpose[c] = "probe" /\ pc[c] = "owner" /\ pc'[c] = "idle"

\* mode::probe says "available" only when, at that moment, the class was
\* resolved in a loaded framework; what the build target suggests is not
\* enough. Nothing is promised of a later current_backend.
AvailableOnlyIfResolved ==
    [][\A c \in Callers :
          ProbeReturns(c) /\ reply'[c] = "available"
             => image.refs > 0 /\ image.kind = "complete"]_vars

=============================================================================
