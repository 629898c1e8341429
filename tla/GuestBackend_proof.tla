------------------------- MODULE GuestBackend_proof -------------------------
(* References on the framework image are balanced, for any number of callers. *)
EXTENDS GuestBackend, FiniteSetTheorems, TLAPS

\* A caller has a backend exactly between the selection and the drop.
Held == \A c \in Callers : backend[c] # "none" <=> pc[c] = "owner"

Inv == TypeOK /\ Held /\ OneReferenceEach

LEMMA OwnersFinite == IsFiniteSet(Owners)
  BY CallersAssumption, FS_Subset DEF Owners

\* A caller that becomes an owner takes one reference.
LEMMA Opened ==
  ASSUME Inv, NEW c \in Callers \ Owners, Dlopen, Owners' = Owners \cup {c}
  PROVE  /\ image' \in [kind : Frameworks, refs : Nat]
         /\ image'.refs = Cardinality(Owners)'
         /\ Owners # {} => image'.kind = image.kind
  <1>1. Cardinality(Owners \cup {c}) = Cardinality(Owners) + 1
    BY OwnersFinite, FS_AddElement
  <1>2. Cardinality(Owners)' = Cardinality(Owners) + 1
    BY <1>1
  <1>3. Owners # {} => image.refs # 0
    BY OwnersFinite, FS_EmptySet DEF Inv, OneReferenceEach
  <1> QED  BY <1>2, <1>3 DEF Inv, TypeOK, OneReferenceEach, Dlopen

\* An owner that stops being one gives its reference back, and the image stays
\* while there are others.
LEMMA Closed ==
  ASSUME Inv, NEW c \in Owners, Dlclose, Owners' = Owners \ {c}
  PROVE  /\ image' \in [kind : Frameworks, refs : Nat]
         /\ image'.refs = Cardinality(Owners)'
         /\ Owners' # {} => image'.kind = image.kind
  <1>1. Cardinality(Owners \ {c}) = Cardinality(Owners) - 1
    BY OwnersFinite, FS_RemoveElement
  <1>2. Cardinality(Owners)' = Cardinality(Owners) - 1
    BY <1>1
  <1>3. Cardinality(Owners) \in Nat /\ Cardinality(Owners) # 0
    BY OwnersFinite, FS_CardinalityType, FS_EmptySet
  <1>4. Owners' # {} => Cardinality(Owners)' # 0
    <2>1. IsFiniteSet(Owners \ {c})
      BY OwnersFinite, FS_Subset
    <2> QED  BY <2>1, FS_EmptySet
  <1>5. image.refs = Cardinality(Owners) /\ image \in [kind : Frameworks, refs : Nat]
    BY DEF Inv, TypeOK, OneReferenceEach
  <1>6. CASE image.refs <= 1
    <2>1. image' = Unloaded  BY <1>6 DEF Dlclose
    <2>2. image.refs = 1  BY <1>3, <1>5, <1>6
    <2> QED  BY <2>1, <2>2, <1>2, <1>4, <1>5 DEF Unloaded, Frameworks
  <1>7. CASE image.refs > 1
    <2>1. image' = [image EXCEPT !.refs = @ - 1]  BY <1>5, <1>7 DEF Dlclose
    <2> QED  BY <2>1, <1>2, <1>5, <1>7
  <1> QED  BY <1>3, <1>5, <1>6, <1>7

LEMMA InitInv == Init => Inv
  <1> SUFFICES ASSUME Init PROVE Inv  OBVIOUS
  <1>1. TypeOK /\ Held
    BY DEF Init, TypeOK, Held, Unloaded, Frameworks
  <1>2. Owners = {}
    BY DEF Init, Owners
  <1>3. OneReferenceEach
    BY <1>2, FS_EmptySet DEF Init, OneReferenceEach, Unloaded
  <1> QED  BY <1>1, <1>3 DEF Inv

LEMMA SelectInv ==
  ASSUME Inv, NEW c \in Callers, NEW why \in {"keep", "probe"}, CurrentBackend(c, why)
  PROVE  Inv'
  <1>1. pc[c] = "idle" /\ backend[c] = "none" /\ c \notin Owners
    BY DEF CurrentBackend, Inv, Held, TypeOK, Owners
  <1>2. CASE Owns(c, "unsupported") /\ UNCHANGED image
    <2>1. TypeOK' /\ Held'
      BY <1>2 DEF CurrentBackend, Owns, Inv, TypeOK, Held
    <2>2. Owners' = Owners
      BY <1>1, <1>2 DEF CurrentBackend, Owns, Inv, TypeOK, Owners
    <2>3. OneReferenceEach'
      BY <1>2, <2>2 DEF Owns, Inv, TypeOK, OneReferenceEach
    <2> QED  BY <2>1, <2>3 DEF Inv
  <1>3. CASE Dlopen /\ pc' = [pc EXCEPT ![c] = "opened"] /\ UNCHANGED backend
    <2>1. Owners' = Owners \cup {c}
      BY <1>3 DEF Inv, TypeOK, Owners
    <2>2. /\ image' \in [kind : Frameworks, refs : Nat]
          /\ image'.refs = Cardinality(Owners)'
          /\ Owners # {} => image'.kind = image.kind
      BY <1>1, <1>3, <2>1, Opened
    <2>3. TypeOK' /\ Held'
      BY <1>1, <1>3, <2>2 DEF CurrentBackend, Inv, TypeOK, Held
    <2>4. \A d \in Callers : backend[d] = "apple" => d \in Owners
      BY DEF Owners
    <2>5. OneReferenceEach'
      BY <1>3, <2>2, <2>4 DEF Inv, OneReferenceEach
    <2> QED  BY <2>3, <2>5 DEF Inv
  <1> QED  BY <1>2, <1>3 DEF CurrentBackend

LEMMA ResolveInv ==
  ASSUME Inv, NEW c \in Callers, Resolve(c)
  PROVE  Inv'
  <1>1. TypeOK' /\ Held'
    BY DEF Resolve, Owns, Inv, TypeOK, Held
  <1>2. Owners' = Owners
    BY DEF Resolve, Owns, Inv, TypeOK, Owners
  <1>3. \A d \in Callers : backend'[d] = "apple" => image.kind = "complete"
    BY DEF Resolve, Owns, Inv, TypeOK, OneReferenceEach
  <1>4. OneReferenceEach'
    BY <1>2, <1>3 DEF Resolve, Inv, OneReferenceEach
  <1> QED  BY <1>1, <1>4 DEF Inv

\* The image is closed by an owner that leaves with the backend given.
LEMMA LeaveInv ==
  ASSUME Inv, NEW c \in Owners, Dlclose, NEW kind \in {"none", "unsupported"},
         backend' = [backend EXCEPT ![c] = kind],
         pc' = [pc EXCEPT ![c] = IF kind = "none" THEN "idle" ELSE "owner"],
         UNCHANGED <<target, framework, purpose>>,
         reply' \in [Callers -> {"none", "available", "unavailable"} \cup Errors]
  PROVE  Inv'
  <1>1. Owners' = Owners \ {c}
    BY DEF Inv, TypeOK, Owners
  <1>2. /\ image' \in [kind : Frameworks, refs : Nat]
        /\ image'.refs = Cardinality(Owners)'
        /\ Owners' # {} => image'.kind = image.kind
    BY <1>1, Closed
  <1>3. TypeOK' /\ Held'
    BY <1>2 DEF Inv, TypeOK, Held, Owners
  <1>4. \A d \in Callers :
           backend'[d] = "apple" => backend[d] = "apple" /\ d \in Owners'
    BY DEF Inv, TypeOK, Owners
  <1>5. OneReferenceEach'
    BY <1>2, <1>4 DEF Inv, OneReferenceEach
  <1> QED  BY <1>3, <1>5 DEF Inv

LEMMA CloseInv ==
  ASSUME Inv, NEW c \in Callers, CloseMissing(c)
  PROVE  Inv'
  BY LeaveInv DEF CloseMissing, Owns, Owners, Inv, TypeOK

\* A backend is dropped: by the caller that kept it, or behind its answer.
LEMMA DropInv ==
  ASSUME Inv, NEW c \in Callers, pc[c] = "owner",
         backend' = [backend EXCEPT ![c] = "none"],
         pc' = [pc EXCEPT ![c] = "idle"],
         IF backend[c] = "apple" THEN Dlclose ELSE UNCHANGED image,
         UNCHANGED <<target, framework, purpose>>,
         reply' \in [Callers -> {"none", "available", "unavailable"} \cup Errors]
  PROVE  Inv'
  <1>1. CASE backend[c] = "apple"
    BY <1>1, LeaveInv DEF Owners
  <1>2. CASE backend[c] # "apple"
    <2>1. TypeOK' /\ Held'
      BY <1>2 DEF Inv, TypeOK, Held
    <2>2. Owners' = Owners
      BY <1>2 DEF Inv, TypeOK, Owners
    <2>3. \A d \in Callers : backend'[d] = "apple" => backend[d] = "apple"
      BY DEF Inv, TypeOK
    <2>4. OneReferenceEach'
      BY <1>2, <2>2, <2>3 DEF Inv, OneReferenceEach
    <2> QED  BY <2>1, <2>4 DEF Inv
  <1> QED  BY <1>1, <1>2

\* A step that only answers, replaces the framework, or stutters.
LEMMA QuietInv ==
  ASSUME Inv, UNCHANGED <<target, image, pc, purpose, backend>>,
         framework' \in Frameworks,
         reply' \in [Callers -> {"none", "available", "unavailable"} \cup Errors]
  PROVE  Inv'
  BY DEF Inv, TypeOK, Held, OneReferenceEach, Owners

LEMMA NextInv == Inv /\ [Next]_vars => Inv'
  <1> SUFFICES ASSUME Inv, [Next]_vars PROVE Inv'  OBVIOUS
  <1>0. /\ framework \in Frameworks
        /\ reply \in [Callers -> {"none", "available", "unavailable"} \cup Errors]
    BY DEF Inv, TypeOK
  <1>1. CASE Replace
    BY <1>0, <1>1, QuietInv DEF Replace
  <1>2. CASE UNCHANGED vars
    BY <1>0, <1>2, QuietInv DEF vars
  <1>3. ASSUME NEW c \in Callers, Step(c) PROVE Inv'
    <2>1. CASE Select(c) \/ ProbeSandbox(c)
      BY <2>1, SelectInv DEF Select, ProbeSandbox
    <2>2. CASE Resolve(c)
      BY <2>2, ResolveInv
    <2>3. CASE CloseMissing(c)
      BY <2>3, CloseInv
    <2>4. CASE Call(c)
      <3>1. \A op \in Operations, valid \in BOOLEAN :
               BackendError(backend[c], op, valid) \in Errors
        BY DEF BackendError, Errors
      <3>2. reply' \in [Callers -> {"none", "available", "unavailable"} \cup Errors]
        BY <1>0, <2>4, <3>1 DEF Call
      <3> QED  BY <1>0, <2>4, <3>2, QuietInv DEF Call
    <2>5. CASE Drop(c)
      BY <1>0, <2>5, DropInv DEF Drop
    <2>6. CASE ProbeNative(c)
      <3>1. reply' \in [Callers -> {"none", "available", "unavailable"} \cup Errors]
        BY <1>0, <2>6 DEF ProbeNative
      <3> QED  BY <1>0, <2>6, <3>1, QuietInv DEF ProbeNative
    <2>7. CASE Answer(c)
      <3>1. reply' \in [Callers -> {"none", "available", "unavailable"} \cup Errors]
        BY <1>0, <2>7 DEF Answer
      <3> QED  BY <2>7, <3>1, DropInv DEF Answer
    <2> QED  BY <1>3, <2>1, <2>2, <2>3, <2>4, <2>5, <2>6, <2>7 DEF Step
  <1> QED  BY <1>1, <1>2, <1>3 DEF Next

\* However many threads select, probe and drop backends while the framework
\* is replaced, references are balanced (guest.rs, probe and Drop).
THEOREM ReferencesBalanced == Spec => []OneReferenceEach
  <1>1. Inv => OneReferenceEach
    BY DEF Inv
  <1> QED  BY InitInv, NextInv, <1>1, PTL DEF Spec

\* mode::probe calls a host available only with the class in a loaded image.
THEOREM ProbeTruthful == Spec => AvailableOnlyIfResolved
  <1> DEFINE A == \A c \in Callers :
                     ProbeReturns(c) /\ reply'[c] = "available"
                        => image.refs > 0 /\ image.kind = "complete"
  <1>1. ASSUME Inv, [Next]_vars PROVE [A]_vars
    <2> SUFFICES ASSUME Next, NEW c \in Callers,
                        ProbeReturns(c), reply'[c] = "available"
                 PROVE  image.refs > 0 /\ image.kind = "complete"
      BY <1>1
    <2>1. PICK d \in Callers : Step(d)
      BY DEF Next, Replace, ProbeReturns
    <2>2. c = d
      BY <1>1, <2>1 DEF ProbeReturns, Inv, TypeOK, Step, Select, ProbeSandbox, CurrentBackend,
         Owns, Resolve, CloseMissing, Call, Drop, ProbeNative, Answer
    <2>3. Answer(c)
      BY <1>1, <2>1, <2>2 DEF ProbeReturns, Inv, TypeOK, Step, Select, ProbeSandbox,
         CurrentBackend, Owns, Resolve, CloseMissing, Call, Drop, ProbeNative
    <2>4. backend[c] = "apple"
      BY <1>1, <2>3 DEF Answer, Available, Inv, TypeOK
    <2>5. c \in Owners
      BY <2>4 DEF Owners
    <2>6. Cardinality(Owners) \in Nat /\ Cardinality(Owners) # 0
      BY <2>5, OwnersFinite, FS_CardinalityType, FS_EmptySet
    <2> QED  BY <1>1, <2>4, <2>6 DEF Inv, OneReferenceEach
  <1> QED  BY InitInv, NextInv, <1>1, PTL DEF Spec, AvailableOnlyIfResolved
=============================================================================
