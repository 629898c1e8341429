------------------------- MODULE BootEvidence_proof -------------------------
(***************************************************************************)
(* What a raw report proves, for every log, every set of majors and every  *)
(* number of departures from full evidence.  The minima of the evaluator   *)
(* are replaced by what they find: some marker, and one behind it.         *)
(***************************************************************************)
EXTENDS BootEvidence, FiniteSetTheorems, WellFoundedInduction, TLAPS

Labels == Backends \cup {"other"}
Numbers == Majors \cup {NotANumber}

Report ==
    [schema : Labels, engine : Labels, target_major : Numbers,
     facts : SUBSET (Evidence \cup Objections), guest_kernel_major : Numbers,
     xnu : SUBSET Marker, userspace : SUBSET Marker]

TypeInv == report \in Report /\ parsed \in BOOLEAN

-----------------------------------------------------------------------------
(* First and the offsets.                                                  *)

\* A set of naturals that is not empty has a least element, and Min is it.
LEMMA MinIsLeast ==
  ASSUME NEW S \in SUBSET Nat, S # {}
  PROVE  Min(S) \in S /\ \A x \in S : Min(S) <= x
  <1> DEFINE R == OpToRel(<, Nat)
  <1>1. \A x, y \in Nat : <<y, x>> \in R <=> y < x
    BY DEF OpToRel
  <1>2. \E x \in S : \A y \in S : ~ (<<y, x>> \in R)
    <2>1. IsWellFoundedOn(R, Nat)  BY NatLessThanWellFounded
    <2>2. S \subseteq Nat  OBVIOUS
    <2> HIDE DEF R
    <2> QED  BY <2>1, <2>2, WFMin
  <1> HIDE DEF R
  <1>3. \E x \in S : \A y \in S : x <= y
    <2>1. PICK x \in S : \A y \in S : ~ (<<y, x>> \in R)  BY <1>2
    <2>2. ASSUME NEW y \in S PROVE x <= y
      <3>1. x \in Nat /\ y \in Nat  OBVIOUS
      <3>2. ~ (<<y, x>> \in R)  BY <2>1
      <3>3. ~ (y < x)  BY <1>1, <3>1, <3>2
      <3> QED  BY <3>1, <3>3
    <2> QED  BY <2>2
  <1> QED  BY <1>3 DEF Min

LEMMA FirstIsLeast ==
  ASSUME NEW S \in SUBSET Nat
  PROVE  /\ First(S) # NotANumber <=> S # {}
         /\ S # {} => First(S) \in S /\ \A x \in S : First(S) <= x
  <1>1. NotANumber \notin Nat  BY MarkersAssumption
  <1>2. CASE S = {}  BY <1>2 DEF First
  <1>3. CASE S # {}
    <2>1. First(S) = Min(S)  BY <1>3 DEF First
    <2> QED  BY <1>1, <1>3, <2>1, MinIsLeast
  <1> QED  BY <1>2, <1>3

\* The positions are those of the recognized markers that have one.
LEMMA PositionsShown ==
  ASSUME NEW M \in SUBSET Marker
  PROVE  /\ Positions(M) \in SUBSET Nat
         /\ \A o : o \in Positions(M) <=>
                      o \in Offsets /\ \E m \in M : m.known /\ m.byte_offset = o
  BY MarkersAssumption DEF Positions, Marker

\* Without a choice of majors, every marker counts.
LEMMA XnuOffsetFirst ==
  ASSUME NEW M \in SUBSET Marker
  PROVE  XnuOffset(M, Numbers) = First(Positions(M))
  <1>1. {m \in M : m.kernel_major \in Numbers} = M
    BY DEF Marker, Numbers
  <1> QED  BY <1>1 DEF XnuOffset

\* A userspace offset is found exactly if some marker lies behind another.
LEMMA UserspaceOffsetShown ==
  ASSUME NEW K \in SUBSET Marker, NEW U \in SUBSET Marker
  PROVE  UserspaceOffset(U, XnuOffset(K, Numbers)) # NotANumber
         <=> \E k \in Positions(K), u \in Positions(U) : k < u
  <1> DEFINE first == First(Positions(K))
             behind == {o \in Positions(U) : first # NotANumber /\ o > first}
  <1>1. UserspaceOffset(U, XnuOffset(K, Numbers)) = First(behind)
    BY XnuOffsetFirst DEF UserspaceOffset
  <1>2. Positions(K) \in SUBSET Nat /\ Positions(U) \in SUBSET Nat
    BY PositionsShown
  <1>3. /\ first # NotANumber <=> Positions(K) # {}
        /\ Positions(K) # {} =>
              first \in Positions(K) /\ \A x \in Positions(K) : first <= x
    BY <1>2, FirstIsLeast
  <1>4. behind # {} <=> \E k \in Positions(K), u \in Positions(U) : k < u
    <2> HIDE DEF first
    <2>1. ASSUME behind # {}
          PROVE  \E k \in Positions(K), u \in Positions(U) : k < u
      <3>1. PICK u \in Positions(U) : first # NotANumber /\ u > first
        BY <2>1
      <3>2. first \in Positions(K)  BY <3>1, <1>3
      <3> QED  BY <3>1, <3>2, <1>2
    <2>2. ASSUME NEW k \in Positions(K), NEW u \in Positions(U), k < u
          PROVE  u \in behind
      <3>1. first # NotANumber /\ first \in Nat /\ first <= k
        BY <1>2, <1>3
      <3> QED  BY <3>1, <2>2, <1>2
    <2> QED  BY <2>1, <2>2
  <1>5. behind \in SUBSET Nat  BY <1>2
  <1> HIDE DEF behind
  <1>6. First(behind) # NotANumber <=> behind # {}
    BY <1>5, FirstIsLeast
  <1> QED  BY <1>1, <1>4, <1>6

LEMMA XnuOffsetShown ==
  ASSUME NEW K \in SUBSET Marker
  PROVE  XnuOffset(K, Numbers) # NotANumber <=> Positions(K) # {}
  BY XnuOffsetFirst, PositionsShown, FirstIsLeast

-----------------------------------------------------------------------------
(* The invariant.                                                          *)

LEMMA InitType == Init => TypeInv
  <1> SUFFICES ASSUME Init PROVE TypeInv  OBVIOUS
  <1>1. PICK q \in Requests, k \in Offsets, u \in Offsets : report = Full(q, k, u)
    BY DEF Init
  <1>2. q.backend \in Labels /\ q.target_major \in Numbers
    BY DEF Requests, Targets, Labels, Numbers
  <1>3. KernelMarker(k, q.target_major) \in Marker /\ UserMarker(u) \in Marker
    BY <1>2 DEF KernelMarker, UserMarker, Marker, Numbers
  <1>4. Full(q, k, u) \in Report
    BY <1>2, <1>3 DEF Full, Report
  <1> QED  BY <1>1, <1>4 DEF Init, TypeInv

LEMMA NextType == TypeInv /\ [Next]_vars => TypeInv'
  <1> SUFFICES ASSUME TypeInv, [Next]_vars PROVE TypeInv'  OBVIOUS
  <1> USE DEF TypeInv
  <1>1. CASE Withdraw
    BY <1>1 DEF Withdraw, Report
  <1>2. CASE Object
    BY <1>2 DEF Object, Report
  <1>3. CASE Log
    BY <1>3 DEF Log, Report
  <1>4. CASE Mislabel
    BY <1>4 DEF Mislabel, Report, Labels, Numbers
  <1>5. CASE End
    BY <1>5 DEF End, Change
  <1>6. CASE UNCHANGED vars
    BY <1>6 DEF vars
  <1> QED  BY <1>1, <1>2, <1>3, <1>4, <1>5, <1>6 DEF Next

LEMMA TypeInvariant == Spec => []TypeInv
  BY InitType, NextType, PTL DEF Spec

-----------------------------------------------------------------------------
(* Theorems.                                                               *)

\* Null is no worker's report.
LEMMA RuntimeParsed ==
  ASSUME NEW q \in Requests, Identity(q, Received)
  PROVE  Received = report
  BY DEF Identity, Received, Null, Requests, Backends

LEMMA OneRequest == CountsForOneRequest
  <1> DEFINE S == {q \in Requests : EvaluateReport(q).guest_runtime_started}
  <1>1. \A q \in S : q \in Requests /\ Identity(q, Received)
    BY DEF EvaluateReport, Runtime
  <1>2. \A p, q \in S : p = q
    <2> HIDE DEF S
    <2> SUFFICES ASSUME NEW p \in S, NEW q \in S PROVE p = q  OBVIOUS
    <2>1. p \in Requests /\ q \in Requests  BY <1>1
    <2>2. p.backend = q.backend /\ p.target_major = q.target_major
      BY <1>1 DEF Identity
    <2> QED  BY <2>1, <2>2 DEF Requests
  <1>3. Cardinality(S) <= 1
    <2> HIDE DEF S
    <2>1. CASE S = {}  BY <2>1, FS_EmptySet
    <2>2. CASE S # {}
      <3>1. PICK q \in S : TRUE  BY <2>2
      <3>2. S = {q}  BY <3>1, <1>2
      <3>3. Cardinality({q}) = 1  BY FS_Singleton
      <3> QED  BY <3>2, <3>3
    <2> QED  BY <2>1, <2>2
  <1> QED  BY <1>3 DEF CountsForOneRequest

\* A report counts for one backend and one target only, whatever its flags.
THEOREM OneRequestOnly == Spec => []CountsForOneRequest
  <1>1. TypeInv => CountsForOneRequest  BY OneRequest
  <1> QED  BY <1>1, TypeInvariant, PTL

\* The evaluator concludes userspace from two minima; what it concludes is
\* that some userspace marker lies behind some kernel marker.
THEOREM UserspaceExact == Spec => []UserspaceBehindKernel
  <1>1. ASSUME TypeInv, NEW q \in Requests, Runtime(q, Received)
        PROVE  Userspace(q, Received) <=>
                 /\ "macos_userspace_reached" \in report.facts
                 /\ \E k \in report.xnu, u \in report.userspace :
                      /\ k.known /\ u.known
                      /\ {k.byte_offset, u.byte_offset} \subseteq Offsets
                      /\ k.byte_offset < u.byte_offset
    <2>1. Received = report  BY <1>1, RuntimeParsed DEF Runtime
    <2>2. report.xnu \in SUBSET Marker /\ report.userspace \in SUBSET Marker
      BY <1>1 DEF TypeInv, Report
    <2>3. Userspace(q, Received) <=>
            /\ "macos_userspace_reached" \in report.facts
            /\ \E k \in Positions(report.xnu), u \in Positions(report.userspace) : k < u
      BY <1>1, <2>1, <2>2, UserspaceOffsetShown DEF Userspace, Numbers
    <2>4. (\E k \in Positions(report.xnu), u \in Positions(report.userspace) : k < u)
          <=> \E k \in report.xnu, u \in report.userspace :
                /\ k.known /\ u.known
                /\ {k.byte_offset, u.byte_offset} \subseteq Offsets
                /\ k.byte_offset < u.byte_offset
      BY <2>2, PositionsShown
    <2> QED  BY <2>3, <2>4
  <1>2. TypeInv => UserspaceBehindKernel
    BY <1>1 DEF UserspaceBehindKernel, EvaluateReport
  <1> QED  BY <1>2, TypeInvariant, PTL

\* The evaluator is monotone in the positive evidence.
LEMMA VerifiedMonotone ==
  ASSUME NEW r \in Report, NEW s \in Report, NEW q \in Requests, NEW code,
         s.schema = r.schema, s.engine = r.engine,
         s.target_major = r.target_major,
         s.guest_kernel_major = r.guest_kernel_major,
         s.facts \subseteq r.facts,
         r.facts \cap Objections \subseteq s.facts,
         s.xnu \subseteq r.xnu, s.userspace \subseteq r.userspace,
         Verified(q, s, code)
  PROVE  Verified(q, r, code)
  <1>1. /\ r.xnu \in SUBSET Marker /\ r.userspace \in SUBSET Marker
        /\ s.xnu \in SUBSET Marker /\ s.userspace \in SUBSET Marker
    BY DEF Report
  <1>2. /\ Positions(s.xnu) \subseteq Positions(r.xnu)
        /\ Positions(s.userspace) \subseteq Positions(r.userspace)
    BY <1>1, PositionsShown
  <1>3. Identity(q, r) /\ Runtime(q, r) /\ Terminated(q, r)
    BY DEF Verified, Terminated, Runtime, Identity
  <1>4. Xnu(q, r)
    <2>1. Positions(s.xnu) # {}
      BY <1>1, XnuOffsetShown DEF Verified, Xnu, Numbers
    <2>2. XnuOffset(r.xnu, Majors \cup {NotANumber}) # NotANumber
      BY <1>1, <1>2, <2>1, XnuOffsetShown DEF Numbers
    <2> QED  BY <1>3, <2>2 DEF Verified, Xnu
  <1>5. Userspace(q, r)
    <2>1. \E k \in Positions(s.xnu), u \in Positions(s.userspace) : k < u
      BY <1>1, UserspaceOffsetShown DEF Verified, Userspace, Numbers
    <2>2. \E k \in Positions(r.xnu), u \in Positions(r.userspace) : k < u
      BY <1>2, <2>1
    <2>3. UserspaceOffset(r.userspace, XnuOffset(r.xnu, Majors \cup {NotANumber}))
            # NotANumber
      BY <1>1, <2>2, UserspaceOffsetShown DEF Numbers
    <2> QED  BY <1>3, <2>3 DEF Verified, Userspace
  <1>6. TargetMatch(q, r)
    BY <1>3 DEF Verified, TargetMatch
  <1>7. Intact(q, r)
    BY <1>3 DEF Verified, Intact, Objections
  <1> QED  BY <1>3, <1>4, <1>5, <1>6, <1>7 DEF Verified, Objections

\* What Withdraw leaves is a part of what there was.
LEMMA WithdrawLess ==
  ASSUME TypeInv, Withdraw
  PROVE  /\ report'.schema = report.schema /\ report'.engine = report.engine
         /\ report'.target_major = report.target_major
         /\ report'.guest_kernel_major = report.guest_kernel_major
         /\ report'.facts \subseteq report.facts
         /\ report.facts \cap Objections \subseteq report'.facts
         /\ report'.xnu \subseteq report.xnu
         /\ report'.userspace \subseteq report.userspace
  <1>1. ASSUME NEW f \in Evidence \cap report.facts,
               report' = [report EXCEPT !.facts = @ \ {f}]
        PROVE  /\ report'.facts = report.facts \ {f}
               /\ f \notin Objections
    BY <1>1 DEF TypeInv, Report, Evidence, Objections
  <1> QED  BY <1>1 DEF Withdraw, TypeInv, Report

\* Taking evidence away never makes a boot verify.
THEOREM MoreEvidenceNeeded == Spec => LessNeverVerifies
  <1>1. ASSUME TypeInv, TypeInv', Withdraw, NEW q \in Requests,
               EvaluateReport(q).macos_boot_verified'
        PROVE  EvaluateReport(q).macos_boot_verified
    <2>1. parsed /\ parsed' = parsed /\ exit' = exit
      BY <1>1 DEF Withdraw, Change
    <2>2. Received = report /\ Received' = report'
      BY <2>1 DEF Received
    <2>3. Verified(q, report', exit)
      BY <1>1, <2>1, <2>2 DEF EvaluateReport
    <2>4. report \in Report /\ report' \in Report
      BY <1>1 DEF TypeInv
    <2>5. Verified(q, report, exit)
      BY <1>1, <2>3, <2>4, WithdrawLess, VerifiedMonotone
    <2> QED  BY <2>2, <2>5 DEF EvaluateReport
  <1>2. TypeInv /\ TypeInv' =>
          [Withdraw => \A q \in Requests :
              EvaluateReport(q).macos_boot_verified' =>
                  EvaluateReport(q).macos_boot_verified]_vars
    BY <1>1
  <1> QED  BY <1>2, TypeInvariant, PTL DEF LessNeverVerifies
=============================================================================
