--------------------------- MODULE VskPolicy_proof ---------------------------
(* What holds of a configuration after any number of edits, and the range    *)
(* check for every width.                                                    *)
EXTENDS VskPolicy, TLAPS

LEMMA Shape ==
  /\ Dictionaries = {"Policy", "CPU", "Security", "Memory", "Storage", "Graphics", "Guest"}
  /\ Fields \in [Dictionaries -> SUBSET Keys]
  /\ Requirements \subseteq Fields.Security
  <1>1. Dictionaries = {"Policy", "CPU", "Security", "Memory", "Storage", "Graphics", "Guest"}
    BY DEF Dictionaries, Fields
  <1>2. Fields = [d \in Dictionaries |-> Fields[d]]
    BY DEF Dictionaries, Fields
  <1>3. Fields \in [Dictionaries -> SUBSET Keys]
    BY <1>2 DEF Keys
  <1> QED  BY <1>1, <1>3 DEF Requirements

LEMMA InitType == Init => TypeOK
  <1> SUFFICES ASSUME Init PROVE TypeOK  OBVIOUS
  <1>1. [Fields EXCEPT !.Policy = @ \ {"Storage"}] \in [Dictionaries -> SUBSET Keys]
    BY Shape
  <1>2. [k \in Fields.Security |-> k # "DMABypass"] \in [Fields.Security -> BOOLEAN]
    OBVIOUS
  <1> QED  BY <1>1, <1>2 DEF Init, TypeOK, Template

LEMMA NextType == TypeOK /\ [Next]_vars => TypeOK'
  <1> SUFFICES ASSUME TypeOK, [Next]_vars PROVE TypeOK'  OBVIOUS
  <1>1. CASE UNCHANGED vars
    BY <1>1 DEF TypeOK, vars
  <1>2. CASE EditKeys
    <2>1. PICK d \in Dictionaries :
             \/ \E k \in Fields[d] \cup {"NotARealKey"} :
                   config' = [config EXCEPT !.given[d] = IF k \in @ THEN @ \ {k} ELSE @ \cup {k}]
             \/ config' = [config EXCEPT !.ill = @ \cup {d}]
      BY <1>2 DEF EditKeys, Edit
    <2>2. ASSUME NEW k \in Fields[d] \cup {"NotARealKey"},
                 config' = [config EXCEPT !.given[d] =
                               IF k \in @ THEN @ \ {k} ELSE @ \cup {k}]
          PROVE  TypeOK'
      <3>1. k \in Keys
        BY DEF Keys
      <3>2. [config.given EXCEPT ![d] = IF k \in @ THEN @ \ {k} ELSE @ \cup {k}]
               \in [Dictionaries -> SUBSET Keys]
        BY <3>1 DEF TypeOK
      <3> QED  BY <2>2, <3>2 DEF TypeOK
    <2>3. CASE config' = [config EXCEPT !.ill = @ \cup {d}]
      BY <2>3 DEF TypeOK
    <2> QED  BY <2>1, <2>2, <2>3
  <1>3. CASE EditValue
    <2>1. CASE \/ config' = [config EXCEPT !.platform = "AnyPC"]
               \/ config' = [config EXCEPT !.minimum_isa = "sse2"]
      BY <2>1 DEF TypeOK
    <2>2. ASSUME NEW k \in Fields.Security, config' = [config EXCEPT !.security[k] = ~@]
          PROVE  TypeOK'
      <3>1. [config.security EXCEPT ![k] = ~@] \in [Fields.Security -> BOOLEAN]
        BY DEF TypeOK
      <3> QED  BY <2>2, <3>1 DEF TypeOK
    <2>3. ASSUME NEW k \in Fields.Memory, config' = [config EXCEPT !.memory[k] = 0]
          PROVE  TypeOK'
      BY <2>3 DEF TypeOK
    <2>4. ASSUME NEW p \in {"macos26-tahoe", "macos27-golden-gate", "macos28-void"},
                 config' = [config EXCEPT !.profile_id = p]
          PROVE  TypeOK'
      BY <2>4 DEF TypeOK
    <2>5. \/ config' = [config EXCEPT !.platform = "AnyPC"]
          \/ config' = [config EXCEPT !.minimum_isa = "sse2"]
          \/ \E k \in Fields.Security : config' = [config EXCEPT !.security[k] = ~@]
          \/ \E k \in Fields.Memory : config' = [config EXCEPT !.memory[k] = 0]
          \/ \E p \in {"macos26-tahoe", "macos27-golden-gate", "macos28-void"} :
                config' = [config EXCEPT !.profile_id = p]
      BY <1>3 DEF EditValue, Edit
    <2> QED  BY <2>1, <2>2, <2>3, <2>4, <2>5
  <1> QED  BY <1>1, <1>2, <1>3 DEF Next

\* What acceptance looks at.
LEMMA VerdictReads ==
  ASSUME NEW c, NEW e,
         \A d \in Dictionaries \ {"Security"} : c.given[d] = e.given[d],
         \A d \in Dictionaries : Has(c, d) <=> Has(e, d),
         Malformed(c) <=> Malformed(e),
         Flag(c, "DMABypass") <=> Flag(e, "DMABypass"),
         c.platform = e.platform, c.minimum_isa = e.minimum_isa,
         c.memory = e.memory, c.profile_id = e.profile_id
  PROVE  PolicyError(c) = PolicyError(e)
  <1>1. /\ c.given.Policy = e.given.Policy /\ c.given.CPU = e.given.CPU
        /\ c.given.Memory = e.given.Memory /\ c.given.Guest = e.given.Guest
        /\ Has(c, "CPU") <=> Has(e, "CPU")
        /\ Has(c, "Security") <=> Has(e, "Security")
        /\ Has(c, "Memory") <=> Has(e, "Memory")
        /\ Has(c, "Guest") <=> Has(e, "Guest")
    BY Shape
  <1> QED  BY <1>1 DEF PolicyError

\* A requirement is not among these things.
LEMMA SameVerdict ==
  ASSUME TypeOK, NEW k \in Requirements
  PROVE  Accepted(Requiring(config, k)) <=> Accepted(config)
  <1> DEFINE c == Requiring(config, k)
  <1>1. k \in Fields.Security /\ k # "DMABypass"
    BY Shape DEF Requirements
  <1>2. /\ \A d \in Dictionaries \ {"Security"} : c.given[d] = config.given[d]
        /\ c.given.Security = config.given.Security \cup {k}
        /\ c.ill = config.ill /\ c.platform = config.platform
        /\ c.minimum_isa = config.minimum_isa /\ c.memory = config.memory
        /\ c.profile_id = config.profile_id
    BY Shape DEF Requiring, TypeOK
  <1>3. \A d \in Dictionaries : Has(c, d) <=> Has(config, d)
    BY <1>2, Shape DEF Has
  <1>4. Malformed(c) <=> Malformed(config)
    BY <1>1, <1>2, <1>3, Shape DEF Malformed
  <1>5. Flag(c, "DMABypass") <=> Flag(config, "DMABypass")
    <2>1. c.security = [config.security EXCEPT ![k] = TRUE]
      BY DEF Requiring, TypeOK
    <2>2. "DMABypass" \in Fields.Security
      BY DEF Fields
    <2>3. c.security["DMABypass"] = config.security["DMABypass"]
      BY <1>1, <2>1, <2>2 DEF TypeOK
    <2>4. "DMABypass" \in c.given.Security <=> "DMABypass" \in config.given.Security
      BY <1>1, <1>2
    <2> QED  BY <2>3, <2>4 DEF Flag
  <1>6. PolicyError(c) = PolicyError(config)
    BY <1>2, <1>3, <1>4, <1>5, VerdictReads
  <1> QED  BY <1>6 DEF Accepted

\* The policy that requires more requires what the other did, and k.
LEMMA OneMore ==
  ASSUME TypeOK, NEW k \in Requirements
  PROVE  Normalized(config).required \subseteq Normalized(Requiring(config, k)).required
  BY Shape DEF Normalized, Flag, Requiring, TypeOK

LEMMA Restricts == TypeOK => RequirementsOnlyRestrict
  <1> SUFFICES ASSUME TypeOK, NEW k \in Requirements, NEW present \in SUBSET Requirements
               PROVE  /\ Accepted(Requiring(config, k)) <=> Accepted(config)
                      /\ Admits(Requiring(config, k), present) => Admits(config, present)
                      /\ Admits(config, present) => Admits(config, present \cup {k})
    BY DEF RequirementsOnlyRestrict
  <1> QED  BY SameVerdict, OneMore DEF Admits, RequiredFeaturesPresent

\* To require one more feature only restricts, whatever was edited before.
THEOREM StricterRestricts == Spec => []RequirementsOnlyRestrict
  BY InitType, NextType, Restricts, PTL DEF Spec

\* range_check passes exactly the grants whose every byte is a byte of the
\* object, and an empty one at most at its end: the checked addition neither
\* wraps nor refuses a range that fits, for every width.
THEOREM RangeExact ==
  ASSUME NEW offset \in 0..U64Max, NEW length \in 0..U64Max, NEW within \in 0..U64Max
  PROVE  RangeError([offset |-> offset, length |-> length], within) = "ok"
            <=> /\ offset <= within
                /\ \A i \in 0..U64Max : i < length => offset + i < within
  <1> USE PolicyAssumption
  <1>1. RangeError([offset |-> offset, length |-> length], within) = "ok"
            <=> offset + length <= within
    BY DEF RangeError
  <1>2. CASE length = 0
    BY <1>1, <1>2
  <1>3. CASE length > 0
    <2>1. length - 1 \in 0..U64Max /\ length - 1 < length
      BY <1>3
    <2>2. ASSUME \A i \in 0..U64Max : i < length => offset + i < within
          PROVE  offset + length <= within
      <3>1. offset + (length - 1) < within  BY <2>1, <2>2
      <3> QED  BY <3>1, <1>3
    <2> QED  BY <1>1, <1>3, <2>2
  <1> QED  BY <1>2, <1>3
=============================================================================
