----------------------------- MODULE VskPolicy -----------------------------
(***************************************************************************)
(* VskPolicy::from_plist_bytes and required_features_present, and          *)
(* VfGrant::range_check (src/vf_policy.rs).  A configuration starts as the *)
(* golden-gate template and is edited: keys are removed, invented or given *)
(* another value or one of the wrong type.  The hash of the file and the   *)
(* text of errors are left out.                                            *)
(***************************************************************************)
EXTENDS Integers

CONSTANTS
    MaxEdits,  \* bound: edits of the template
    U64Max     \* the largest u64

ASSUME PolicyAssumption == {MaxEdits, U64Max} \subseteq Nat

VARIABLES
    config,  \* the property list
    edits    \* edits so far

vars == <<config, edits>>

-----------------------------------------------------------------------------
(* The property list.                                                      *)

\* RawPolicy and its sections: the keys that deny_unknown_fields lets pass.
Fields ==
    [Policy |-> {"SchemaVersion", "PlatformPolicy", "CPU", "Security", "Memory",
                 "Storage", "Graphics", "Guest"},
     CPU |-> {"MinimumISA", "Codegen", "HybridScheduling", "VCPUs",
              "ServiceLogicalCPUs", "SMTPolicy"},
     Security |-> {"VMXRequired", "EPTRequired", "IOMMURequired",
                   "InterruptRemappingRequired", "DMABypass"},
     Memory |-> {"GuestMiB", "HostReserveMiB", "JITCacheMiB"},
     Storage |-> {"ID", "Backend", "DeviceSerial", "DiskGUID", "PartitionGUID",
                  "SectorBytes", "ReadOnly"},
     Graphics |-> {"Device", "DriverPolicy", "MinimumProfile", "OnUnsupported"},
     Guest |-> {"ProfileID", "RequireMetal"}]
Dictionaries == DOMAIN Fields
Keys == {"NotARealKey"} \cup UNION {Fields[d] : d \in Dictionaries}
Requirements == Fields.Security \ {"DMABypass"}

\* given: the keys of each dictionary; ill: dictionaries with a value of the
\* wrong type; then what the keys say that the policy reads.  The template has
\* no Storage; Storage stands for the devices a file would list there.
Template ==
    [given |-> [Fields EXCEPT !.Policy = @ \ {"Storage"}],
     ill |-> {},
     platform |-> "AppleIntelOnly",
     minimum_isa |-> "sse4.2",
     security |-> [k \in Fields.Security |-> k # "DMABypass"],
     memory |-> [k \in Fields.Memory |-> 1],
     profile_id |-> ""]

Has(c, dictionary) == dictionary \in c.given.Policy \cup {"Policy"}

Malformed(c) ==
    \E d \in Dictionaries :
        Has(c, d) /\ (d \in c.ill \/ ~(c.given[d] \subseteq Fields[d]))

\* unwrap_or(false)
Flag(c, k) == k \in c.given.Security /\ c.security[k]

-----------------------------------------------------------------------------
(* from_plist_bytes: the first check that fails, and the policy.           *)

PolicyError(c) ==
    IF Malformed(c) THEN "Plist"
    ELSE IF "PlatformPolicy" \in c.given.Policy /\ c.platform # "AppleIntelOnly"
    THEN "PlatformPolicy"
    ELSE IF ~Has(c, "CPU") THEN "UnknownKey"
    ELSE IF "MinimumISA" \in c.given.CPU /\ c.minimum_isa # "sse4.2"
    THEN "GuestProfile"
    ELSE IF ~Has(c, "Security") THEN "UnknownKey"
    ELSE IF Flag(c, "DMABypass") THEN "WeakenedSecurity"
    ELSE IF \/ ~Has(c, "Memory")
            \/ \E k \in Fields.Memory : k \notin c.given.Memory \/ c.memory[k] = 0
            \/ ~Has(c, "Guest")
    THEN "UnknownKey"
    ELSE IF /\ "ProfileID" \in c.given.Guest
            /\ c.profile_id \notin {"", "macos26-tahoe", "macos27-golden-gate"}
    THEN "GuestProfile"
    ELSE "ok"

\* The normalized policy; it denies boot whatever the configuration says.
Normalized(c) ==
    [platform |-> "AppleIntelOnly",
     guest_profile |-> IF "ProfileID" \in c.given.Guest THEN c.profile_id ELSE "",
     required |-> {k \in Requirements : Flag(c, k)},
     memory |-> c.memory,
     boot_authorized |-> FALSE,
     denial_reason |-> "NoSignatureVerifier"]

\* Mutant of RequiredFeaturesPresent: one required feature is enough.
RequiredFeaturesPresentAny(policy, present) ==
    policy.required \cap present # {} \/ policy.required \ {"IOMMURequired"} = {}

\* It has no parameter for the IOMMU.
RequiredFeaturesPresent(policy, present) ==
    policy.required \ {"IOMMURequired"} \subseteq present

-----------------------------------------------------------------------------
(* VfGrant::range_check.                                                   *)

RangeError(grant, within) ==
    IF grant.offset + grant.length > U64Max THEN "Erange"  \* checked_add
    ELSE IF grant.offset + grant.length > within THEN "Erange"
    ELSE "ok"

-----------------------------------------------------------------------------

Init == config = Template /\ edits = 0

Edit(c) ==
    /\ edits < MaxEdits
    /\ edits' = edits + 1
    /\ config' = c

EditKeys ==
    \E d \in Dictionaries :
        \/ \E k \in Fields[d] \cup {"NotARealKey"} :
              Edit([config EXCEPT !.given[d] = IF k \in @ THEN @ \ {k} ELSE @ \cup {k}])
        \/ Edit([config EXCEPT !.ill = @ \cup {d}])

EditValue ==
    \/ Edit([config EXCEPT !.platform = "AnyPC"])
    \/ Edit([config EXCEPT !.minimum_isa = "sse2"])
    \/ \E k \in Fields.Security : Edit([config EXCEPT !.security[k] = ~@])
    \/ \E k \in Fields.Memory : Edit([config EXCEPT !.memory[k] = 0])
    \/ \E p \in {"macos26-tahoe", "macos27-golden-gate", "macos28-void"} :
          Edit([config EXCEPT !.profile_id = p])

Next == EditKeys \/ EditValue

Spec == Init /\ [][Next]_vars

-----------------------------------------------------------------------------
(* Properties.                                                             *)

Accepted(c) == PolicyError(c) = "ok"

\* A configuration admits a cell with the features present.
Admits(c, present) == Accepted(c) /\ RequiredFeaturesPresent(Normalized(c), present)

TypeOK ==
    config \in [given : [Dictionaries -> SUBSET Keys],
                ill : SUBSET Dictionaries,
                platform : {"AppleIntelOnly", "AnyPC"},
                minimum_isa : {"sse4.2", "sse2"},
                security : [Fields.Security -> BOOLEAN],
                memory : [Fields.Memory -> {0, 1}],
                profile_id : {"", "macos26-tahoe", "macos27-golden-gate", "macos28-void"}]

\* c with one more requirement, written or switched on.
Requiring(c, k) ==
    [c EXCEPT !.given.Security = @ \cup {k}, !.security[k] = TRUE]

\* To require one more feature can only restrict: the stricter configuration
\* is accepted whenever the other is, and admits no cell that it did not admit.
\* A cell with more features is admitted wherever one with fewer is.
RequirementsOnlyRestrict ==
    \A k \in Requirements, present \in SUBSET Requirements :
        /\ Accepted(Requiring(config, k)) <=> Accepted(config)
        /\ Admits(Requiring(config, k), present) => Admits(config, present)
        /\ Admits(config, present) => Admits(config, present \cup {k})

\* "no security downgrade when VMX, EPT, DMA remapping or interrupt remapping
\* is absent" (the comment on PolicyError), "weakened security settings are
\* rejected" (the comment on from_plist_bytes): an accepted policy admits no
\* cell without the features that required_features_present can check.
NoSecurityDowngrade ==
    \A present \in SUBSET Requirements :
        Admits(config, present) => Requirements \ {"IOMMURequired"} \subseteq present

=============================================================================
