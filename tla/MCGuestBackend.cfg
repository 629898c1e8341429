SPECIFICATION Spec
CONSTANTS
    Callers = {t1, t2, t3}
    Targets = {"macos-arm64", "ios-arm64", "x86_64"}
SYMMETRY Symmetry
INVARIANTS
    OneReferenceEach
PROPERTIES
    AvailableOnlyIfResolved
