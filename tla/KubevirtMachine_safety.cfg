CONSTANTS
    IsControlPlane <- MCIsControlPlane
    IndexHitsMachine <- MCIndexHitsMachine
    MaxFaults <- MCMaxFaults
SPECIFICATION Spec
INVARIANTS
    TypeOK
    BootstrapFlagsTruthful
PROPERTIES
    VMOnlyUnderFinalizer
    FinalizerReleasedAfterDeleting
