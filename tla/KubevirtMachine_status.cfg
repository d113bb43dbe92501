CONSTANTS
    IsControlPlane <- MCIsControlPlane
    IndexHitsMachine <- MCIndexHitsMachine
    MaxFaults <- MCMaxFaults
SPECIFICATION Spec
INVARIANT
    ProviderIDStatusComplete
