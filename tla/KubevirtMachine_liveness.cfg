CONSTANTS
    IsControlPlane <- MCIsControlPlane
    IndexHitsMachine <- MCIndexHitsMachine
    MaxFaults <- MCMaxFaults
SPECIFICATION Spec
PROPERTIES
    EventuallyProvisioned
    DeletionCompletes
