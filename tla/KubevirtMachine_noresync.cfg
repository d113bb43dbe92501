CONSTANTS
    IsControlPlane <- MCIsControlPlane
    IndexHitsMachine <- MCIndexHitsMachine
    MaxFaults <- MCMaxFaults
SPECIFICATION SpecNoResync
PROPERTY
    EventuallyProvisioned
