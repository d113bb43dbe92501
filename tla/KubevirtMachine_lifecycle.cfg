CONSTANTS
    IsControlPlane <- MCIsControlPlane
    IndexHitsMachine <- MCIndexHitsMachine
    MaxFaults <- MCMaxFaults
SPECIFICATION Spec
PROPERTY
    ImplementsLifecycle
