CONSTANTS
    m1 = m1
    m2 = m2
    m3 = m3
    m4 = m4
    k1 = k1
    k2 = k2
    k3 = k3
    c1 = c1
    c2 = c2
    none = none
    NoOwner = NoOwner
    NoRef = none
    OwnerCluster = c1
    Clusters <- MCClusters
    MachineCluster <- MCMachineCluster
    Machines <- MCOwnMachines
    InfraNames <- MCOwnInfraNames
    MachineInfraRef <- MCOwnInfraRef
    MaxFaults <- MCNoFaults
SPECIFICATION Spec
PROPERTY
    EveryDependentRequested
