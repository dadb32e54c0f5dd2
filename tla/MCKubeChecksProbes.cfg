SPECIFICATION Spec
CONSTANTS
    Inputs <- MCInputs
    Documents <- MCDocuments
    Depth <- MCDepth
    Nesting <- MCNesting
    RequireCPULimit = TRUE
    RequireMemoryLimit = TRUE
    MinReplicasDeployment = 2
    MinReplicasHPA = 10
    Half = 4
    Fold <- MCFold
    KubernetesVersion = 21
INVARIANT
    ProbesOnlyIfTargeted
CHECK_DEADLOCK FALSE
