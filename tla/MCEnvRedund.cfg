SPECIFICATION Spec
CONSTANTS
    e0 = e0
    e1 = e1
    e2 = e2
    Envs <- MCEnvs
    default_environment = e0
    Garbage = Garbage
    TornFlags <- MCEven
    Failing <- MCFailing
    UpData = TRUE
INVARIANTS TypeOK SaveIsComplete ProtectedAtPrompt
PROPERTIES BootLoadsLastSave ImplementsSavedEnvironment
