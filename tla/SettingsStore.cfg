SPECIFICATION Spec
CONSTANTS
    Profiles <- MCProfiles
    Mtus <- MCMtus
    ConnParams <- MCConnParams
    Default <- MCDefault
INVARIANTS
    PromiseKept
    ConnectableUnlessTorn
    LinkMatchesConfig
PROPERTY RefusedParamsStay
