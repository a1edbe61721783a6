SPECIFICATION Spec
CONSTANTS
    ParamTypes <- MCParamTypes
    ColBindings <- MCColBindings
    Setters <- MCSetters
    Values <- MCValues
    MaxFaults = 2
INVARIANTS
    BoundBuffersLive
    ClassifiedAsItFailed
    Prepared
    WritesFit
