SPECIFICATION FairSpec
CONSTANTS
    Sources <- MCSources
    ValueMaps <- MCValueMaps
INVARIANTS
    VariablesScoped
    RendersTheMeaning
PROPERTIES
    RenderEnds
CHECK_DEADLOCK FALSE
