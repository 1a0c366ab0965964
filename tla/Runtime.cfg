SPECIFICATION MCSpec
CONSTANTS
    Workers = {1, 2}
    Bounds <- ProfilerBounds
    StackSize = 2
    MaxRead = 5
INVARIANTS
    MinorCollectionExact
    YoungIsRemembered
    HeapDiscipline
    NothingLeftBehind
    OwnErrorReported
    LookaheadsAreLALR
    ParsesTheLanguage
    TrackingExact
