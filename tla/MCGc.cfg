SPECIFICATION Spec
CONSTANTS
    Object <- MCObject
    None <- MCNone
    MarkLimit = 1
    Heaps <- MCHeaps
INVARIANTS
    TypeOK
    ExactlyGarbage
    WeakMirror
