CONSTANTS
    Coro = {c1, c2}
    MaxAwaits = 2
SPECIFICATION Spec
CHECK_DEADLOCK FALSE
INVARIANTS
    TypeOK
    NoUseAfterFree
    ShutdownDrains
    OwnedUntilStop
PROPERTIES
    CompletionResumes
    DestructorReturns
    ImplementsAwait
