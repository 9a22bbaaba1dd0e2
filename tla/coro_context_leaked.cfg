CONSTANTS
    Coro = {c1}
    MaxAwaits = 2
SPECIFICATION Spec
CHECK_DEADLOCK FALSE
INVARIANT
    HeapContextOwned
