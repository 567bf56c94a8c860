\* More threads than connections, one of them opened at the start.
CONSTANTS
    Threads = {a, b, c}
    MaxPool = 2
    Warm = 1
SPECIFICATION Spec
INVARIANTS Accounted NoneStranded
