SPECIFICATION Spec
CONSTANTS
    Calls = {c1, c2}
    Sweeps = {s1}
    Files = {f1}
    Resources = {r1}
    NULL = NULL
PROPERTIES
    LifecycleKept
