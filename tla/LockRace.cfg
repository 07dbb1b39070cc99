CONSTANTS
    Procs = {a, b}
    MaxSaves = 1
SPECIFICATION Spec
INVARIANTS MutualExclusion
