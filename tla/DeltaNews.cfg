SPECIFICATION Spec
CONSTANTS
    u1 = u1
    u2 = u2
    u3 = u3
    Urls = {u1, u2, u3}
    Fingerprint <- MCFingerprint
    Slots = 2
    Recent = 3
    MaxRuns = 3
    MaxPastes = 1
    MaxTurns = 1
INVARIANTS
    OneRunPerStory
    PassesWithinSlots
CHECK_DEADLOCK FALSE

SYMMETRY MCSymmetry
