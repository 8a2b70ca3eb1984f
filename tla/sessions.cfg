\* Two workers and two tabs; Redis fails once, or a worker restarts once.
SPECIFICATION SessionSpec
CONSTANTS
    Workers = {w1, w2}
    Slots = {r1, r2}
    Sids = {s1, s2, s3}
    HasRedis = TRUE
    MaxTroubles = 1
    None = None
SYMMETRY Alike
INVARIANTS
    SignedInIdIsNew
    EndedStaysEnded
