SPECIFICATION Spec
CONSTANTS
    c1 = c1
    c2 = c2
    Sessions = {s1, s2}
    Candidates = {c1, c2}
    Options <- MCOptions
    Lightweight <- MCLightweight
    None = None
    MaxMinted = 5
CONSTRAINT OneCompaction
SYMMETRY Symmetry
CHECK_DEADLOCK FALSE
INVARIANT TypeOK
PROPERTIES SupersededChangesNothing PrimaryNextIsKept BypassIsOneShot CandidatesAreBreakers
