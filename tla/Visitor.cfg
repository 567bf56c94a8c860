SPECIFICATION Spec
CONSTANTS
    Calls = {c1, c2}
    Ids = {i1, i2}
    Tokens = {t1, t2}
    None = None
SYMMETRY Symmetry
INVARIANTS CountingExact IdentitiesKept
PROPERTY ViewsNeverShrink
