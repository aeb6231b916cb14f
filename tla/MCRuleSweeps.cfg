SPECIFICATION Spec
CONSTANTS
    c1 = c1
    t1 = t1
    w1 = w1
    w2 = w2
    s1 = s1
    s2 = s2
    NoState = nostate
    Composite = {c1}
    Threshold = {t1}
    Writes = {w1, w2}
    Sweeps = {s1, s2}
    Hot = {w2}
    MaxTries = 2
    RuleOf <- MCRuleOf
SYMMETRY Symmetry
INVARIANTS
    TypeOK
    StoresInStep
    NothingReturns
    FiresOnce
PROPERTIES
    ClearsOnlyWhatFired
