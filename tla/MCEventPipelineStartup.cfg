SPECIFICATION Spec
CONSTANTS
    u1 = u1
    e1 = e1
    e2 = e2
    r1 = r1
    r2 = r2
    r3 = r3
    Uploads = {u1}
    Rules = {r1, r2, r3}
    Broken = {r3}
    MaxTries = 2
    MaxEdits = 1
    Items <- MCItems
    Matches <- MCMatches
INVARIANTS
    StartupInitialises
