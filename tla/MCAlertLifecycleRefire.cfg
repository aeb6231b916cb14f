SPECIFICATION Spec
CONSTANTS
    j1 = j1
    j2 = j2
    j3 = j3
    a1 = a1
    ann = ann
    Nobody = nobody
    NoWindow = nowindow
    Jobs = {j1, j2, j3}
    Acks = {a1}
    Resolves = {r1}
    MaxTries = 2
    Firing <- MCFiring
    User <- MCUser
PROPERTIES
    OnlyActiveSuppresses
