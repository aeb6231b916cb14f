SPECIFICATION Spec
CONSTANTS
    u1 = u1
    i1 = i1
    i2 = i2
    j1 = j1
    j2 = j2
    x1 = x1
    NoDoc = nodoc
    Uploads = {u1}
    Imported = {i1, i2}
    Blank = {i2}
    Calls = {j1, j2}
    Deletes = {x1}
    MaxTries = 2
SYMMETRY Symmetry
INVARIANTS
    TypeOK
    StoreAndTable
    IndexConsistent
