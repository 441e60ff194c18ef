\* Relationship types, two overlapping requests.
SPECIFICATION Spec
CONSTANTS
    Keys = {1, 2, 3, 4, 5}
    Worlds <- TwoRelationships
    Requests = {r1, r2}
    MaxId = 2
    LIMIT = 2
SYMMETRY Symmetry
INVARIANTS
    OneDefault
