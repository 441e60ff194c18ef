\* The four collections, in the worlds of MCCatalogue.
SPECIFICATION Spec
CONSTANTS
    Keys = {1, 2, 3, 4, 5}
    Worlds <- MCWorlds
    Requests = {r1, r2}
    MaxId = 5
    LIMIT = 2
SYMMETRY Symmetry
INVARIANTS
    CodesAreNumbered
    SoleCreateSucceeds
    OneDefault
    AtMostFourActive
    BrowseMissesNothing
