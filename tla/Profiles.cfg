\* One user's profile, or four users who are shown to each other.
SPECIFICATION Spec
CONSTANTS
    Users = {1, 2, 3, 4}
    Genders = {1, 2}
    Requests = {r1, r2}
    Lookups = {x1, x2}
    LIMIT = 2
    Bounds <- MCBounds
SYMMETRY Symmetry
INVARIANTS
    ProfileIsWhole
    LastGenderIsShown
    ExploreExcludes
    EverybodyCanBeShown
