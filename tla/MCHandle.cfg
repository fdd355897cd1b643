CONSTANTS
    Handles = {h1, h2, h3}
    Objects = {o1, o2, o3, o4}
    Sizes = {1}
    MaxCrashes = 1
SPECIFICATION Spec
SYMMETRY Symmetry
INVARIANTS
    TypeOK
    RefExact
    NoLeftover
    MappedInBounds
    SharedByName
