CONSTANT Layouts <- MCLayouts
SPECIFICATION Spec
CHECK_DEADLOCK FALSE
INVARIANTS
    SameSets
    Exclusive
    Forest
    Uniform
    Fits
