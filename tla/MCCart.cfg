SPECIFICATION Spec
CONSTANTS
    Handlers = {h1, h2}
    Carts = {c1, c2}
    Items = {i1, i2}
    NoCart = NoCart
    NoItem = NoItem
    MaxQuantity = 1
    MaxLine = 2
    MaxVersion = 2
INVARIANT
    CartIsConsistent
PROPERTY
    SavesAreIsolated
SYMMETRY
    Symmetry
CHECK_DEADLOCK FALSE
