SPECIFICATION EquivSpec
CONSTANTS
    OrderIds = {o1, o2, o3}
    Prices = {1, 2}
    Quantities = {1, 2}
    Slots = {s1, s2, s3}
    None = None
    MaxU64 = 3
    MaxPriority = 4
    Vacant = Vacant
    NoLevel = NoLevel
    NoTaker = NoTaker
    NoFill = NoFill
SYMMETRY Interchangeable
INVARIANTS
    CheckInvariants
    BooksAgree
