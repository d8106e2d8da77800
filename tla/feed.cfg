SPECIFICATION Spec
CONSTANTS
    Prices = {1, 2, 9}
    MinPrice = 1
    MaxPrice = 2
    BadPrice = 9
    Depths = {1, 3}
    Quantities = {0, 1}
    MaxMessages = 5
    MaxEpoch = 1
    NoPrice = NoPrice
INVARIANTS
    LiveLadderIsVenueBook
    LadderIsGenuine
