SPECIFICATION LSpec
CONSTANTS
    Ip = {i1, i2}
    Hit = {h1, h2}
    Limit = 2
    Window = 2
    MaxTime = 5
    NoBucket = NoBucket
INVARIANT TwiceAcrossBoundary
