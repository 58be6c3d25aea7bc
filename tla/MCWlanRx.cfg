\* two stations, frames of up to three fragments of which two fit, two elements
SPECIFICATION Spec
CONSTANTS
    s1 = s1
    s2 = s2
    None = None
    Station = {s1, s2}
    MAXFRAGCLASS = 2
    MAXFILTERLEN = 2
    MAXFRAGTIMEOUT = 2
    Fits = 2
    MaxFragments = 3
    MaxMsdu = 2
    MaxTries = 2
SYMMETRY RxSymmetry
INVARIANTS
    TypeOK
    WholeFrames
    DeliveredOnce
    BusyIsTimed
