\* Two alerts in one request at a time; one alert in two requests at any moment.
SPECIFICATION MCSpec
CONSTANTS
    a1 = a1
    a2 = a2
    Alerts = {a1, a2}
    Requests = {r1, r2}
    Rows = {k1, k2}
    NoRow = NoRow
    MaxTime = 3
SYMMETRY Symmetry
INVARIANTS TypeOK OneRowUnlessShared
PROPERTIES CompleteEndsOthers AppliedAsAWhole
