\* A complete snapshot whose alerts are all over or cannot be drawn.
SPECIFICATION MCSpec
CONSTANTS
    a1 = a1
    a2 = a2
    Alerts = {a1}
    Requests = {r1}
    Rows = {k1}
    NoRow = NoRow
    MaxTime = 3
PROPERTY MassExpiryConfirmed
