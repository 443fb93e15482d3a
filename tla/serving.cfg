CONSTANTS
    d1 = d1
    d2 = d2
    d3 = d3
    forecast = forecast
    incident = incident
    Resource = {d1, d2, d3, forecast, incident}
    Facts <- MCFacts
    NoTime = NoTime
    RunLimit = 2
    Reach = 1
    Apart = 3
    Executions = {e1, e2}
    Waits = {24}
    MaxHour = 24
    i1 = i1
    all = all
    Incident = {i1}
    Dated = {}
    Query = {all}
    Matches <- MCMatches
    Client = {c1}
    Request = {r1, r2}
    Ttl = 2
    Minute = 2
    Expiry = 3
    RateLimit = 2
    MaxTick = 4
    MaxChanges = 1
SPECIFICATION MCSpec
INVARIANTS TypeOK CompletedRunLinks CopiesFade
PROPERTIES ConfidenceOnlyFades LimitIsPerMinute
SYMMETRY Symmetric
CHECK_DEADLOCK FALSE
