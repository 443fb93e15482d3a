\* A record drawn along its road is announced again while the road services fail.
SPECIFICATION MCSpec
CONSTANTS
    d1 = d1
    d2 = d2
    e1 = e1
    e2 = e2
    datex1 = datex1
    datex2 = datex2
    Datex = {d1, d2}
    Etraffic = {e1, e2}
    Matchable = {d1}
    Enrichable = {d1, d2}
    MaxLines = 2
    BatchLimit = 1
    DatexRuns = {datex1, datex2}
    EtrafficRuns = {etraffic1}
    EnrichRuns = {enrich1}
    NoRun = NoRun
PROPERTY RouteSegmentsKept
