\* A scheduled run overlapping a reprocessed CSV.
SPECIFICATION FairSpec
CONSTANTS
    Detections = {d1, d2}
    Scheduled = {task}
    Reprocess = {csv}
    Sources = 2
    MaxRetries = 2
INVARIANTS TypeOK CompletedRunStored LedgerTruthful DuplicatesAreOverlaps IInv
PROPERTIES RunsEnd
