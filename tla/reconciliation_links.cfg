\* The same three fires, for the links of detections alone.
SPECIFICATION Spec
CONSTANTS
    Fires = {1, 2, 3}
    Detections = {1}
    Cells <- Line
    Place <- Middle
    Shapes <- Patches
    TagSets <- Hashtags
    Window = 1
    GroupDays = 1
    Before = 1
    GroupReach = 2
    LinkReach = 0
    MaxDay = 2
    MaxOpen = 2
    MaxCrowd = 2
    NoIncident = NoIncident
INVARIANTS LinksRebuilt
