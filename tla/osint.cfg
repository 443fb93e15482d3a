SPECIFICATION Spec
CONSTANTS
    f1 = f1
    f2 = f2
    Nothing = Nothing
    Publications = {"p1", "p2", "s1", "s2"}
    Fires = {f1, f2}
    Places = {"a", "b"}
    Tags = {"t"}
    Summaries = {"s1", "s2"}
    Dates <- MCDates
    Page <- MCPage
    Mentions <- MCMentions
    Regions <- MCRegions
    Hints <- MCHints
    TagPlace <- MCTagPlace
    Events <- MCEvents
    Risks <- MCRisks
    Fiery = {}
    Shaped = {"p1", "s1", "s2"}
    Hashtags <- MCHashtags
    Alike <- MCAlike
    Distance <- MCDistance
    Spelled <- MCSpelled
    Provinces <- MCProvinces
    Observed <- MCObserved
    Commune <- MCCommune
    Window = 1
    Reopen = 1
    Close = 0
    MaxIncidents = 2
    MaxDay = 2
    MaxRejected = 1
    Reviewed = {"p1"}
    MaxFeed = 2
INVARIANTS TypeOK LinksAreGrounded NamedAreLinked FiresSayWhatIsKnown ShownIncidentsAreTold SummariesStayApart
CHECK_DEADLOCK FALSE
