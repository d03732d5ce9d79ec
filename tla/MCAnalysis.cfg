SPECIFICATION FairSpec
CONSTANTS
    Decade = 2
    Octave = 1
    Variables = {"v", "w"}
    Parameters = {"p", "q"}
    Values <- MCValues
    Original <- MCOriginal
    Markers <- MCMarkers
    SweepLists <- MCSweepLists
    MaxStops = 1
    MaxStarts = 2
    Polls = {2}
INVARIANTS
    PointHasItsValues
    RangesAreCovered
    PointStartsFromWhatFits
    RestoresOriginals
PROPERTIES
    EnumeratesInOrder
    EveryRunEnds
CHECK_DEADLOCK FALSE
