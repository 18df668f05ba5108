SPECIFICATION MCSpec
CONSTANTS
    OnePage = FALSE
    Ids = {i1, i2}
    PageSizes = {0, 1}
    DefaultPageSize = 1
    MaxTotal = 2
    MaxAjax = 0
    MaxPage = 6
    MaxSize = 5
    MaxResults = 7
    MaxWindow = 3
    Null = Null
    Placements = {top, bottom}
    Queries = {"p", "q"}
    InitialQuery = "p"
    MaxShown = 2
    MaxActions = 1
SYMMETRY Symmetry
CONSTRAINT MenuAlone
INVARIANTS ReturnsThePage HandlesReachEveryRecord ToolbarsFollow LinksAreCurrent
PROPERTIES NoRangeError UndisturbedAnswerSyncs UndisturbedFailureReverts
