CONSTANTS
    c1 = c1
    c2 = c2
    c3 = c3
    k1 = k1
    k2 = k2
    va = va
    vb = vb
    vc = vc
    None = None
    Blank = Blank
    All = All
    p = p
    q = q
    x = x
    y = y
    checkboxes = checkboxes
    name = name
    m1 = m1
    m2 = m2
    m3 = m3
    actions = actions
    Loaded <- Cards
    BoardColumns = {k1, k2}
    Ids <- TwoValues
    Initially <- OneCardEach
    MaxDrops = 2
    Config <- FourColumns
    Managed = {m1, m2, m3}
    Required = {m3}
    Searches = {{m1, m2, m3}, {m2}}
    ColumnViews <- TwoViews
    SortColumns <- TwoColumns
    ToggleColumns = {m2}
    Defaults <- SecondFirst
    SorterViews <- SavedOrders
    MaxSorts = 2
    ViewNames = {view, other}
    Rest = {p, q}
    ViewSorters = {x, y}
    MaxObjects = 7
    MaxSaves = 2
    Views = {view, All}
    Filters = {"filter"}
    Columns = {"columns"}
    MaxPage = 2
    Slots = {1, 2}
SPECIFICATION MCSpec
VIEW View
SYMMETRY Symmetry
CONSTRAINT Followed
INVARIANTS SettledIsSaved CopiesAgree SortedAsShown EditedIsMarked
PROPERTIES LandsWhereDropped FailedMoveIsUndone ViewsComeBack ComesBack
CHECK_DEADLOCK FALSE
