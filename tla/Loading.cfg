CONSTANTS
    c1 = c1
    c2 = c2
    c3 = c3
    c4 = c4
    c5 = c5
    c6 = c6
    PageSize = 2
    MaxPage = 4
    MaxChanges = 1
    MaxFailures = 1
    GridRecords = 3
    RowsPerPage = 2
    LastColumn = 2
    MaxEditable = 3
    Ids = {i1, i2}
    Offered = {1}
    MaxRecords = 1
    MaxAjax = 2
    a1 = a1
    a2 = a2
    a3 = a3
    Boards = {a1, a2}
    Lost = {a3}
    Columns = {group, status, name}
    GroupOf <- GroupColumns
    Sizes = {0, 5}
    InitialSize = 25
    BoardSize = 7
    InitialSorters = {name}
    Sortable = {group, status, name}
    group = group
    status = status
    name = name
SPECIFICATION MCSpec
PROPERTIES EverythingComes GridAppears OneAppearance MaskEventuallyHidden HeadFollows EditsTheNext LockIsReleased
CHECK_DEADLOCK FALSE
