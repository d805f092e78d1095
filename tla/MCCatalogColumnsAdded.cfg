CONSTANTS
    This = This  Null = Null
    e1 = e1  e2 = e2  f1 = f1  f2 = f2  a = a  b = b  int = int  t1 = t1  d1 = d1  i1 = i1
    Existing = {e1, e2}
    Fresh = {f1, f2}
    Names = {a, b}
    Types = {int}
    TableNames = {t1}
    Databases = {d1}
    Ids = {i1}
    RowCounts = {0, 1}
    MaxList = 2
SPECIFICATION Spec
\* One table object: once constructed (or once its constructor threw) only
\* setters remain, and a table whose constructor threw does nothing more.
CHECK_DEADLOCK FALSE
PROPERTIES ColumnsAllAdded
