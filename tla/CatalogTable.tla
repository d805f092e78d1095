----------------------------- MODULE CatalogTable -----------------------------
(***************************************************************************)
(* com.blazingdb.calcite.catalog.domain.CatalogTableImpl (initialize.h,   *)
(* lines 398-595): the Hibernate entity for a catalog table and the       *)
(* columns it owns.  One table object is modelled, from construction      *)
(* through its setters; the column objects it touches are CatalogColumn-  *)
(* Impl instances whose table, name, type and order fields its            *)
(* constructors set.  Strings, Long ids and Double row counts are model   *)
(* values or small sets; Null is Java's null.                             *)
(***************************************************************************)
EXTENDS Integers, Sequences, FiniteSets, Functions, SequencesExt

CONSTANTS
    This,          \* the table object
    Null,          \* Java null
    Existing,      \* column objects built by the caller, passed in a List
    Fresh,         \* column objects the constructor may create with new
    Names,         \* column names
    Types,         \* column data type strings
    TableNames, Databases, Ids, RowCounts,
    MaxList        \* bound on the length of the lists passed in

Columns == Existing \cup Fresh

VARIABLES
    status,        \* "none" before construction, "built", or "threw"
    name, rowcount, database, id,
    tableColumns,  \* the HashMap<String, CatalogColumnImpl>: a function
    given,         \* the columns the last constructor was asked to add
    colTable,      \* colTable[c]: the table column c refers to
    colName, colType, colOrder, \* the other fields of each column
    allocated      \* the Fresh columns already created

cvars == <<status, name, rowcount, database, id, tableColumns, given,
           colTable, colName, colType, colOrder, allocated>>

Lists(S) == BoundedSeq(S, MaxList)
EmptyMap == [x \in {} |-> Null]

\* tableColumns.put(k, c): a later put with the same key replaces.
Put(m, k, c) == [x \in DOMAIN m \cup {k} |-> IF x = k THEN c ELSE m[x]]

\* The loop of the (name, db, columns) constructors: every column is told
\* it belongs to this table, then put under its current name.
PutColumns(m, cols) ==
    FoldLeft(LAMBDA acc, c : Put(acc, colName[c], c), m, cols)

\* getColumns(): the map's values, sorted, collected into a LinkedHashSet.
\* Only which columns it returns matters here, not their order.
GetColumns == Range(tableColumns)

\* The getters Hibernate and callers read the entity through.
GetTableName == name
GetRowCount == rowcount
GetTableColumns == tableColumns

Init ==
    /\ status = "none"
    /\ name = Null /\ rowcount = Null /\ database = Null /\ id = Null
    /\ tableColumns = EmptyMap
    /\ given = <<>>
    /\ colTable = [c \in Columns |-> Null]
    /\ colName \in {f @@ [c \in Fresh |-> Null] : f \in [Existing -> Names]}
    /\ colType = [c \in Columns |-> Null]
    /\ colOrder = [c \in Columns |-> Null]
    /\ allocated = {}

-----------------------------------------------------------------------------
\* CatalogTableImpl(): only the map is initialised.
CatalogTableImpl0 ==
    /\ status = "none"
    /\ status' = "built"
    /\ tableColumns' = EmptyMap
    /\ UNCHANGED <<name, rowcount, database, id, given, colTable, colName, colType, colOrder, allocated>>

\* CatalogTableImpl(name, db, columns [, rowcount]): each column gets
\* setTable(this) and is put under its name; rowcount is boxed when given.
Construct(n, db, cols, rc) ==
    /\ status = "none"
    /\ status' = "built"
    /\ name' = n /\ database' = db /\ rowcount' = rc
    /\ given' = cols
    /\ colTable' = [c \in Columns |-> IF c \in Range(cols) THEN This ELSE colTable[c]]
    /\ tableColumns' = PutColumns(EmptyMap, cols)
    /\ UNCHANGED <<id, colName, colType, colOrder, allocated>>

CatalogTableImpl1(n, db, cols) == Construct(n, db, cols, Null)

CatalogTableImpl2(n, db, cols, rc) == Construct(n, db, cols, rc)

\* The body of the four-argument constructor.  base is the order value of
\* the first column (the loop index starts at 0); the fault variant below
\* differs from the constructor in it.  When
\* there are fewer types than names, the loop completes Len(types)
\* columns, creates one more, and columnTypes.get(i) throws out of it.
Build3(n, db, names, types, base) ==
    LET throws == Len(types) < Len(names)
        done   == IF throws THEN Len(types) ELSE Len(names)
    IN
    /\ status = "none"
    /\ status' = IF throws THEN "threw" ELSE "built"
    /\ name' = n /\ database' = db
    /\ \E fs \in [1..(done + IF throws THEN 1 ELSE 0) -> Fresh \ allocated] :
          LET loop == SubSeq(fs, 1, done)
              pos(c) == CHOOSE i \in DOMAIN loop : loop[i] = c
              new(c) == c \in Range(loop)
          IN /\ IsInjective(fs)
             /\ colType' = [c \in Columns |-> IF new(c) THEN types[pos(c)] ELSE colType[c]]
             /\ colTable' = [c \in Columns |-> IF new(c) THEN This ELSE colTable[c]]
             /\ colName' = [c \in Columns |-> IF new(c) THEN names[pos(c)] ELSE colName[c]]
             /\ colOrder' = [c \in Columns |-> IF new(c) THEN pos(c) - 1 + base ELSE colOrder[c]]
             /\ tableColumns' = FoldLeft(LAMBDA acc, c : Put(acc, names[pos(c)], c), EmptyMap, loop)
             /\ given' = loop
             /\ allocated' = allocated \cup Range(fs)
    /\ UNCHANGED <<rowcount, id>>

\* Fault variant: setOrderValue(i - 1), an off-by-one in the loop index.
CatalogTableImpl3OffByOne(n, db, names, types) ==
    Build3(n, db, names, types, -1)

\* CatalogTableImpl(name, db, columnNames, columnTypes): a new column per
\* name, given its type, this table, its name and its 0-based position,
\* then put under its name.  columnTypes.get(i) throws when the type list
\* is shorter, and the constructor propagates the exception: the object,
\* with the columns linked so far, is never returned.
CatalogTableImpl3(n, db, names, types) ==
    Build3(n, db, names, types, 0)

-----------------------------------------------------------------------------
(* Setters, as Hibernate and callers use them. *)

SetDatabase(db) ==
    /\ status = "built" /\ database' = db
    /\ UNCHANGED <<status, name, rowcount, id, tableColumns, given, colTable, colName, colType, colOrder, allocated>>

SetId(x) ==
    /\ status = "built" /\ id' = x
    /\ UNCHANGED <<status, name, rowcount, database, tableColumns, given, colTable, colName, colType, colOrder, allocated>>

SetTableName(n) ==
    /\ status = "built" /\ name' = n
    /\ UNCHANGED <<status, rowcount, database, id, tableColumns, given, colTable, colName, colType, colOrder, allocated>>

SetRowcount(rc) ==
    /\ status = "built" /\ rowcount' = rc
    /\ UNCHANGED <<status, name, database, id, tableColumns, given, colTable, colName, colType, colOrder, allocated>>

\* setTableColumns(map): Hibernate hands over the columns mapped by
\* "table" to this one, keyed by their name (@MapKey).
HibernateMaps ==
    {m \in UNION {[K -> Columns] : K \in SUBSET Names} :
        \A k \in DOMAIN m : colName[m[k]] = k /\ colTable[m[k]] = This}

SetTableColumns(m) ==
    /\ status = "built" /\ tableColumns' = m
    /\ UNCHANGED <<status, name, rowcount, database, id, given, colTable, colName, colType, colOrder, allocated>>

Next ==
    \/ CatalogTableImpl0
    \/ \E n \in TableNames, db \in Databases, cols \in Lists(Existing) :
          \/ CatalogTableImpl1(n, db, cols)
          \/ \E rc \in RowCounts : CatalogTableImpl2(n, db, cols, rc)
    \/ \E n \in TableNames, db \in Databases, names \in Lists(Names), types \in Lists(Types) :
          CatalogTableImpl3(n, db, names, types)
    \/ \E db \in Databases : SetDatabase(db)
    \/ \E x \in Ids : SetId(x)
    \/ \E n \in TableNames : SetTableName(n)
    \/ \E rc \in RowCounts : SetRowcount(rc)
    \/ \E m \in HibernateMaps : SetTableColumns(m)

Spec == Init /\ [][Next]_cvars

-----------------------------------------------------------------------------
TypeOK ==
    /\ status \in {"none", "built", "threw"}
    /\ name \in TableNames \cup {Null} /\ database \in Databases \cup {Null}
    /\ rowcount \in RowCounts \cup {Null} /\ id \in Ids \cup {Null}
    /\ \E K \in SUBSET Names : tableColumns \in [K -> Columns]
    /\ colTable \in [Columns -> {This, Null}]
    /\ colName \in [Columns -> Names \cup {Null}]
    /\ colType \in [Columns -> Types \cup {Null}]
    /\ colOrder \in [Columns -> Nat \cup {Null}]
    /\ allocated \subseteq Fresh

\* Javadoc of the constructors: "columns: list of columns to be added to
\* the table" -- right after construction, getColumns() returns every
\* column the constructor was given or created.
ColumnsAllAdded ==
    [][status = "none" /\ status' = "built" => Range(given') \subseteq GetColumns']_cvars

\* name and rowcount are @Column(nullable = false): once a table has a
\* name, it also has a row count, or Hibernate cannot persist it.
NamedTableHasRowCount ==
    (status = "built" /\ GetTableName # Null) => GetRowCount # Null
=============================================================================
