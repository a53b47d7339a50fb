----------------------------- MODULE ORMCluster -----------------------------
(***************************************************************************)
(* Programs of different versions, with different mappings, that share one *)
(* database: they create, update and drop tables and read and write        *)
(* objects at the same time.                                               *)
(***************************************************************************)
EXTENDS TinyMySqlORM, TinySociORM, Object2DB

(* A program stores values its own class can read back. *)
MySqlNext(p) ==
    \/ MySqlUpdateTables(p) \/ MySqlUpdateExistTable(p)
    \/ \E t \in Tables :
        \/ MySqlUpdateTable(p, t) \/ MySqlCreateByName(p, t)
        \/ MySqlCreateTable(p, t) \/ MySqlDropTable(p, t)
        \/ MySqlDeleteFromDB(p, t) \/ MySqlLoadFromDB(p, t)
        \/ \E k \in Keys : MySqlDel(p, t, k) \/ MySqlSelect(p, t, k)
        \/ \E k \in Keys, v \in Reads[p] :
               MySqlInsert(p, t, k, v) \/ MySqlReplace(p, t, k, v) \/ MySqlUpdate(p, t, k, v)

SociNext(p) ==
    \/ SociUpdateTables(p) \/ SociUpdateExistTable(p)
    \/ \E t \in Tables :
        \/ SociUpdateTable(p, t) \/ SociCreateByName(p, t)
        \/ SociCreateTable(p, t) \/ SociDropTable(p, t)
        \/ SociDeleteFromDB(p, t) \/ SociLoadFromDB(p, t)
        \/ \E k \in Keys : SociDel(p, t, k) \/ SociSelect(p, t, k)
        \/ \E k \in Keys, v \in Reads[p] :
               SociInsert(p, t, k, v) \/ SociReplace(p, t, k, v) \/ SociUpdate(p, t, k, v)

ObjNext(p) ==
    \/ ObjUpdateExistTable(p)
    \/ \E t \in Tables :
        \/ ObjUpdateTable(p, t) \/ ObjCreateMissing(p, t)
        \/ ObjCreateTable(p, t) \/ ObjDropTable(p, t)
        \/ ObjDeleteFromDB(p, t) \/ ObjLoadFromDB(p, t)
        \/ \E k \in Keys : deleteDB(p, t, k) \/ selectDB(p, t, k)
        \/ \E k \in Keys, v \in Reads[p] :
               insertDB(p, t, k, v) \/ replaceDB(p, t, k, v) \/ updateDB(p, t, k, v)

Next == \E p \in Programs : MySqlNext(p) \/ SociNext(p) \/ ObjNext(p)

Spec == Init /\ [][Next]_vars
-----------------------------------------------------------------------------
Cells == Values \cup {NULL}

(***************************************************************************)
(* Every row of a table has exactly the table's columns, whatever order    *)
(* tables were created, altered and written in; only a column that may be  *)
(* NULL is.                                                                *)
(***************************************************************************)
TypeOK ==
    /\ DOMAIN db \subseteq Tables /\ DOMAIN written \subseteq Tables \X Keys
    /\ \A t \in DOMAIN db :
        /\ db[t].cols \subseteq Fields /\ RowKeys(t) \subseteq Keys
        /\ \A k \in RowKeys(t) :
            /\ db[t].rows[k] \in [db[t].cols -> Cells]
            /\ \A f \in db[t].cols : Numeric(f) => db[t].rows[k][f] # NULL
    /\ \A w \in DOMAIN written : written[w].value \in Values
    /\ calls \in 0..MaxCalls /\ failures \in 0..MaxFailures

(***************************************************************************)
(* When updateTable() or updateTables() returns true, the tables have all  *)
(* fields of the program's descriptors, although the table is looked for,  *)
(* described and altered in separate statements.  With SOCI and with       *)
(* Object2DB a true result of updateTable() can be relied on unless a      *)
(* table was dropped meanwhile; TinyMySqlORM, and updateTables() of both,  *)
(* return true also when a connection was lost or another program created  *)
(* or altered the table meanwhile.  A table whose name has lower-case      *)
(* letters is excepted from updateTables().                                *)
(***************************************************************************)
Reliable(p) == Backend[p] # "mysql" /\ task[p].op = "updateTable"
UpdatedMeansColumns ==
    [][\A p \in Programs :
        /\ task[p].op # "idle" /\ task'[p].op = "idle" /\ last'[p].ret
        /\ IF Reliable(p) THEN "drop" \notin disturbed'[p] ELSE disturbed'[p] = {}
        => \A t \in IF task[p].op = "updateTables" THEN UpperCase ELSE task[p].todo :
               Has(t, fields(p))']_vars

(***************************************************************************)
(* select() of an object that a program stored gives the members it        *)
(* stored, to it and to programs of other versions and mappings as far as  *)
(* they have them, through whatever tables were altered and other rows     *)
(* written in between; the program that stored it last is answered true    *)
(* unless its connection is lost.  A float has six digits, in which every  *)
(* mapping reads the column, and a double too, unless SOCI wrote it.  A    *)
(* member that cannot be deserialized is left alone, as TinyMySqlORM does  *)
(* with one whose serialization was empty.                                 *)
(***************************************************************************)
AsRead(p, q, f, v) ==
    IF Kind[f] = "float" \/ (Kind[f] = "double" /\ Backend[q] # "soci") THEN Printed[v]
    ELSE IF Kind[f] = "object" /\ (v \notin Reads[p] \/ (Backend[p] = "mysql" /\ v = Empty))
         THEN Fresh ELSE v

ReadBack ==
    \A p, q \in Programs :
        last[p].op = "select" /\ last[p].want.by = q =>
            /\ p = q => last[p].ret \/ last[p].failed
            /\ last[p].ret => \A f \in fields(p) \cap fields(q) :
                                  last[p].object[f] = AsRead(p, q, f, last[p].want.value)

-----------------------------------------------------------------------------
(***************************************************************************)
(* The inductive strengthening of ReadBack: a stored object is in its row, *)
(* in the form that its program wrote it.                                  *)
(***************************************************************************)
Cell(p, f, v) == IF Numeric(f) /\ Backend[p] # "soci" THEN Printed[v] ELSE v

RowsHaveColumns ==
    \A t \in DOMAIN db : \A k \in RowKeys(t) : db[t].cols \subseteq DOMAIN db[t].rows[k]

StoredIsThere ==
    /\ DOMAIN written \subseteq Tables \X Keys
    /\ \A t \in Tables, k \in Keys : <<t, k>> \in DOMAIN written =>
        LET o == written[<<t, k>>]
        IN  /\ o.by \in Programs /\ o.value \in Reads[o.by]
            /\ Has(t, fields(o.by)) /\ k \in RowKeys(t)
            /\ \A f \in fields(o.by) : db[t].rows[k][f] = Cell(o.by, f, o.value)

(***************************************************************************)
(* The inductive strengthening of UpdatedMeansColumns: what a task knows   *)
(* of the tables is still true unless it was disturbed.                    *)
(***************************************************************************)
TaskShape(p) ==
    /\ task[p].op \in {"idle", "updateTable", "updateTables"}
    /\ task[p].op = "updateTable" => \E t \in Tables : task[p].todo = {t}
    /\ Backend[p] = "object2db" => task[p].op # "updateTables"
    /\ task[p].table # "" => task[p].op # "idle" /\ task[p].table \in task[p].todo

Tasks ==
    /\ DOMAIN task = Programs /\ DOMAIN last = Programs /\ DOMAIN disturbed = Programs
    /\ failures \in Nat
    /\ \A p \in Programs : TaskShape(p)

(* The table p's task has described has the fields it does not miss. *)
Described(p) ==
    task[p].table # "" /\ "drop" \notin disturbed[p] =>
        /\ task[p].table \in DOMAIN db
        /\ \A i \in DOMAIN FieldsOrdered[p] :
               FieldsOrdered[p][i] \in db[task[p].table].cols \/ i \in task[p].missing

(* The tables an answer of p's task is about. *)
Promised(p) == IF task[p].op = "updateTables" THEN UpperCase ELSE task[p].todo

Undisturbed(p) ==
    task[p].op # "idle" /\ disturbed[p] = {} =>
        /\ \A u \in Promised(p) \ task[p].todo : Has(u, fields(p))
        /\ \A u \in (Promised(p) \cap task[p].todo) \ {task[p].table} :
               u \in task[p].seen <=> u \in DOMAIN db
        /\ task[p].table # "" =>
               /\ task[p].missing \subseteq DOMAIN FieldsOrdered[p]
               /\ \A i \in task[p].missing :
                      FieldsOrdered[p][i] \notin db[task[p].table].cols

IInv ==
    /\ RowsHaveColumns /\ StoredIsThere /\ ReadBack
    /\ Tasks /\ \A p \in Programs : Described(p) /\ Undisturbed(p)
=============================================================================
