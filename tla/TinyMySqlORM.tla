---------------------------- MODULE TinyMySqlORM ----------------------------
(***************************************************************************)
(* The operations of TinyMySqlORM (tinyorm_mysql.h, tinyorm_mysql.in.h):   *)
(* statements are text written with mysqlpp::Query.                        *)
(***************************************************************************)
EXTENDS TinyORM

MySql == {p \in Programs : Backend[p] = "mysql"}

(***************************************************************************)
(* fieldToQuery(): a float or double is printed with the stream's six      *)
(* digits.  Members of the other types are stored as they are.             *)
(***************************************************************************)
fieldToQuery(f, v) == IF Numeric(f) THEN Printed[v] ELSE v

(* A mistake ReadBack finds: the list of values ends one field early. *)
makeValueListButLast(p, v) ==
    LET n == Len(FieldsOrdered[p])
    IN [f \in fields(p) \ {FieldsOrdered[p][n]} |-> fieldToQuery(f, v)]

(* makeValueList(), makeKeyValueList(): the columns an object is written to. *)
makeValueList(p, v) == [f \in fields(p) |-> fieldToQuery(f, v)]

(***************************************************************************)
(* recordToObject(): an object field that is NULL or empty is skipped and  *)
(* sets the result to true again, whatever an earlier field set it to.     *)
(***************************************************************************)
Skipped(f, cell) == Kind[f] = "object" /\ cell \in {NULL, Empty}
Unread(p, f, cell) == Kind[f] = "object" /\ ~Skipped(f, cell) /\ cell \notin Reads[p]

recordToField(p, f, cell) ==
    IF Skipped(f, cell) \/ Unread(p, f, cell) THEN Fresh
    ELSE IF cell = NULL THEN NullText ELSE cell

recordToObject(p, row) ==
    LET fs == FieldsOrdered[p]
    IN \A i \in DOMAIN fs : Unread(p, fs[i], row[fs[i]]) =>
           \E j \in DOMAIN fs : j > i /\ Skipped(fs[j], row[fs[j]])

(***************************************************************************)
(* updateTables() and updateTable() go on, and return true, whether or not *)
(* a table could be created or updated.                                    *)
(***************************************************************************)
MySqlLeave(p, t, ok) ==
    IF task[p].todo = {t}
    THEN Return(p, Answer(task[p].op, TRUE))
    ELSE NextTable(p, t) /\ UNCHANGED last

(* showTables() puts the names in upper case, and finds descriptors by them. *)
showTables == DOMAIN db \cap UpperCase
MySqlUpdateTables(p) == p \in MySql /\ Show(p, "updateTables", Tables, showTables)
MySqlUpdateTable(p, t) == p \in MySql /\ Show(p, "updateTable", {t}, DOMAIN db)
MySqlUpdateExistTable(p) ==
    /\ p \in MySql
    /\ \/ \E t \in Tables : Desc(p, t, MySqlLeave)
       \/ AddField(p, MySqlLeave)
       \/ Updated(p, MySqlLeave)
MySqlCreateByName(p, t) == p \in MySql /\ CreateMissing(p, t, MySqlLeave)
MySqlCreateTable(p, t) == p \in MySql /\ CreateTable(p, t)
MySqlDropTable(p, t) == p \in MySql /\ DropTable(p, t)

MySqlInsert(p, t, k, v) ==
    /\ p \in MySql
    /\ Insert(p, "insert", t, k, v, Has(t, fields(p)) /\ k \notin RowKeys(t),
              makeValueList(p, v))
MySqlReplace(p, t, k, v) ==
    p \in MySql /\ Insert(p, "replace", t, k, v, Has(t, fields(p)), makeValueList(p, v))
MySqlUpdate(p, t, k, v) == p \in MySql /\ Update(p, t, k, v, makeValueList(p, v))
MySqlDel(p, t, k) == p \in MySql /\ Delete(p, "del", t, {k})
MySqlDeleteFromDB(p, t) == p \in MySql /\ Delete(p, "deleteFromDB", t, Keys)

MySqlSelect(p, t, k) ==
    p \in MySql /\ Read(p, t, k, LAMBDA f, c : recordToField(p, f, c),
                        LAMBDA row : recordToObject(p, row))

(* vloadFromDB(): a row that cannot be read is left out, and true returned. *)
MySqlLoadFromDB(p, t) ==
    /\ p \in MySql
    /\ LET rows == IF Has(t, fields(p)) THEN RowKeys(t) ELSE {}
       IN Load(p, t, {k \in rows : recordToObject(p, db[t].rows[k])}, TRUE)
=============================================================================
