---------------------------- MODULE TinySociORM -----------------------------
(***************************************************************************)
(* The operations of TinySociORM (tinyorm_soci.h, tinyorm_soci.in.h):      *)
(* values are bound to SOCI statements.                                    *)
(***************************************************************************)
EXTENDS TinyORM

Soci == {p \in Programs : Backend[p] = "soci"}

(* fieldToStatement() binds every member with its full precision. *)
fieldToStatement(f, v) == v
SociRow(p, v) == [f \in fields(p) |-> fieldToStatement(f, v)]

(***************************************************************************)
(* recordToObject(): row.get<std::string>() throws where the column is     *)
(* NULL; the fields before it are in the object by then.                   *)
(***************************************************************************)
ThrowsAt(p, row) == {i \in DOMAIN FieldsOrdered[p] : row[FieldsOrdered[p][i]] = NULL}
SociRecordToField(p, f, cell) ==
    IF cell = NULL \/ (Kind[f] = "object" /\ cell \notin Reads[p]) THEN Fresh ELSE cell
SociRecordToObject(p, row) ==
    /\ ThrowsAt(p, row) = {}
    /\ \A f \in fields(p) : Kind[f] = "object" => row[f] \in Reads[p]

(***************************************************************************)
(* updateTable() returns what createTable() or updateExistTable() returned; *)
(* updateTables() goes on and returns true.                                *)
(***************************************************************************)
(* A mistake UpdatedMeansColumns finds: the result is ignored. *)
SociLeaveTrue(p, t, ok) == Return(p, Answer(task[p].op, TRUE))
SociLeave(p, t, ok) ==
    IF task[p].todo = {t}
    THEN Return(p, Answer(task[p].op, task[p].op = "updateTables" \/ ok))
    ELSE NextTable(p, t) /\ UNCHANGED last

SociShowTables == DOMAIN db \cap UpperCase
SociUpdateTables(p) == p \in Soci /\ Show(p, "updateTables", Tables, SociShowTables)
SociUpdateTable(p, t) == p \in Soci /\ Show(p, "updateTable", {t}, DOMAIN db)
SociUpdateExistTable(p) ==
    /\ p \in Soci
    /\ \/ \E t \in Tables : Desc(p, t, SociLeave)
       \/ AddField(p, SociLeave)
       \/ Updated(p, SociLeave)
SociCreateByName(p, t) == p \in Soci /\ CreateMissing(p, t, SociLeave)
SociCreateTable(p, t) == p \in Soci /\ CreateTable(p, t)
SociDropTable(p, t) == p \in Soci /\ DropTable(p, t)

SociInsert(p, t, k, v) ==
    /\ p \in Soci
    /\ Insert(p, "insert", t, k, v, Has(t, fields(p)) /\ k \notin RowKeys(t), SociRow(p, v))
SociReplace(p, t, k, v) ==
    p \in Soci /\ Insert(p, "replace", t, k, v, Has(t, fields(p)), SociRow(p, v))
SociUpdate(p, t, k, v) == p \in Soci /\ Update(p, t, k, v, SociRow(p, v))
SociDel(p, t, k) == p \in Soci /\ Delete(p, "del", t, {k})
SociDeleteFromDB(p, t) == p \in Soci /\ Delete(p, "deleteFromDB", t, Keys)

SociSelect(p, t, k) ==
    p \in Soci /\ Read(p, t, k, LAMBDA f, c : SociRecordToField(p, f, c),
                       LAMBDA row : SociRecordToObject(p, row))

(***************************************************************************)
(* vloadFromDB(): the loop ends at the first row that throws; what came    *)
(* before it was delivered.  The function returns false in every case.     *)
(***************************************************************************)
SociLoadFromDB(p, t) ==
    /\ p \in Soci
    /\ LET rows == IF Has(t, fields(p)) THEN RowKeys(t) ELSE {}
           readable == {k \in rows : SociRecordToObject(p, db[t].rows[k])}
           throwing == {k \in rows : ThrowsAt(p, db[t].rows[k]) # {}}
       IN \E delivered \in SUBSET readable :
              /\ throwing = {} => delivered = readable
              /\ Load(p, t, delivered, FALSE)
=============================================================================
