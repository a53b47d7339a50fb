----------------------------- MODULE Object2DB ------------------------------
(***************************************************************************)
(* The operations of the data server's Object2DB (object2db.h,             *)
(* object2db.in.h, object2db.cpp): the older mapping, with a generated     *)
(* descriptor per class (player.db.h), which has no object fields.         *)
(***************************************************************************)
EXTENDS TinyORM

Obj == {p \in Programs : Backend[p] = "object2db"}

(* object2Query() and pair2Query() print floats with six digits. *)
object2Query(f, v) == IF Numeric(f) THEN Printed[v] ELSE v
ObjRow(p, v) == [f \in fields(p) |-> object2Query(f, v)]
record2Object(f, cell) == IF cell = NULL THEN NullText ELSE cell

(* updateTable(): an exception of any of its statements makes it return false. *)
ObjLeave(p, t, ok) == Return(p, Answer(task[p].op, ok))

ObjUpdateTable(p, t) == p \in Obj /\ Show(p, "updateTable", {t}, DOMAIN db)
ObjUpdateExistTable(p) ==
    /\ p \in Obj
    /\ \/ \E t \in Tables : Desc(p, t, ObjLeave)
       \/ AddField(p, ObjLeave)
       \/ Updated(p, ObjLeave)
ObjCreateMissing(p, t) == p \in Obj /\ CreateMissing(p, t, ObjLeave)
ObjCreateTable(p, t) == p \in Obj /\ CreateTable(p, t)
ObjDropTable(p, t) == p \in Obj /\ DropTable(p, t)

insertDB(p, t, k, v) ==
    /\ p \in Obj
    /\ Insert(p, "insert", t, k, v, Has(t, fields(p)) /\ k \notin RowKeys(t), ObjRow(p, v))
replaceDB(p, t, k, v) ==
    p \in Obj /\ Insert(p, "replace", t, k, v, Has(t, fields(p)), ObjRow(p, v))
updateDB(p, t, k, v) == p \in Obj /\ Update(p, t, k, v, ObjRow(p, v))
deleteDB(p, t, k) == p \in Obj /\ Delete(p, "del", t, {k})
ObjDeleteFromDB(p, t) == p \in Obj /\ Delete(p, "deleteFromDB", t, Keys)

selectDB(p, t, k) == p \in Obj /\ Read(p, t, k, record2Object, LAMBDA row : TRUE)
ObjLoadFromDB(p, t) ==
    p \in Obj /\ Load(p, t, IF Has(t, fields(p)) THEN RowKeys(t) ELSE {}, TRUE)
=============================================================================
