------------------------------ MODULE TinyORM -------------------------------
(***************************************************************************)
(* What the object-relational mappings share: table descriptors            *)
(* (tinyorm.h, tinyorm.cpp), the statements they generate, and the MySQL   *)
(* database the statements run against.  TinyMySqlORM, TinySociORM and     *)
(* Object2DB give the operations of the three mappings; ORMCluster runs    *)
(* several programs against one database.                                  *)
(*                                                                         *)
(* A program is one version of the software: its descriptors need not have *)
(* the fields another program's have.  Every SQL statement is one step.  A *)
(* statement throws if the database refuses it, or because the connection  *)
(* failed, before or after the database executed it.                       *)
(***************************************************************************)
EXTENDS Integers, Sequences, FiniteSets, SequencesExt

CONSTANTS
    Programs,
    Backend,            \* Backend[p]: "mysql", "soci" or "object2db"
    Tables,
    UpperCase,          \* the tables whose names have no lower-case letter
    Fields,             \* fields other than the primary key
    Kind,               \* Kind[f]: "float", "double", "text" or "object"
    FieldsOrdered,      \* FieldsOrdered[p]: fields_ordered_ of p's descriptors
    Keys,
    Values,             \* what objects' members hold
    Empty,              \* the value whose serialization is the empty string
    Printed,            \* Printed[v]: v written with six significant digits
    Reads,              \* Reads[p]: object values that p's class can deserialize
    NULL, NullText,     \* SQL's NULL, and how mysqlpp::String spells it
    Fresh,              \* a member of a default-constructed object
    MaxCalls,           \* bound: calls of all programs
    MaxFailures         \* bound: statements that lose their connection

fields(p) == ToSet(FieldsOrdered[p])

ASSUME ORMAssumption ==
    /\ Backend \in [Programs -> {"mysql", "soci", "object2db"}]
    /\ Kind \in [Fields -> {"float", "double", "text", "object"}]
    /\ \A p \in Programs : fields(p) \subseteq Fields /\ FieldsOrdered[p] # <<>>
    /\ \A p \in Programs : \A i, j \in DOMAIN FieldsOrdered[p] :
           FieldsOrdered[p][i] = FieldsOrdered[p][j] => i = j
    /\ \A p \in Programs : Backend[p] = "object2db" =>
                               \A f \in fields(p) : Kind[f] # "object"
    /\ Printed \in [Values -> Values] /\ Empty \in Values
    /\ \A v \in Values : Printed[Printed[v]] = Printed[v]
    /\ Reads \in [Programs -> SUBSET Values]
    /\ UpperCase \subseteq Tables /\ "" \notin Tables
    /\ {NULL, NullText, Fresh} \cap Values = {}
    /\ "nobody" \notin Programs
    /\ MaxCalls \in Nat /\ MaxFailures \in Nat

VARIABLES
    db,                 \* the tables there are: their columns and rows
    task,               \* task[p]: how far p's change of table structures is
    last,               \* last[p]: the call of p that returned last
    calls, failures,
    disturbed,          \* disturbed[p]: why p's running task may miss columns
    written             \* written[<<t, k>>]: the last object stored there, and by whom

vars == <<db, task, last, calls, failures, disturbed, written>>

Idle == [op |-> "idle", todo |-> {}, seen |-> {}, table |-> "", missing |-> {}]
NoCall == [op |-> "none", ret |-> FALSE]
Nothing == [x \in {} |-> {}]

(* The function f with d at x; the cells of a row that new replaces in old. *)
With(f, x, d) == [y \in DOMAIN f \cup {x} |-> IF y = x THEN d ELSE f[y]]
Over(new, old) ==
    [f \in DOMAIN new \cup DOMAIN old |-> IF f \in DOMAIN new THEN new[f] ELSE old[f]]

Init ==
    /\ db = Nothing /\ written = Nothing
    /\ task = [p \in Programs |-> Idle] /\ last = [p \in Programs |-> NoCall]
    /\ calls = 0 /\ failures = 0 /\ disturbed = [p \in Programs |-> {}]
-----------------------------------------------------------------------------
(***************************************************************************)
(* The database.  A column of a numeric type is NOT NULL and has a         *)
(* default, one of another type is NULL where nothing was stored.          *)
(***************************************************************************)
Numeric(f) == Kind[f] \in {"float", "double"}
sql_default(f) == IF Numeric(f) THEN Empty ELSE NULL

Has(t, fs) == t \in DOMAIN db /\ fs \subseteq db[t].cols
RowKeys(t) == DOMAIN db[t].rows
WithRows(t, rows) == [db EXCEPT ![t] = [cols |-> db[t].cols, rows |-> rows]]
Stored(t, row) == Over(row, [f \in db[t].cols |-> sql_default(f)])

sql_create(t, p) == With(db, t, [cols |-> fields(p), rows |-> Nothing])
sql_drop(t) == [u \in DOMAIN db \ {t} |-> db[u]]
sql_addfield(t, f) ==
    [db EXCEPT ![t] = [cols |-> db[t].cols \cup {f},
                       rows |-> [k \in RowKeys(t) |-> With(db[t].rows[k], f, sql_default(f))]]]
sql_insert(t, k, row) == WithRows(t, With(db[t].rows, k, Stored(t, row)))
sql_update(t, k, row) ==
    WithRows(t, [j \in RowKeys(t) |-> IF j = k THEN Over(row, db[t].rows[j]) ELSE db[t].rows[j]])
sql_delete(t, ks) == WithRows(t, [j \in RowKeys(t) \ ks |-> db[t].rows[j]])
-----------------------------------------------------------------------------
(***************************************************************************)
(* A statement is executed, or throws an exception.                        *)
(***************************************************************************)
LosesConnection == failures < MaxFailures /\ failures' = failures + 1
Executes(accepted, new) == accepted /\ db' = new /\ UNCHANGED failures
Throws(accepted, new) ==
    \/ ~accepted /\ UNCHANGED <<db, failures>>
    \/ LosesConnection /\ (db' = db \/ (accepted /\ db' = new))

Call(p) == task[p].op = "idle" /\ calls < MaxCalls /\ calls' = calls + 1

Return(p, r) == last' = [last EXCEPT ![p] = r] /\ task' = [task EXCEPT ![p] = Idle]
Answer(op, ok) == [op |-> op, ret |-> ok]

(* A structure p changes disturbs the tasks of others, a lost connection p's. *)
Disturb(p, what) ==
    disturbed' = [q \in Programs |-> disturbed[q] \cup
                    IF q = p THEN (IF failures' = failures THEN {} ELSE {"failed"})
                             ELSE (IF db' = db THEN {} ELSE {what})]
Without(where) == [w \in DOMAIN written \ where |-> written[w]]

(***************************************************************************)
(* One statement that changes rows: insert, replace, update, delete.       *)
(***************************************************************************)
Modify(p, op, t, ks, accepted, new, after) ==
    /\ Call(p)
    /\ \/ Executes(accepted, new) /\ Return(p, Answer(op, TRUE)) /\ written' = after
       \/ Throws(accepted, new) /\ Return(p, Answer(op, FALSE)) /\ written' = Without({t} \X ks)
    /\ UNCHANGED disturbed

Remember(p, t, k, v) == With(written, <<t, k>>, [by |-> p, value |-> v])

(* The statement writes row, the columns that the object v was converted to. *)
Insert(p, op, t, k, v, accepted, row) ==
    Modify(p, op, t, {k}, accepted, sql_insert(t, k, row), Remember(p, t, k, v))
Update(p, t, k, v, row) ==
    Modify(p, "update", t, {k}, Has(t, fields(p)), sql_update(t, k, row),
           IF k \in RowKeys(t) THEN Remember(p, t, k, v) ELSE written)
Delete(p, op, t, ks) ==
    Modify(p, op, t, ks, t \in DOMAIN db, sql_delete(t, ks), Without({t} \X ks))

(***************************************************************************)
(* One statement that creates or drops a table.                            *)
(***************************************************************************)
CreateTable(p, t) ==
    /\ Call(p)
    /\ LET accepted == t \notin DOMAIN db IN
       \/ Executes(accepted, sql_create(t, p)) /\ Return(p, Answer("create", TRUE))
       \/ Throws(accepted, sql_create(t, p)) /\ Return(p, Answer("create", FALSE))
    /\ Disturb(p, "other") /\ UNCHANGED written
DropTable(p, t) ==
    /\ Call(p)
    /\ LET accepted == t \in DOMAIN db IN
       \/ Executes(accepted, sql_drop(t)) /\ Return(p, Answer("drop", TRUE))
       \/ Throws(accepted, sql_drop(t)) /\ Return(p, Answer("drop", FALSE))
    /\ Disturb(p, "drop") /\ written' = Without({t} \X Keys)

(***************************************************************************)
(* Bringing the structure of existing tables up to date: SHOW TABLES, then *)
(* for a table that is there DESC, and ALTER TABLE for each field that is  *)
(* not.                                                                    *)
(***************************************************************************)
AtTable(p, t, missing) ==
    task' = [task EXCEPT ![p] = [op |-> task[p].op, todo |-> task[p].todo,
                                 seen |-> task[p].seen, table |-> t, missing |-> missing]]
NextTable(p, t) ==
    task' = [task EXCEPT ![p] = [op |-> task[p].op, todo |-> task[p].todo \ {t},
                                 seen |-> task[p].seen, table |-> "", missing |-> {}]]

Show(p, op, todo, seen) ==
    /\ Call(p)
    /\ \/ /\ task' = [task EXCEPT ![p] = [op |-> op, todo |-> todo, seen |-> seen,
                                           table |-> "", missing |-> {}]]
          /\ UNCHANGED <<failures, last>>
       \/ LosesConnection /\ Return(p, Answer(op, FALSE))
    /\ disturbed' = [disturbed EXCEPT ![p] = {}] /\ UNCHANGED <<db, written>>

Next1(p, t) == task[p].op # "idle" /\ task[p].table = "" /\ t \in task[p].todo

Desc(p, t, Leave(_, _, _)) ==
    /\ Next1(p, t) /\ t \in task[p].seen
    /\ \/ /\ t \in DOMAIN db /\ UNCHANGED <<failures, disturbed, last>>
          /\ AtTable(p, t, {i \in DOMAIN FieldsOrdered[p] : FieldsOrdered[p][i] \notin db[t].cols})
       \/ Throws(t \in DOMAIN db, db) /\ Disturb(p, "other") /\ Leave(p, t, FALSE)
    /\ UNCHANGED <<db, calls, written>>

AddField(p, Leave(_, _, _)) ==
    /\ task[p].table # ""
    /\ \E i \in task[p].missing :
       LET t == task[p].table  f == FieldsOrdered[p][i]
           accepted == t \in DOMAIN db /\ f \notin db[t].cols
       IN /\ \A j \in task[p].missing : i <= j
          /\ \/ /\ Executes(accepted, sql_addfield(t, f)) /\ Disturb(p, "other")
                /\ AtTable(p, t, task[p].missing \ {i}) /\ UNCHANGED last
             \/ /\ Throws(accepted, sql_addfield(t, f)) /\ Disturb(p, "other")
                /\ Leave(p, t, FALSE)
    /\ UNCHANGED <<calls, written>>

Updated(p, Leave(_, _, _)) ==
    /\ task[p].table # "" /\ task[p].missing = {} /\ Leave(p, task[p].table, TRUE)
    /\ UNCHANGED <<db, calls, failures, disturbed, written>>

CreateMissing(p, t, Leave(_, _, _)) ==
    /\ Next1(p, t) /\ t \notin task[p].seen
    /\ LET accepted == t \notin DOMAIN db IN
       \/ Executes(accepted, sql_create(t, p)) /\ Disturb(p, "other") /\ Leave(p, t, TRUE)
       \/ Throws(accepted, sql_create(t, p)) /\ Disturb(p, "other") /\ Leave(p, t, FALSE)
    /\ UNCHANGED <<calls, written>>

(***************************************************************************)
(* Reading a row into an object, by a SELECT for one key or for many.      *)
(* MySQL sends cells as text; the text of a FLOAT column, which sql_type() *)
(* makes of a float, has six significant digits, whatever is stored in it. *)
(***************************************************************************)
Text(f, cell) == IF Kind[f] = "float" THEN Printed[cell] ELSE cell

Found(p, t, k) == Has(t, fields(p)) /\ k \in RowKeys(t)

Read(p, t, k, Convert(_, _), Selected(_)) ==
    /\ Call(p)
    /\ LET want == IF <<t, k>> \in DOMAIN written THEN written[<<t, k>>] ELSE [by |-> "nobody"]
           answer(ok, obj, failed) ==
               [op |-> "select", ret |-> ok, object |-> obj, want |-> want, failed |-> failed,
                row |-> IF Found(p, t, k) THEN db[t].rows[k] ELSE Nothing]
       IN \/ /\ Found(p, t, k) /\ UNCHANGED failures
             /\ LET obj == [f \in fields(p) |-> Convert(f, Text(f, db[t].rows[k][f]))]
                IN Return(p, answer(Selected(db[t].rows[k]), obj, FALSE))
          \/ /\ ~Found(p, t, k) /\ UNCHANGED failures
             /\ Return(p, answer(FALSE, Nothing, FALSE))
          \/ LosesConnection /\ Return(p, answer(FALSE, Nothing, TRUE))
    /\ UNCHANGED <<db, disturbed, written>>

Load(p, t, delivered, ok) ==
    /\ Call(p)
    /\ \/ /\ Has(t, fields(p)) /\ UNCHANGED failures
          /\ Return(p, [op |-> "load", ret |-> ok, delivered |-> delivered, rows |-> RowKeys(t)])
       \/ /\ Throws(Has(t, fields(p)), db)
          /\ Return(p, [op |-> "load", ret |-> FALSE, delivered |-> {}, rows |-> {}])
    /\ UNCHANGED <<db, disturbed, written>>
=============================================================================
